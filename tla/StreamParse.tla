---------------------------- MODULE StreamParse ----------------------------
(***************************************************************************)
(* How scripts/server_tools.py takes generated text apart: the streaming   *)
(* state machine of _stream_response, which sees the text token by token   *)
(* and holds back what could be the beginning of a tag or a stop sequence, *)
(* and the batch parsers that see all of it.                               *)
(*                                                                         *)
(* Text is a sequence of symbols, a tag several of them.  White space is   *)
(* left out, so str.strip does nothing; a tool call's body is valid if it  *)
(* holds a function header, and its typed arguments are not looked at.     *)
(***************************************************************************)
EXTENDS Integers, SequencesExt, FiniteSetsExt

CONSTANTS
  Symbols,
  Texts,        \* what the model may generate
  MaxPiece,     \* symbols of the longest token
  Stops,        \* normalize_stop(req.stop): a set of sequences
  ThinkOpen, ThinkClose, ToolOpen, ToolClose,   \* the tags
  FunctionOpen  \* symbol that stands for <function=NAME>

Tags == {ThinkOpen, ThinkClose, ToolOpen}
ASSUME TextAssumption ==
  /\ IsFiniteSet(Stops) /\ MaxPiece \in Nat
  /\ \A s \in Texts \cup Tags \cup Stops \cup {ToolClose} : s \in Seq(Symbols)
  /\ \A t \in Tags \cup Stops \cup {ToolClose} : t # <<>>

VARIABLES
  text,      \* the whole generated text
  thinking,  \* started_in_thinking
  fed,       \* symbols of it that have come
  parser,    \* mode, window, tool_buffer, and the deltas emitted so far
  phase      \* "reading" tokens, "scanning" the window for tags, "stopped" at a
             \* stop sequence, or "ended"

vars == <<text, thinking, fed, parser, phase>>

-----------------------------------------------------------------------------
(* Strings                                                                 *)

At(s, t, i) == i + Len(t) - 1 <= Len(s) /\ SubSeq(s, i, i + Len(t) - 1) = t
Has(s, t) == \E i \in DOMAIN s : At(s, t, i)

\* str.find, counted from 1; only used where s has t.
Find(s, t) == Min({i \in DOMAIN s : At(s, t, i)})
Before(s, t) == SubSeq(s, 1, Find(s, t) - 1)
After(s, t) == SubSeq(s, Find(s, t) + Len(t), Len(s))
From(s, t) == SubSeq(s, Find(s, t), Len(s))

\* Where the earliest stop sequence begins.
Stopped(s) == \E t \in Stops : Has(s, t)
first_stop_match(s) == Min({Find(s, t) : t \in {u \in Stops : Has(s, u)}})

-----------------------------------------------------------------------------
(* Batch parsing                                                           *)

\* parse_reasoning: [content, reasoning] of a text.
parse_reasoning(s, enabled) ==
  LET rest == IF Has(s, ThinkOpen) THEN After(s, ThinkOpen) ELSE s
  IN  IF Has(rest, ThinkClose)
      THEN [content |-> After(rest, ThinkClose), reasoning |-> Before(rest, ThinkClose)]
      ELSE IF enabled THEN [content |-> <<>>, reasoning |-> rest]
      ELSE [content |-> rest, reasoning |-> <<>>]

\* parse_tool_calls: the text outside complete tool calls, and the bodies of
\* those that name a function; a complete call that names none is dropped.
parse_tool_calls(s) ==
  LET last[n \in 0..Len(s)] ==   \* of the last n symbols
        LET rest == SubSeq(s, Len(s) - n + 1, Len(s))
            call == After(rest, ToolOpen)
            body == Before(call, ToolClose)
            next == last[Len(After(call, ToolClose))]
        IN  IF ~Has(rest, ToolOpen) \/ ~Has(call, ToolClose)
            THEN [cleaned |-> rest, calls |-> <<>>]
            ELSE [cleaned |-> Before(rest, ToolOpen) \o next.cleaned,
                  calls |-> (IF Has(body, <<FunctionOpen>>) THEN <<body>> ELSE <<>>)
                              \o next.calls]
  IN  last[Len(s)]

\* Mutant: the text is not trimmed.
BatchUntrimmed(s, enabled) ==
  LET tools == parse_tool_calls(s)
      parts == parse_reasoning(tools.cleaned, enabled)
  IN  [content |-> parts.content, reasoning |-> parts.reasoning, calls |-> tools.calls]

\* The non-streaming response: trim at the first stop sequence, take the tool
\* calls out, then the reasoning.
Batch(s, enabled) ==
  LET trimmed == IF Stopped(s) THEN SubSeq(s, 1, first_stop_match(s) - 1) ELSE s
      tools == parse_tool_calls(trimmed)
      parts == parse_reasoning(tools.cleaned, enabled)
  IN  [content |-> parts.content, reasoning |-> parts.reasoning, calls |-> tools.calls]

-----------------------------------------------------------------------------
(* The stream                                                              *)

\* Mutant: stop sequences longer than the tags are not covered.
HoldbackOfTags == Max({Len(t) : t \in Tags})

HOLDBACK == Max({Len(t) : t \in Tags \cup Stops})

\* Deltas of one kind; a delta is delivered symbol by symbol.
Delta(s, kind) == [i \in DOMAIN s |-> [kind |-> kind, symbol |-> s[i]]]
Kind(mode) == IF mode = "reasoning" THEN "reasoning_content" ELSE "content"
Emit(p, s) == [p EXCEPT !.out = @ \o Delta(s, Kind(p.mode))]

\* No tag in the window: show all but the holdback.
Show(p) ==
  LET safe == Len(p.window) - HOLDBACK
  IN  IF safe <= 0 THEN p
      ELSE [Emit(p, SubSeq(p.window, 1, safe)) EXCEPT
              !.window = SubSeq(p.window, safe + 1, Len(p.window))]

\* The tokenizer has a token for each tag, and where a tag is spelled out
\* instead no token goes on past its end.
IsPiece(n) ==
  /\ fed + n <= Len(text)
  /\ \A i \in 1..(fed + n - 1), t \in Tags :
       At(text, t, i) => i + Len(t) - 1 <= fed \/ i + Len(t) - 1 >= fed + n

\* One token of n symbols: the stop sequences come first, except in a tool
\* call, and end the response.
Token(n) ==
  /\ phase = "reading"
  /\ IsPiece(n)
  /\ fed' = fed + n
  /\ LET p == [parser EXCEPT !.window = @ \o SubSeq(text, fed + 1, fed + n)]
     IN  IF p.mode # "tool_buffer" /\ Stopped(p.window)
         THEN /\ parser' = [Emit(p, SubSeq(p.window, 1, first_stop_match(p.window) - 1))
                              EXCEPT !.window = <<>>]
              /\ phase' = "stopped"
         ELSE parser' = p /\ phase' = "scanning"
  /\ UNCHANGED <<text, thinking>>

\* One turn of the inner loop, until no tag is left in the window: of two tags the
\* earlier one, <think> first.
Scan ==
  LET w == parser.window
      think == Has(w, ThinkOpen) /\ (Has(w, ToolOpen) => Find(w, ThinkOpen) <= Find(w, ToolOpen))
      tool == Has(w, ToolOpen) /\ ~think
  IN  /\ phase = "scanning"
      /\ \/ /\ parser.mode = "tool_buffer"
            /\ parser' = [parser EXCEPT !.buffer = @ \o w, !.window = <<>>]
            /\ phase' = "reading"
         \/ /\ parser.mode = "reasoning" /\ Has(w, ThinkClose)
            /\ parser' = [Emit(parser, Before(w, ThinkClose)) EXCEPT
                            !.window = After(w, ThinkClose), !.mode = "content"]
            /\ UNCHANGED phase
         \/ /\ parser.mode = "content" /\ think
            /\ parser' = [Emit(parser, Before(w, ThinkOpen)) EXCEPT
                            !.window = After(w, ThinkOpen), !.mode = "reasoning"]
            /\ UNCHANGED phase
         \/ /\ parser.mode = "content" /\ tool
            /\ parser' = [Emit(parser, Before(w, ToolOpen)) EXCEPT
                            !.window = <<>>, !.buffer = From(w, ToolOpen),
                            !.mode = "tool_buffer"]
            /\ UNCHANGED phase
         \/ /\ \/ parser.mode = "reasoning" /\ ~Has(w, ThinkClose)
               \/ parser.mode = "content" /\ ~think /\ ~tool
            /\ parser' = Show(parser)
            /\ phase' = "reading"
      /\ UNCHANGED <<text, thinking, fed>>

\* Mutant: what is held back is lost.
EndDropsWindow ==
  /\ phase = "reading" /\ fed = Len(text)
  /\ phase' = "ended"
  /\ parser' = [parser EXCEPT !.window = <<>>]
  /\ UNCHANGED <<text, thinking, fed>>

\* The generation is over: flush the window, or parse the tool calls; with none
\* the buffer is shown as it is.
End ==
  /\ phase = "reading" /\ fed = Len(text)
  /\ phase' = "ended"
  /\ parser' =
       IF parser.mode # "tool_buffer" THEN [Emit(parser, parser.window) EXCEPT !.window = <<>>]
       ELSE LET tools == parse_tool_calls(parser.buffer)
            IN  IF tools.calls = <<>> THEN Emit(parser, parser.buffer)
                ELSE [Emit(parser, tools.cleaned) EXCEPT !.calls = tools.calls]
  /\ UNCHANGED <<text, thinking, fed>>

Init ==
  /\ text \in Texts
  /\ thinking \in BOOLEAN
  /\ fed = 0
  /\ parser = [mode |-> IF thinking THEN "reasoning" ELSE "content", window |-> <<>>,
               buffer |-> <<>>, out |-> <<>>, calls |-> <<>>]
  /\ phase = "reading"

Next == (\E n \in 1..MaxPiece : Token(n)) \/ Scan \/ End

Spec == Init /\ [][Next]_vars

-----------------------------------------------------------------------------
(* Properties                                                              *)

\* What a parser without a window shows of the last n symbols of s, in each mode: it
\* looks at all of the text from there on and shows one symbol after the other.
Remaining(s, n) ==
  LET shown[k \in 0..Len(s)] ==
        LET i == Len(s) - k + 1
            rest == SubSeq(s, i, Len(s))
            tools == parse_tool_calls(rest)
        IN  [m \in {"reasoning", "content"} |->
               IF k = 0 \/ (\E t \in Stops : At(s, t, i)) THEN [out |-> <<>>, calls |-> <<>>]
               ELSE IF m = "reasoning" /\ At(s, ThinkClose, i)
               THEN shown[k - Len(ThinkClose)]["content"]
               ELSE IF m = "content" /\ At(s, ThinkOpen, i)
               THEN shown[k - Len(ThinkOpen)]["reasoning"]
               ELSE IF m = "content" /\ At(s, ToolOpen, i)
               THEN IF tools.calls = <<>> THEN [out |-> Delta(rest, "content"), calls |-> <<>>]
                    ELSE [out |-> Delta(tools.cleaned, "content"), calls |-> tools.calls]
               ELSE [shown[k - 1][m] EXCEPT !.out = Delta(<<s[i]>>, Kind(m)) \o @]]
  IN  shown[n]

Reference == Remaining(text, Len(text))[IF thinking THEN "reasoning" ELSE "content"]

\* One can be laid over the other so that they agree wherever both are.
Touch(s, t) ==
  \E d \in (1 - Len(t))..(Len(s) - 1) :
    \A i \in DOMAIN s, j \in DOMAIN t : i = j + d => s[i] = t[j]

\* t is inside s: it begins later and ends earlier.
Inside(s, t) ==
  \E d \in 1..(Len(s) - Len(t) - 1) : \A j \in DOMAIN t : s[j + d] = t[j]

\* Tags and stop sequences cannot overlap, nor hides a stop sequence another one.
Apart ==
  /\ ~Touch(ThinkOpen, ThinkClose) /\ ~Touch(ThinkOpen, ToolOpen)
  /\ ~Touch(ThinkClose, ToolOpen)
  /\ \A s \in Stops : /\ \A t \in Tags : ~Touch(s, t)
                      /\ \A t \in Stops : ~Inside(s, t)

\* What a stream has shown stays right, however the text was cut into tokens:
\* no part of a tag or a stop sequence is shown before it is recognised, and
\* nothing is shown under the wrong kind.
ShownIsFinal == IsPrefix(parser.out, Reference.out)

\* When the response ends nothing is missing: the holdback has been flushed.
WholeAtEnd ==
  phase \in {"stopped", "ended"} =>
    parser.out = Reference.out /\ parser.calls = Reference.calls

\* Texts that the two endpoints agree on: reasoning up to </think> if the response
\* starts in thinking, else content; after that tool calls of which one is valid, with
\* no stop sequence inside them; and no other tag, not even one that appears when
\* the tool calls are taken out.
Regular ==
  /\ ~Has(text, ThinkOpen)
  /\ IF thinking
     THEN ~Has(IF Has(text, ThinkClose) THEN Before(text, ThinkClose) ELSE text, ToolOpen)
     ELSE ~Has(text, ThinkClose)
  /\ Has(text, ToolOpen) =>
       LET tools == parse_tool_calls(text)
       IN  /\ tools.calls # <<>> /\ ~Stopped(From(text, ToolOpen))
           /\ ~Has(tools.cleaned, ThinkOpen) /\ (~thinking => ~Has(tools.cleaned, ThinkClose))

\* A streamed response and a collected one, of a request that enables thinking if
\* its prompt does, have the same reasoning, the same content after it and the same
\* tool calls.
BatchAgrees ==
  phase \in {"stopped", "ended"} /\ Regular =>
    LET batch == Batch(text, thinking)
    IN  /\ parser.out = Delta(batch.reasoning, "reasoning_content")
                         \o Delta(batch.content, "content")
        /\ parser.calls = batch.calls
=============================================================================
