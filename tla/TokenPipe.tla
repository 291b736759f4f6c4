----------------------------- MODULE TokenPipe -----------------------------
(***************************************************************************)
(* Requests sharing one daemon: the handlers of scripts/server.py and      *)
(* scripts/server_tools.py with daemon_lock, the compression dance of      *)
(* scripts/_prefill_hook.py on its worker thread, the command line (stdin) *)
(* and the token pipe (--stream-fd), and the daemon's loop with the        *)
(* weights it parks.  Both ends of the pipe are plain int32: nothing but   *)
(* the order of reads and writes says whose token it is.                   *)
(*                                                                         *)
(* A handler is the sequence of its stages; a stage is the code between    *)
(* two awaits, or part of it.  The prefix caches, their lookup and their   *)
(* confirm, are in PrefixCache and FullCache; here a full-cache hit is a   *)
(* choice made where lookup_full is called.                                *)
(***************************************************************************)
EXTENDS Integers, Sequences, FiniteSets

CONSTANTS
  Clients,   \* connections, one request each
  Calls,     \* what they may call: names of handlers below
  Modes,     \* PrefillConfig.mode: a subset of {"off", "auto", "always"}
  Texts,     \* last user message: a subset of {"none", "empty", "some"}
  Limits,    \* gen_len of a request: 0 stands for a prompt that is too long
  MaxMade,   \* bound on the tokens generated for a request
  Faults,    \* subset of {"leave", "stop", "reload", "drafter", "die"}
  None       \* Python's None

ASSUME BoundAssumption == MaxMade \in Nat /\ Limits \subseteq Nat

\* Command lines of the daemon, without the paths and numbers they carry.
Commands ==
  [from : Clients, op : {"park", "compress", "free", "unpark", "generate"},
   arg : {"", "target", "draft", "drafter"}]

\* None is nobody, and no command line.
ASSUME NoneAssumption == None \notin Clients \cup Commands

VARIABLES
  mode,      \* PrefillConfig.mode of this server
  req,       \* the requests
  at,        \* stage each handler is in
  status,    \* "open", or how the request ended
  lock,      \* holder of daemon_lock, or None
  hit,       \* lookup_full found an entry
  got,       \* tokens yielded to the response so far
  mute,      \* hit_stop: read to the sentinel, yield nothing more
  files,     \* temporary files of the request still on disk
  worker,    \* progress of the thread that runs the compression dance
  strays,    \* os.read calls whose coroutine was cancelled
  stdin,     \* command lines not read by the daemon
  job,       \* the command it is executing, or None
  pipe,      \* items not read from r_pipe
  made,      \* tokens generated for each request
  parked,    \* weights not in VRAM
  drafter,   \* drafter_loaded
  alive      \* the daemon process runs

handlers == <<mode, req, at, status, lock, hit, got, mute, files>>
threads == <<worker, strays>>
daemon == <<job, made, parked, drafter, alive>>
vars == <<handlers, threads, stdin, pipe, daemon>>

\* An item of the pipe: a token, by its position in what was generated, one of
\* stop_ids, or the sentinel.  `from` is what no reader can see.
StopId == 0
Sentinel == -1
Item(c, i) == [from |-> c, id |-> i]
Tokens == [from : Clients, id : 0..MaxMade]

-----------------------------------------------------------------------------
(* The handlers, in source order                                           *)

\* server.py
ChatStream == <<"lock", "squeeze", "check", "send", "head", "read", "unlink",
                "answer">>
ChatCollect == <<"lock", "squeeze", "check", "send", "read", "unlock", "unlink",
                 "answer">>
MessagesStream == <<"lock", "squeeze", "check", "head", "send", "read", "unlink",
                    "answer">>
MessagesCollect == <<"lock", "squeeze", "check", "send", "read", "unlock", "unlink",
                     "answer">>

\* Mutant: the second acquisition is optimised away.
ToolsStreamUnlocked == <<"lock", "squeeze", "unlock", "check", "send", "head", "scan",
                         "unlink", "answer">>

\* server_tools.py takes the lock twice, and reads the collected tokens of a
\* chat on the event loop itself ("collect").
ToolsLookup == <<"lock", "squeeze", "unlock", "check">>
ToolsStream == ToolsLookup \o <<"lock2", "send", "head", "scan", "unlink", "answer">>
ToolsCollect == ToolsLookup \o <<"lock2", "send", "collect", "unlock", "unlink",
                                 "answer">>
ToolsMessagesLookup == <<"lock", "squeeze", "unlock", "check">>
ToolsMessagesStream == ToolsMessagesLookup \o
                         <<"lock2", "head", "send", "read", "unlink", "answer">>
ToolsMessagesCollect == ToolsMessagesLookup \o
                         <<"lock2", "send", "read", "unlock", "unlink", "answer">>

Handler(call) ==
  CASE call = "chat_stream" -> ChatStream
    [] call = "chat" -> ChatCollect
    [] call = "messages_stream" -> MessagesStream
    [] call = "messages" -> MessagesCollect
    [] call = "tools_stream" -> ToolsStream
    [] call = "tools" -> ToolsCollect
    [] call = "tools_messages_stream" -> ToolsMessagesStream
    [] call = "tools_messages" -> ToolsMessagesCollect

ServerCalls == {"chat_stream", "chat", "messages_stream", "messages"}
ToolsCalls == {"tools_stream", "tools", "tools_messages_stream", "tools_messages"}
Streams == {"chat_stream", "messages_stream", "tools_stream", "tools_messages_stream"}

\* Requests as the tokenizer of their endpoint leaves them: the last user
\* message, if any; whether the prompt reaches --prefill-threshold; tools;
\* gen_len; stop sequences.  Only the OpenAI endpoint of the tool server has the
\* last two.
Requests(calls, tools, stops) ==
  [call : Calls \cap calls, text : Texts, long : BOOLEAN, limit : Limits,
   tools : tools, stops : stops]

ChatRequests == Requests({"chat_stream", "chat"}, {FALSE}, {FALSE})
MessagesRequests == Requests({"messages_stream", "messages"}, {FALSE}, {FALSE})
ToolChatRequests ==
  Requests({"tools"}, BOOLEAN, {FALSE}) \cup
  Requests({"tools_stream"}, BOOLEAN, IF "stop" \in Faults THEN BOOLEAN ELSE {FALSE})
ToolMessagesRequests ==
  Requests({"tools_messages_stream", "tools_messages"}, {FALSE}, {FALSE})

ServerRequests == ChatRequests \cup MessagesRequests
ToolServerRequests == ToolChatRequests \cup ToolMessagesRequests

Stage(c) == Handler(req[c].call)[at[c]]
In(c, stages) == status[c] = "open" /\ Stage(c) \in stages

\* The event loop runs c: no collected read of another request blocks it.
Runs(c, stages) == In(c, stages) /\ \A d \in Clients \ {c} : ~In(d, {"collect"})

Advance(c) == at' = [at EXCEPT ![c] = @ + 1]
End(c, how) == status' = [status EXCEPT ![c] = how]
Released(c) == IF lock = c THEN None ELSE lock

-----------------------------------------------------------------------------
(* Compression                                                             *)

should_compress(long) == mode = "always" \/ (mode = "auto" /\ long)

\* _maybe_compress of server.py, _maybe_compress_tool_chat and
\* _maybe_compress_anthropic of server_tools.py, up to the dance.
_maybe_compress(r) == mode # "off" /\ should_compress(r.long) /\ r.text # "none"
_maybe_compress_tool_chat(r) ==
  mode # "off" /\ ~r.tools /\ should_compress(r.long) /\ r.text # "none"
_maybe_compress_anthropic(r) == mode # "off" /\ should_compress(r.long) /\ r.text # "none"

Compresses(r) ==
  CASE r.call \in ServerCalls -> _maybe_compress(r)
    [] r.call \in {"tools_stream", "tools"} -> _maybe_compress_tool_chat(r)
    [] OTHER -> _maybe_compress_anthropic(r)

\* Mutant: draft weights are left parked.
DanceForgetsDraft == << <<"park", "target">>, <<"park", "draft">>, <<"compress", "">>,
                        <<"free", "drafter">>, <<"unpark", "target">>,
                        <<"free", "drafter">> >>

\* The commands of compress_text_via_daemon; each waits for its sentinel.
compress_text_via_daemon ==
  << <<"park", "target">>, <<"park", "draft">>, <<"compress", "">>,
     <<"free", "drafter">>, <<"unpark", "target">>, <<"unpark", "draft">> >>

\* worker[c]: 0 before the thread starts, 2k-1 before command k is written, 2k
\* while its answer is read, then how the function ended.
Returned == 2 * Len(compress_text_via_daemon) + 1
Raised == Returned + 1
Writing(c) == worker[c] \in {2 * k - 1 : k \in DOMAIN compress_text_via_daemon}
Draining(c) == worker[c] \in {2 * k : k \in DOMAIN compress_text_via_daemon}

\* The `finally` of the hook.
HookLeaves(c) == files[c] \ {"ids"}

\* Write a command line; a dead daemon makes the write raise.
WorkerWrite(c) ==
  /\ Writing(c)
  /\ LET line == compress_text_via_daemon[(worker[c] + 1) \div 2]
     IN  IF alive
         THEN /\ stdin' = Append(stdin, [from |-> c, op |-> line[1], arg |-> line[2]])
              /\ worker' = [worker EXCEPT ![c] = @ + 1]
              /\ UNCHANGED files
         ELSE /\ worker' = [worker EXCEPT ![c] = Raised]
              /\ files' = [files EXCEPT ![c] = HookLeaves(c)]
              /\ UNCHANGED stdin
  /\ UNCHANGED <<mode, req, at, status, lock, hit, got, mute, strays, pipe, daemon>>

\* One read of _drain_until_sentinel.  After the last answer the ids file is
\* unlinked, the compressed prompt written and the original prompt unlinked.
WorkerRead(c) ==
  /\ Draining(c)
  /\ pipe # <<>> \/ ~alive
  /\ pipe' = IF pipe = <<>> THEN pipe ELSE Tail(pipe)
  /\ IF pipe = <<>> \/ Head(pipe).id = Sentinel
     THEN /\ worker' = [worker EXCEPT ![c] = @ + 1]
          /\ files' = [files EXCEPT ![c] =
               IF worker[c] + 1 = Returned THEN {"squeezed"} ELSE @]
     ELSE UNCHANGED <<worker, files>>
  /\ UNCHANGED <<mode, req, at, status, lock, hit, got, mute, strays, stdin, daemon>>

\* A read on a thread whose coroutine is gone: whatever it gets is lost.
StrayRead ==
  /\ strays > 0
  /\ pipe # <<>> \/ ~alive
  /\ pipe' = IF pipe = <<>> THEN pipe ELSE Tail(pipe)
  /\ strays' = strays - 1
  /\ UNCHANGED <<handlers, worker, stdin, daemon>>

-----------------------------------------------------------------------------
(* Stages of the handlers                                                  *)

\* Acquire daemon_lock; the first time, look the prompt up in the full cache,
\* which is empty unless compression is on, and not asked if there are tools.
Lock(c) ==
  /\ Runs(c, {"lock", "lock2"})
  /\ lock = None
  /\ lock' = c
  /\ \/ UNCHANGED hit
     \/ /\ Stage(c) = "lock"
        /\ mode # "off" /\ ~req[c].tools
        /\ hit' = [hit EXCEPT ![c] = TRUE]
  /\ Advance(c)
  /\ UNCHANGED <<mode, req, status, got, mute, files, threads, stdin, pipe, daemon>>

\* A hit or a prompt that is not compressed skips the dance.
SkipSqueeze(c) ==
  /\ Runs(c, {"squeeze"})
  /\ hit[c] \/ ~Compresses(req[c])
  /\ Advance(c)
  /\ UNCHANGED <<mode, req, status, lock, hit, got, mute, files, threads, stdin, pipe,
                 daemon>>

\* asyncio.to_thread: tokenising an empty message raises, before the ids file.
StartSqueeze(c) ==
  /\ Runs(c, {"squeeze"})
  /\ ~hit[c] /\ Compresses(req[c])
  /\ worker[c] = 0
  /\ worker' = [worker EXCEPT ![c] = IF req[c].text = "empty" THEN Raised ELSE 1]
  /\ files' = [files EXCEPT ![c] = IF req[c].text = "empty" THEN @ ELSE @ \cup {"ids"}]
  /\ UNCHANGED <<mode, req, at, status, lock, hit, got, mute, strays, stdin, pipe, daemon>>

\* The thread is done; its exception is the handler's.
EndSqueeze(c) ==
  /\ Runs(c, {"squeeze"})
  /\ \/ worker[c] = Returned /\ Advance(c) /\ UNCHANGED <<status, lock>>
     \/ worker[c] = Raised /\ End(c, "failed") /\ lock' = Released(c) /\ UNCHANGED at
  /\ UNCHANGED <<mode, req, hit, got, mute, files, threads, stdin, pipe, daemon>>

\* Mutant: the original prompt file is forgotten on a hit.
UnlinkedNoHit(c) == IF hit[c] THEN files[c] ELSE files[c] \ {"prompt", "squeezed"}

\* On a hit cur_bin is the cached file: the tokenizer's file goes instead.
Unlinked(c) == files[c] \ (IF hit[c] THEN {"prompt"} ELSE {"prompt", "squeezed"})

\* gen_len <= 0.
Check(c) ==
  /\ Runs(c, {"check"})
  /\ IF req[c].limit > 0
     THEN Advance(c) /\ UNCHANGED <<status, lock, files>>
     ELSE /\ End(c, "refused")
          /\ lock' = Released(c)
          /\ files' = [files EXCEPT ![c] = Unlinked(c)]
          /\ UNCHANGED at
  /\ UNCHANGED <<mode, req, hit, got, mute, threads, stdin, pipe, daemon>>

\* Write the generate command; with a dead daemon the handler ends here, before
\* the `finally` that unlinks.
Send(c) ==
  /\ Runs(c, {"send"})
  /\ IF alive
     THEN /\ stdin' = Append(stdin, [from |-> c, op |-> "generate", arg |-> ""])
          /\ Advance(c)
          /\ UNCHANGED <<status, lock>>
     ELSE End(c, "failed") /\ lock' = Released(c) /\ UNCHANGED <<stdin, at>>
  /\ UNCHANGED <<mode, req, hit, got, mute, files, threads, pipe, daemon>>

\* The first event of a stream; the release in the middle of a handler.
Yield(c) ==
  /\ Runs(c, {"head"})
  /\ Advance(c)
  /\ UNCHANGED <<mode, req, status, lock, hit, got, mute, files, threads, stdin, pipe,
                 daemon>>

Unlock(c) ==
  /\ Runs(c, {"unlock"})
  /\ lock' = None
  /\ Advance(c)
  /\ UNCHANGED <<mode, req, status, hit, got, mute, files, threads, stdin, pipe, daemon>>

\* What the token loops do with the next item: it is yielded ...
Shown(c) == Head(pipe).id \notin {Sentinel, StopId} /\ ~mute[c]

\* ... or it sets hit_stop, as does the last token of the budget.
Muted(c) == Head(pipe).id = StopId \/ (Shown(c) /\ Len(got[c]) + 1 >= req[c].limit)

\* Mutant: hit_stop ends the loop, not only the response.
ReadEndsEarly(c) ==
  /\ Runs(c, {"read", "scan", "collect"})
  /\ pipe # <<>>
  /\ pipe' = Tail(pipe)
  /\ got' = IF Shown(c) THEN [got EXCEPT ![c] = Append(@, Head(pipe))] ELSE got
  /\ IF Head(pipe).id = Sentinel \/ Muted(c) THEN Advance(c) ELSE UNCHANGED at
  /\ UNCHANGED <<mode, req, status, lock, hit, mute, files, threads, stdin, daemon>>

\* One turn of a token loop: it goes on to the sentinel whatever it yields.
Read(c) ==
  /\ Runs(c, {"read", "scan", "collect"})
  /\ pipe # <<>>
  /\ pipe' = Tail(pipe)
  /\ got' = IF Shown(c) THEN [got EXCEPT ![c] = Append(@, Head(pipe))] ELSE got
  /\ mute' = [mute EXCEPT ![c] = @ \/ Muted(c)]
  /\ IF Head(pipe).id = Sentinel THEN Advance(c) ELSE UNCHANGED at
  /\ UNCHANGED <<mode, req, status, lock, hit, files, threads, stdin, daemon>>

\* The daemon has closed its end of the pipe.
ReadEof(c) ==
  /\ Runs(c, {"read", "scan", "collect"})
  /\ pipe = <<>> /\ ~alive
  /\ Advance(c)
  /\ UNCHANGED <<mode, req, status, lock, hit, got, mute, files, threads, stdin, pipe,
                 daemon>>

\* A stop sequence in what was yielded: the loop is left without the sentinel.
StopMatch(c) ==
  /\ Runs(c, {"scan"})
  /\ req[c].stops /\ got[c] # <<>>
  /\ Advance(c)
  /\ UNCHANGED <<mode, req, status, lock, hit, got, mute, files, threads, stdin, pipe,
                 daemon>>

\* After the last token; the streaming chat of the tool server has no branch
\* for a hit.
Unlink(c) ==
  /\ Runs(c, {"unlink"})
  /\ files' = [files EXCEPT ![c] =
       IF req[c].call = "tools_stream" /\ hit[c] THEN @ ELSE Unlinked(c)]
  /\ Advance(c)
  /\ UNCHANGED <<mode, req, status, lock, hit, got, mute, threads, stdin, pipe, daemon>>

\* The last events of a stream, which then releases the lock, or the JSON.
Answer(c) ==
  /\ Runs(c, {"answer"})
  /\ End(c, "done")
  /\ lock' = Released(c)
  /\ UNCHANGED <<mode, req, at, hit, got, mute, files, threads, stdin, pipe, daemon>>

\* The client of a stream goes away: its generator is cancelled at an await or
\* a yield.  Lookup and compression of the tool server come before the stream.
\* A read or a dance in progress stays on its thread; a read of the tool
\* server's chat is waited for.  Only the token loop has a `finally`.
Leave(c) ==
  /\ "leave" \in Faults
  /\ Runs(c, {"lock", "lock2", "squeeze", "head", "read", "scan", "answer"})
  /\ req[c].call \in Streams
  /\ req[c].call \in ToolsCalls => Stage(c) \notin {"lock", "squeeze"}
  /\ End(c, "gone")
  /\ lock' = Released(c)
  /\ strays' \in {strays, IF Stage(c) = "read" THEN strays + 1 ELSE strays}
  /\ files' = [files EXCEPT ![c] =
       IF Stage(c) = "read" \/ (Stage(c) = "scan" /\ ~hit[c]) THEN Unlinked(c) ELSE @]
  /\ UNCHANGED <<mode, req, at, hit, got, mute, worker, stdin, pipe, daemon>>

-----------------------------------------------------------------------------
(* The daemon                                                              *)

Weights == {"target", "draft"}
Executes(op) == alive /\ job # None /\ job.op = op
Emit(ids) == pipe' = pipe \o [i \in DOMAIN ids |-> Item(job.from, ids[i])]
Finish(ids) == Emit(ids \o <<Sentinel>>) /\ job' = None

Take ==
  /\ alive /\ job = None /\ stdin # <<>>
  /\ job' = Head(stdin)
  /\ stdin' = Tail(stdin)
  /\ UNCHANGED <<handlers, threads, pipe, made, parked, drafter, alive>>

Park ==
  /\ Executes("park")
  /\ parked' = parked \cup {job.arg}
  /\ Finish(<<>>)
  /\ UNCHANGED <<handlers, threads, stdin, made, drafter, alive>>

\* Mutant: a failed reload is not acknowledged.
UnparkSilent ==
  /\ Executes("unpark")
  /\ \/ parked' = parked \ {job.arg} /\ Finish(<<>>)
     \/ "reload" \in Faults /\ job' = None /\ UNCHANGED <<parked, pipe>>
  /\ UNCHANGED <<handlers, threads, stdin, made, drafter, alive>>

\* A failed reload is acknowledged like a success.
Unpark ==
  /\ Executes("unpark")
  /\ \/ parked' = parked \ {job.arg}
     \/ "reload" \in Faults /\ UNCHANGED parked
  /\ Finish(<<>>)
  /\ UNCHANGED <<handlers, threads, stdin, made, drafter, alive>>

FreeDrafter ==
  /\ Executes("free")
  /\ drafter' = FALSE
  /\ Finish(<<>>)
  /\ UNCHANGED <<handlers, threads, stdin, made, parked, alive>>

\* Park what is not parked, load the drafter if need be, score, reload what
\* was parked here.  Every failure answers with the bare sentinel.
Compress ==
  /\ Executes("compress")
  /\ \/ /\ "drafter" \in Faults /\ ~drafter
        /\ parked' = Weights
        /\ UNCHANGED drafter
        /\ Finish(<<>>)
     \/ /\ "reload" \in Faults
        /\ drafter' = TRUE
        /\ parked' \in {parked \cup {"draft"}, Weights} \ {parked}
        /\ Finish(<<>>)
     \/ /\ drafter' = TRUE
        /\ UNCHANGED parked
        /\ Finish(<<1>>)
  /\ UNCHANGED <<handlers, threads, stdin, made, alive>>

\* A token of the continuation.  Tokens past n_gen or past a stop id may come:
\* readers do not rely on the daemon to keep to either.
Generate ==
  /\ Executes("generate")
  /\ LET n == Len(made[job.from])
     IN  /\ n < MaxMade
         /\ \E i \in {StopId, n + 1} :
              /\ made' = [made EXCEPT ![job.from] = Append(@, Item(job.from, i))]
              /\ Emit(<<i>>)
  /\ UNCHANGED <<handlers, threads, stdin, job, parked, drafter, alive>>

\* Mutant: a refused command is skipped without a sentinel.
GenerateEndSilent ==
  /\ Executes("generate")
  /\ IF made[job.from] = <<>> THEN job' = None /\ UNCHANGED pipe ELSE Finish(<<>>)
  /\ UNCHANGED <<handlers, threads, stdin, made, parked, drafter, alive>>

\* The end of the continuation, or any refusal before it.
GenerateEnd ==
  /\ Executes("generate")
  /\ Finish(<<>>)
  /\ UNCHANGED <<handlers, threads, stdin, made, parked, drafter, alive>>

Die ==
  /\ "die" \in Faults
  /\ alive
  /\ alive' = FALSE
  /\ job' = None
  /\ stdin' = <<>>
  /\ UNCHANGED <<handlers, threads, pipe, made, parked, drafter>>

-----------------------------------------------------------------------------
Init ==
  /\ mode \in Modes
  /\ req \in [Clients -> ServerRequests] \cup [Clients -> ToolServerRequests]
  /\ at = [c \in Clients |-> 1]
  /\ status = [c \in Clients |-> "open"]
  /\ lock = None
  /\ hit = [c \in Clients |-> FALSE]
  /\ got = [c \in Clients |-> <<>>]
  /\ mute = [c \in Clients |-> FALSE]
  /\ files = [c \in Clients |-> {"prompt"}]
  /\ worker = [c \in Clients |-> 0]
  /\ strays = 0
  /\ stdin = <<>>
  /\ job = None
  /\ pipe = <<>>
  /\ made = [c \in Clients |-> <<>>]
  /\ parked = {}
  /\ drafter = FALSE
  /\ alive = TRUE

Handle(c) ==
  Lock(c) \/ SkipSqueeze(c) \/ StartSqueeze(c) \/ EndSqueeze(c) \/ Check(c) \/ Send(c)
  \/ Yield(c) \/ Read(c) \/ ReadEof(c) \/ Unlink(c) \/ Unlock(c) \/ Answer(c)
Work(c) == WorkerWrite(c) \/ WorkerRead(c)
Daemon == Take \/ Park \/ Unpark \/ FreeDrafter \/ Compress \/ Generate \/ GenerateEnd

\* Every request has ended and every thread is back: the server is idle.
Idle ==
  /\ \A c \in Clients : status[c] # "open" /\ ~Writing(c) /\ ~Draining(c)
  /\ job = None /\ stdin = <<>>
  /\ UNCHANGED vars

Next ==
  \/ \E c \in Clients : Handle(c) \/ Work(c) \/ StopMatch(c) \/ Leave(c)
  \/ StrayRead \/ Daemon \/ Die \/ Idle

\* The event loop, the thread pool and the daemon all keep running; nobody has
\* to leave, to match a stop sequence or to die.
Fairness ==
  /\ \A c \in Clients : WF_vars(Handle(c)) /\ WF_vars(Work(c))
  /\ WF_vars(StrayRead) /\ WF_vars(Daemon)

Spec == Init /\ [][Next]_vars /\ Fairness

-----------------------------------------------------------------------------
(* Properties                                                              *)

\* Every variable stays in its domain.
TypeOK ==
  /\ mode \in Modes
  /\ req \in [Clients -> ServerRequests \cup ToolServerRequests]
  /\ \A c \in Clients : at[c] \in DOMAIN Handler(req[c].call)
  /\ status \in [Clients -> {"open", "done", "refused", "failed", "gone"}]
  /\ lock \in Clients \cup {None}
  /\ hit \in [Clients -> BOOLEAN] /\ mute \in [Clients -> BOOLEAN]
  /\ files \in [Clients -> SUBSET {"prompt", "ids", "squeezed"}]
  /\ worker \in [Clients -> 0..Raised]
  /\ strays \in Nat
  /\ got \in [Clients -> Seq([from : Clients, id : 1..MaxMade])]
  /\ made \in [Clients -> Seq(Tokens)]
  /\ stdin \in Seq(Commands) /\ job \in Commands \cup {None}
  /\ pipe \in Seq([from : Clients, id : Sentinel..MaxMade])
  /\ parked \subseteq Weights
  /\ drafter \in BOOLEAN /\ alive \in BOOLEAN

\* The servers implement Completions: with clients that stay, no stop
\* sequences and a daemon that lives, each response is its own continuation,
\* trimmed and whole, though all share one unlabelled pipe.
Promise == INSTANCE Completions WITH
  StopTokens <- {t \in Tokens : t.id = StopId},
  limit <- [c \in Clients |-> req[c].limit],
  out <- got,
  answered <- [c \in Clients |-> status[c] = "done"]
Promised == Promise!Spec

\* A generate command finds target and draft in VRAM and the drafter gone
\* (_prefill_hook.py: "the daemon has its target + draft restored and is ready
\* for generate").
ReadyForGenerate ==
  job # None /\ job.op = "generate" => parked = {} /\ ~drafter

\* A request ends at code that unlinks: its refusal, its token loop or later.
\* The streaming chat of the tool server has none for a hit (server_tools.py 849).
Unlinks(c) ==
  \/ status[c] = "refused"
  \/ /\ Stage(c) \in {"read", "scan", "answer"}
     /\ ~(req[c].call = "tools_stream" /\ hit[c])

\* What a request leaves in the temporary directory, however it ends, once its
\* thread is back too: nothing if it ends at code that unlinks; if a failing
\* hook, a dead daemon or its client ended it elsewhere, the one prompt file its
\* generate command would have named; the drafter's ids never.
FilesLeft ==
  \A c \in Clients : status[c] # "open" /\ ~Writing(c) /\ ~Draining(c) =>
    files[c] = IF Unlinks(c) THEN {}
               ELSE IF worker[c] = Returned THEN {"squeezed"} ELSE {"prompt"}

\* Whoever waits for a sentinel gets one: as many are under way as there are
\* readers and stray reads, whoever left, stopped or was misread before.  Each
\* command is answered by one and no reader stops at none.
SentinelsSuffice ==
  LET waiting == {c \in Clients : Draining(c)}
      reading == {c \in Clients : In(c, {"read", "scan", "collect"})}
      sent == {i \in DOMAIN pipe : pipe[i].id = Sentinel}
  IN  alive => Cardinality(waiting) + Cardinality(reading) + strays
                 <= Cardinality(sent) + Len(stdin) + (IF job = None THEN 0 ELSE 1)

\* As long as no client has left, one thread at most waits on the pipe, so an
\* item goes to the one that asked for it ("Caller holds the daemon lock for the
\* full duration"); a stop sequence does not bring in a second one.
OneReader ==
  LET readers == {c \in Clients : Draining(c) \/ In(c, {"read", "scan", "collect"})}
  IN  (\A c \in Clients : status[c] # "gone") => Cardinality(readers) <= 1

\* Every request ends, even if clients leave, stop sequences match, weights
\* fail to load or the daemon dies.
EveryRequestEnds == \A c \in Clients : <>(status[c] # "open")
=============================================================================
