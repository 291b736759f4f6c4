--------------------------- MODULE MCStreamParse ---------------------------
(* Small instances of StreamParse for TLC. *)
EXTENDS StreamParse

\* Tags begin alike and differ in length; "F" is <function=NAME>.
Open == <<"<", "t">>
Close == <<"<", "/", "t">>
Call == <<"<", "c">>
CallEnd == <<"<", "/", "c">>
StopSequence == <<"a", "b", "b", "b", "a">>

\* Texts of at most four parts after which come at most two tool calls, the
\* second perhaps cut off.
Parts == {Open, Close, Call, CallEnd, StopSequence, <<"a">>, <<"b">>, <<"<">>}
Heads == {FlattenSeq(s) : s \in BoundedSeq(Parts, 4)}
Tails == {<<>>, Call \o <<"F">> \o CallEnd \o <<"t">>, Call \o <<"b">> \o CallEnd,
          Call \o <<"F">> \o CallEnd \o <<"/", "t">> \o Call \o <<"F">>,
          Call \o <<"F">> \o StopSequence}
MCTexts == {h \o t : h \in Heads, t \in Tails}
MCStops == {StopSequence}
ASSUME Apart
MCSymbols == {"<", "/", "t", "c", "a", "b", "F"}
=============================================================================
