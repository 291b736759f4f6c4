--------------------------- MODULE MCTokenPipe ---------------------------
(* Small instances of TokenPipe for TLC. *)
EXTENDS TokenPipe, TLC

\* Every handler but one: "messages" has the very stages of "chat".
MCCalls == (ServerCalls \cup ToolsCalls) \ {"messages"}

\* Clients are interchangeable.
Symmetry == Permutations(Clients)

\* For the run without faults: at most one thing about a request is unusual, an
\* empty message, a short prompt, a prompt that is too long, or tools.
CleanInit ==
  /\ Init
  /\ \A c \in Clients :
       LET unusual == {<<"text", req[c].text = "empty">>, <<"long", ~req[c].long>>,
                       <<"limit", req[c].limit = 0>>, <<"tools", req[c].tools>>}
       IN  Cardinality({u \in unusual : u[2]}) <= 1
CleanSpec == CleanInit /\ [][Next]_vars /\ Fairness

\* For the run with faults: nobody sends tools, length does not matter to the
\* mode "always", who has stop sequences may also not match them, and of the
\* client that has a message and the one that has none, or an empty one, it does
\* not matter who is who.
FaultInit ==
  /\ Init
  /\ \A c \in Clients :
       ~req[c].tools /\ ~req[c].long /\ (req[c].stops <=> req[c].call = "tools_stream")
  /\ LET first == CHOOSE c \in Clients : TRUE
     IN  \A c \in Clients : req[first].text = "some" => req[c].text = "some"
FaultSpec == FaultInit /\ [][Next]_vars /\ Fairness
=============================================================================
