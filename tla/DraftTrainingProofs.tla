------------------------ MODULE DraftTrainingProofs ------------------------
(***************************************************************************)
(* Theorems about DraftTraining, for any number of invocations, prompts,    *)
(* epochs and layers, killed at any point: what a checkpoint says of the    *)
(* epochs its model has been through is true, best.pt is the best, what is  *)
(* exported is of this training, and every tensor of it is accounted for.   *)
(***************************************************************************)
EXTENDS DraftTraining, FiniteSetTheorems, SequenceTheorems, WellFoundedInduction, TLAPS

-----------------------------------------------------------------------------
(* Types                                                                   *)

Stages == {"traces", "train", "export", "validate"}

\* Files as they are written: name and contents.
Files ==
  ({"trace"} \X Prompts) \X (Lengths \cup {Torn}) \cup
  ({"ckpt"} \X CheckpointNames) \X Checkpoints \cup
  ({"out"} \X {"model", "named"}) \X Exports

\* What an invocation is asked to do; only train.py resumes or stops early.
PlanOK ==
  /\ plan \in [stages : SUBSET Stages, skip : BOOLEAN,
               resume : CheckpointNames \cup {None}, max_steps : {0, 1}]
  /\ plan.resume # None => plan.resume \in DOMAIN ckpts
  /\ {"train", "export"} \subseteq plan.stages => plan.resume = None /\ plan.max_steps = 0

TypeOK ==
  /\ traces \in [Prompts -> Lengths \cup {None, Torn}]
  /\ DOMAIN ckpts \subseteq CheckpointNames
  /\ \A name \in DOMAIN ckpts : ckpts[name] \in Checkpoints \cup {Torn}
  /\ models \in [{"model", "named"} -> Exports \cup {None, Torn}]
  /\ runs \in Nat
  /\ pc \in Stages \cup {"idle"}
  /\ pc # "idle" => PlanOK
  /\ writing \in Seq(Files) /\ Len(writing) <= 2
  /\ \A i, j \in DOMAIN writing : writing[i][1] = writing[j][1] => i = j
  /\ prompt \in Nat /\ batches \in Nat /\ step \in Nat /\ best \in Nat
  /\ epoch \in Nat \cup {None}
  /\ epoch # None => pc = "train" /\ net \in Models

-----------------------------------------------------------------------------
(* Checkpoints                                                             *)

\* c is stored as name: on disk, or by the write under way.
Pending(name, c) == \E i \in DOMAIN writing : writing[i] = <<<<"ckpt", name>>, c>>
OnDisk(name, c) == name \in DOMAIN ckpts /\ ckpts[name] = c /\ c \in Checkpoints
Stored(name, c) == Pending(name, c) \/ OnDisk(name, c)

\* What a model has been through is no less than what is said with it, unless
\* nobody will train it further.
Trained(n, e) == e < Epochs /\ ~n.cut => n.passes >= e
EpochInv ==
  /\ epoch # None => Trained(net, epoch)
  /\ \A name, c : Stored(name, c) =>
       /\ Trained(c.net, c.epoch)
       /\ name[1] = "epoch" => c.epoch = name[2] /\ (~c.net.cut => c.net.passes >= name[2])

\* Nothing is signed by a run to come, or by one that has not trained yet.
Before == pc = "traces" \/ (pc = "train" /\ epoch = None)
After == pc \in {"export", "validate"} /\ "train" \in plan.stages
RunInv ==
  /\ \A name, c : Stored(name, c) => c.run <= runs
  /\ Before => \A name, c : Stored(name, c) => c.run # runs
  /\ \A name, c : Pending(name, c) => c.run = runs

\* The file of this name is, or will be, of this run.
IsPending(name) == \E c : Pending(name, c)
Ours(name) == \E c : Stored(name, c) /\ c.run = runs

\* best.pt, of this run, is the one with loss best.
BestIs(b) == Pending(<<"best">>, b) \/ (OnDisk(<<"best">>, b) /\ ~IsPending(<<"best">>))
BestInv ==
  epoch # None \/ After =>
    /\ best # Inf => \E b : BestIs(b) /\ b.run = runs /\ b.avg = best
    /\ \A name, c : Stored(name, c) /\ name[1] = "step" /\ c.run = runs => best <= c.avg

\* A pipeline trains all its epochs, and then exports one of its models.
Both == {"train", "export"} \subseteq plan.stages
Exported(m) ==
  /\ m \in Exports /\ m.by = "export"
  /\ \/ m.ckpt.run = runs
     \/ /\ m.name = <<"best">>
        /\ \A name \in DOMAIN ckpts :
             name[1] = "step" /\ Whole(ckpts[name]) /\ ckpts[name].avg < Inf
               => ckpts[name].run # runs
ExportInv ==
  /\ epoch # None /\ Both => epoch <= Epochs /\ (epoch # 0 => Ours(<<"epoch", epoch>>))
  /\ pc = "export" /\ Both => Ours(<<"final">>) /\ Ours(<<"epoch", Epochs>>)
  /\ pc = "validate" /\ Both =>
       \/ Exported(models["model"]) /\ \A i \in DOMAIN writing : writing[i][1] # <<"out", "model">>
       \/ \E i \in DOMAIN writing : writing[i][1] = <<"out", "model">> /\ Exported(writing[i][2])
  /\ pc = "validate" /\ Both => \A i \in DOMAIN writing : writing[i][1][1] = "out"

-----------------------------------------------------------------------------
(* Writing                                                                 *)

\* The file being written is of one of three kinds.
LEMMA FirstFile ==
  ASSUME TypeOK, writing # <<>>
  PROVE  /\ Len(writing) \in 1..2 /\ DOMAIN writing = 1..Len(writing)
         /\ writing[1] \in Files
         /\ \/ \E p \in Prompts, n \in Lengths \cup {Torn} : writing[1] = <<<<"trace", p>>, n>>
            \/ \E name \in CheckpointNames, c \in Checkpoints :
                 writing[1] = <<<<"ckpt", name>>, c>>
            \/ \E f \in {"model", "named"}, m \in Exports : writing[1] = <<<<"out", f>>, m>>
<1>0. writing \in Seq(Files) /\ Len(writing) <= 2
  BY DEF TypeOK
<1>a. Len(writing) \in Nat /\ DOMAIN writing = 1..Len(writing)
  BY <1>0, LenProperties
<1>b. Len(writing) # 0
  BY <1>0
<1>1. Len(writing) \in 1..2 /\ DOMAIN writing = 1..Len(writing)
  BY <1>0, <1>a, <1>b
<1>2. writing[1] \in Files
  BY <1>1, ElementOfSeq DEF TypeOK
<1>3. QED
  BY <1>1, <1>2 DEF Files

\* A file more on disk; its contents are those written, or torn.
LEMMA SaveIs ==
  ASSUME TypeOK, writing # <<>>, NEW contents, Save(writing[1][1], contents)
  PROVE  \/ \E p \in Prompts :
              /\ writing[1][1] = <<"trace", p>> /\ writing[1][2] \in Lengths \cup {Torn}
              /\ traces' = [traces EXCEPT ![p] = contents] /\ UNCHANGED <<ckpts, models>>
         \/ \E n \in CheckpointNames :
              /\ writing[1][1] = <<"ckpt", n>> /\ writing[1][2] \in Checkpoints
              /\ ckpts' = [x \in DOMAIN ckpts \cup {n} |-> IF x = n THEN contents ELSE ckpts[x]]
              /\ UNCHANGED <<traces, models>>
         \/ \E f \in {"model", "named"} :
              /\ writing[1][1] = <<"out", f>> /\ writing[1][2] \in Exports
              /\ models' = [models EXCEPT ![f] = contents] /\ UNCHANGED <<traces, ckpts>>
<1> DEFINE name == writing[1][1]
<1>1. \/ writing[1][2] \in Lengths \cup {Torn} /\ \E p \in Prompts : name = <<"trace", p>>
      \/ writing[1][2] \in Checkpoints /\ \E n \in CheckpointNames : name = <<"ckpt", n>>
      \/ writing[1][2] \in Exports /\ \E f \in {"model", "named"} : name = <<"out", f>>
  BY FirstFile
<1> HIDE DEF name
<1>2. Save(name, contents)
  BY DEF name
<1>3. CASE \E p \in Prompts : name = <<"trace", p>>
  <2>1. PICK p \in Prompts : name = <<"trace", p>>
    BY <1>3
  <2>2. name[1] = "trace" /\ name[2] = p
    BY <2>1
  <2>3. traces' = [traces EXCEPT ![p] = contents] /\ UNCHANGED <<ckpts, models>>
    BY <1>2, <2>2 DEF Save
  <2>4. writing[1][2] \in Lengths \cup {Torn}
    BY <1>1, <2>1
  <2>5. QED
    BY <2>1, <2>3, <2>4 DEF name
<1>4. CASE \E n \in CheckpointNames : name = <<"ckpt", n>>
  <2>1. PICK n \in CheckpointNames : name = <<"ckpt", n>>
    BY <1>4
  <2>2. name[1] = "ckpt" /\ name[2] = n
    BY <2>1
  <2>3. /\ ckpts' = [x \in DOMAIN ckpts \cup {n} |-> IF x = n THEN contents ELSE ckpts[x]]
        /\ UNCHANGED <<traces, models>>
    BY <1>2, <2>2 DEF Save
  <2>4. writing[1][2] \in Checkpoints
    BY <1>1, <2>1
  <2>5. QED
    BY <2>1, <2>3, <2>4 DEF name
<1>5. CASE \E f \in {"model", "named"} : name = <<"out", f>>
  <2>1. PICK f \in {"model", "named"} : name = <<"out", f>>
    BY <1>5
  <2>2. name[1] = "out" /\ name[2] = f
    BY <2>1
  <2>3. models' = [models EXCEPT ![f] = contents] /\ UNCHANGED <<traces, ckpts>>
    BY <1>2, <2>2 DEF Save
  <2>4. writing[1][2] \in Exports
    BY <1>1, <2>1
  <2>5. QED
    BY <2>1, <2>3, <2>4 DEF name
<1>6. QED
  BY <1>1, <1>3, <1>4, <1>5

\* What is left to write after the first file.
LEMMA TailFiles ==
  ASSUME TypeOK, writing # <<>>
  PROVE  /\ Tail(writing) \in Seq(Files)
         /\ DOMAIN Tail(writing) = 1..(Len(writing) - 1)
         /\ Len(Tail(writing)) = Len(writing) - 1
         /\ \A i \in DOMAIN Tail(writing) :
              i + 1 \in DOMAIN writing /\ Tail(writing)[i] = writing[i + 1]
<1>1. Len(writing) \in 1..2 /\ DOMAIN writing = 1..Len(writing)
  BY FirstFile
<1>2. writing \in Seq(Files)
  BY DEF TypeOK
<1>3. QED
  BY <1>1, <1>2, HeadTailProperties, LenProperties


LEMMA OneFile ==
  ASSUME NEW f \in Files
  PROVE  /\ <<f>> \in Seq(Files) /\ Len(<<f>>) = 1 /\ DOMAIN <<f>> = {1} /\ <<f>>[1] = f
         /\ \A i, j \in DOMAIN <<f>> : i = j
OBVIOUS

LEMMA TwoFiles ==
  ASSUME NEW f \in Files, NEW g \in Files, f[1] # g[1]
  PROVE  /\ <<f, g>> \in Seq(Files) /\ Len(<<f, g>>) = 2 /\ DOMAIN <<f, g>> = {1, 2}
         /\ <<f, g>>[1] = f /\ <<f, g>>[2] = g
         /\ \A i, j \in DOMAIN <<f, g>> : <<f, g>>[i][1] = <<f, g>>[j][1] => i = j
OBVIOUS

-----------------------------------------------------------------------------
(* Stages                                                                  *)

LEMMA MinIs ==
  ASSUME NEW T, T \subseteq Int, NEW x \in T, \A y \in T : x <= y
  PROVE  Min(T) = x
<1>1. \E z \in T : \A y \in T : z =< y
  OBVIOUS
<1>2. Min(T) \in T /\ \A y \in T : Min(T) =< y
  BY <1>1 DEF Min
<1>3. Min(T) <= x /\ x <= Min(T) /\ Min(T) \in Int /\ x \in Int
  BY <1>2
<1>4. QED
  BY <1>3

\* The first stage of an invocation.
LEMMA FirstStage ==
  ASSUME NEW stages \in SUBSET Stages, stages # {}
  PROVE  LET first == Order[Min({i \in DOMAIN Order : Order[i] \in stages})]
         IN  /\ first \in stages
             /\ "train" \in stages => first \in {"traces", "train"}
<1> DEFINE T == {i \in DOMAIN Order : Order[i] \in stages}
<1>1. DOMAIN Order = 1..4 /\ Order[1] = "traces" /\ Order[2] = "train"
      /\ Order[3] = "export" /\ Order[4] = "validate"
  BY DEF Order
<1>2. T \subseteq Int
  BY <1>1
<1>3. CASE "traces" \in stages
  <2>1. Min(T) = 1
    BY <1>1, <1>2, <1>3, MinIs
  <2>2. QED
    BY <1>1, <1>3, <2>1
<1>4. CASE "traces" \notin stages /\ "train" \in stages
  <2>1. Min(T) = 2
    BY <1>1, <1>2, <1>4, MinIs
  <2>2. QED
    BY <1>1, <1>4, <2>1
<1>5. CASE "traces" \notin stages /\ "train" \notin stages /\ "export" \in stages
  <2>1. Min(T) = 3
    BY <1>1, <1>2, <1>5, MinIs
  <2>2. QED
    BY <1>1, <1>5, <2>1
<1>6. CASE stages = {"validate"}
  <2>1. Min(T) = 4
    BY <1>1, <1>2, <1>6, MinIs
  <2>2. QED
    BY <1>1, <1>6, <2>1
<1>7. QED
  BY <1>3, <1>4, <1>5, <1>6 DEF Stages

\* The stage after each of the first three.
LEMMA NextStage ==
  ASSUME plan.stages \subseteq Stages
  PROVE  /\ \A stage \in {"traces", "train", "export"} : Following(stage) \in Stages \cup {"idle"}
         /\ Following("traces") # "traces"
         /\ "train" \in plan.stages => Following("traces") = "train"
         /\ Following("train") \in {"export", "validate", "idle"}
         /\ "export" \in plan.stages => Following("train") = "export"
         /\ Following("export") \in {"validate", "idle"}
<1> DEFINE left(stage) == {j \in DOMAIN Order : Order[j] \in plan.stages /\
                             \E i \in DOMAIN Order : Order[i] = stage /\ i < j}
<1>1. DOMAIN Order = 1..4 /\ Order[1] = "traces" /\ Order[2] = "train"
      /\ Order[3] = "export" /\ Order[4] = "validate"
  BY DEF Order
<1>2. /\ left("traces") = {j \in {2, 3, 4} : Order[j] \in plan.stages}
      /\ left("train") = {j \in {3, 4} : Order[j] \in plan.stages}
      /\ left("export") = {j \in {4} : Order[j] \in plan.stages}
  BY <1>1
<1>3. \A stage : Following(stage) = IF left(stage) = {} THEN "idle" ELSE Order[Min(left(stage))]
  BY DEF Following
<1> HIDE DEF left
<1>4. ASSUME NEW T, T \subseteq {2, 3, 4}, T # {}
      PROVE  Min(T) \in T /\ (2 \in T => Min(T) = 2) /\ (2 \notin T /\ 3 \in T => Min(T) = 3)
  <2>1. T \subseteq Int
    BY <1>4
  <2>2. CASE 2 \in T
    <3>1. \A y \in T : 2 <= y
      BY <1>4
    <3>2. Min(T) = 2
      BY <2>1, <2>2, <3>1, MinIs
    <3>3. QED
      BY <2>2, <3>2
  <2>3. CASE 2 \notin T /\ 3 \in T
    <3>1. \A y \in T : 3 <= y
      BY <1>4, <2>3
    <3>2. Min(T) = 3
      BY <2>1, <2>3, <3>1, MinIs
    <3>3. QED
      BY <2>3, <3>2
  <2>4. CASE T = {4}
    BY <2>1, <2>4, MinIs
  <2>5. QED
    BY <1>4, <2>2, <2>3, <2>4
<1>5. \A stage \in {"traces", "train", "export"} : left(stage) \subseteq {2, 3, 4}
  BY <1>2
<1>6. /\ Following("traces") \in {"train", "export", "validate", "idle"}
      /\ "train" \in plan.stages => Following("traces") = "train"
  BY <1>1, <1>2, <1>3, <1>4, <1>5
<1>7. /\ Following("train") \in {"export", "validate", "idle"}
      /\ "export" \in plan.stages => Following("train") = "export"
  BY <1>1, <1>2, <1>3, <1>4, <1>5
<1>8. Following("export") \in {"validate", "idle"}
  BY <1>1, <1>2, <1>3, <1>4, <1>5
<1>9. QED
  BY <1>6, <1>7, <1>8 DEF Stages


-----------------------------------------------------------------------------
(* Type correctness                                                        *)

LEMMA InitTypeOK == Init => TypeOK
<1> SUFFICES ASSUME Init PROVE TypeOK
  OBVIOUS
<1>1. DOMAIN ckpts = {}
  BY DEF Init
<1>2. writing \in Seq(Files) /\ Len(writing) = 0 /\ DOMAIN writing = {}
  BY DEF Init
<1>3. QED
  BY <1>1, <1>2, LossAssumption DEF Init, TypeOK

\* Enter leaves what is not local to a program; the locals are those it starts with.
LEMMA EnterTypeOK ==
  ASSUME TypeOK, NEW stage \in Stages \cup {"idle"}, Enter(stage),
         (stage # "idle" => PlanOK)'
  PROVE  /\ (pc \in Stages \cup {"idle"})' /\ (pc # "idle" => PlanOK)'
         /\ (prompt \in Nat /\ batches \in Nat /\ step \in Nat /\ best \in Nat)'
         /\ (epoch \in Nat \cup {None})' /\ (epoch # None => pc = "train" /\ net \in Models)'
BY DEF TypeOK, Enter

PlanTyped(p) ==
  /\ p \in [stages : SUBSET Stages, skip : BOOLEAN,
            resume : CheckpointNames \cup {None}, max_steps : {0, 1}]
  /\ p.resume # None => p.resume \in DOMAIN ckpts
  /\ {"train", "export"} \subseteq p.stages => p.resume = None /\ p.max_steps = 0

LEMMA PlansTyped ==
  ASSUME TypeOK, NEW p \in Plans
  PROVE  PlanTyped(p) /\ p.stages # {}
<1>1. CASE p \in [stages : {s \in SUBSET {"traces", "train", "export", "validate"} : s # {}},
                  skip : {TRUE}, resume : {None}, max_steps : {0}]
  BY <1>1 DEF PlanTyped, Stages
<1>2. CASE p \in [stages : {{"traces"}}, skip : BOOLEAN, resume : {None}, max_steps : {0}]
  BY <1>2 DEF PlanTyped, Stages
<1>3. CASE p \in [stages : {{"train"}}, skip : {TRUE}, resume : DOMAIN ckpts \cup {None},
                  max_steps : {0, 1}]
  BY <1>3 DEF PlanTyped, Stages, TypeOK
<1>4. QED
  BY <1>1, <1>2, <1>3 DEF Plans


\* A file that is complete, or torn.
LEMMA SaveTypeOK ==
  ASSUME TypeOK, writing # <<>>, NEW contents, contents = writing[1][2] \/ contents = Torn,
         Save(writing[1][1], contents)
  PROVE  /\ traces' \in [Prompts -> Lengths \cup {None, Torn}]
         /\ DOMAIN ckpts' \subseteq CheckpointNames /\ DOMAIN ckpts \subseteq DOMAIN ckpts'
         /\ \A name \in DOMAIN ckpts' : ckpts'[name] \in Checkpoints \cup {Torn}
         /\ models' \in [{"model", "named"} -> Exports \cup {None, Torn}]
<1>1. CASE \E p \in Prompts :
              /\ writing[1][1] = <<"trace", p>> /\ writing[1][2] \in Lengths \cup {Torn}
              /\ traces' = [traces EXCEPT ![p] = contents] /\ UNCHANGED <<ckpts, models>>
  BY <1>1 DEF TypeOK
<1>2. CASE \E n \in CheckpointNames :
              /\ writing[1][1] = <<"ckpt", n>> /\ writing[1][2] \in Checkpoints
              /\ ckpts' = [x \in DOMAIN ckpts \cup {n} |-> IF x = n THEN contents ELSE ckpts[x]]
              /\ UNCHANGED <<traces, models>>
  BY <1>2 DEF TypeOK
<1>3. CASE \E f \in {"model", "named"} :
              /\ writing[1][1] = <<"out", f>> /\ writing[1][2] \in Exports
              /\ models' = [models EXCEPT ![f] = contents] /\ UNCHANGED <<traces, ckpts>>
  BY <1>3 DEF TypeOK
<1>4. QED
  BY <1>1, <1>2, <1>3, SaveIs

LEMMA PlanKept ==
  ASSUME PlanOK, UNCHANGED plan, DOMAIN ckpts \subseteq DOMAIN ckpts'
  PROVE  PlanOK'
BY DEF PlanOK

\* The disk is as before, and so is the invocation.
LEMMA TypeKept ==
  ASSUME TypeOK, UNCHANGED disk, UNCHANGED runs
  PROVE  /\ (/\ traces \in [Prompts -> Lengths \cup {None, Torn}]
             /\ DOMAIN ckpts \subseteq CheckpointNames
             /\ \A name \in DOMAIN ckpts : ckpts[name] \in Checkpoints \cup {Torn}
             /\ models \in [{"model", "named"} -> Exports \cup {None, Torn}]
             /\ runs \in Nat)'
         /\ UNCHANGED writing =>
              (/\ writing \in Seq(Files) /\ Len(writing) <= 2
               /\ \A i, j \in DOMAIN writing : writing[i][1] = writing[j][1] => i = j)'
         /\ PlanOK /\ UNCHANGED plan => PlanOK'
<1>1. UNCHANGED <<traces, ckpts, models, runs>>
  BY DEF disk
<1>2. PlanOK /\ UNCHANGED plan => PlanOK'
  BY <1>1, PlanKept
<1>3. QED
  BY <1>1, <1>2 DEF TypeOK

\* What is written next: nothing, a file or two.
LEMMA WritingTyped ==
  ASSUME \/ writing' = <<>>
         \/ \E f \in Files : writing' = <<f>>
         \/ \E f, g \in Files : f[1] # g[1] /\ writing' = <<f, g>>
  PROVE  (/\ writing \in Seq(Files) /\ Len(writing) <= 2
          /\ \A i, j \in DOMAIN writing : writing[i][1] = writing[j][1] => i = j)'
<1>1. CASE writing' = <<>>
  BY <1>1
<1>2. CASE \E f \in Files : writing' = <<f>>
  BY <1>2, OneFile
<1>3. CASE \E f, g \in Files : f[1] # g[1] /\ writing' = <<f, g>>
  BY <1>3, TwoFiles
<1>4. QED
  BY <1>1, <1>2, <1>3

LEMMA CheckpointTyped ==
  ASSUME NEW name \in CheckpointNames, NEW n \in Models, NEW e \in Nat, NEW s \in Nat,
         NEW avg \in Nat, runs \in Nat
  PROVE  /\ Checkpoint(name, n, e, s, avg) \in Files
         /\ Checkpoint(name, n, e, s, avg)[1] = <<"ckpt", name>>
         /\ Checkpoint(name, n, e, s, avg)[2] \in Checkpoints
         /\ Checkpoint(name, n, e, s, avg)[2] =
              [net |-> n, epoch |-> e, step |-> s, run |-> runs, avg |-> avg]
BY DEF Checkpoint, Checkpoints, Files


LEMMA TwoItems ==
  ASSUME NEW x, NEW y
  PROVE  <<x>> \o <<y>> = <<x, y>>
<1> DEFINE S == {x, y}
           a == <<x>>
           b == <<y>>
           t == <<x, y>>
<1>1. /\ a \in Seq(S) /\ Len(a) = 1 /\ a[1] = x
      /\ b \in Seq(S) /\ Len(b) = 1 /\ b[1] = y
  OBVIOUS
<1>2. t \in Seq(S) /\ Len(t) = 2 /\ t[1] = x /\ t[2] = y
  OBVIOUS
<1> HIDE DEF a, b, t
<1>3. /\ a \o b \in Seq(S) /\ Len(a \o b) = Len(a) + Len(b)
      /\ \A i \in 1..(Len(a) + Len(b)) :
           (a \o b)[i] = IF i <= Len(a) THEN a[i] ELSE b[i - Len(a)]
  <2>1. a \in Seq(S) /\ b \in Seq(S)
    BY <1>1
  <2> HIDE DEF S
  <2>2. QED
    BY <2>1, ConcatProperties
<1>4. Len(a \o b) = 2 /\ (a \o b)[1] = x /\ (a \o b)[2] = y
  BY <1>1, <1>3
<1>5. a \o b = t
  <2>1. \A i \in 1..Len(a \o b) : (a \o b)[i] = t[i]
    BY <1>2, <1>4
  <2>2. QED
    BY <1>2, <1>3, <1>4, <2>1, SeqEqual
<1>6. QED
  BY <1>5 DEF a, b, t

\* BestAfter is the lower of the two.
LEMMA BestAfterIs ==
  ASSUME best \in Nat, NEW avg \in Nat
  PROVE  BestAfter(avg) = IF avg < best THEN avg ELSE best
<1>1. {best, avg} \subseteq Int
  OBVIOUS
<1>2. CASE avg < best
  <2>1. \A y \in {best, avg} : avg <= y
    BY <1>2
  <2>2. Min({best, avg}) = avg
    BY <1>1, <2>1, MinIs
  <2>3. QED
    BY <1>2, <2>2 DEF BestAfter
<1>3. CASE ~(avg < best)
  <2>1. \A y \in {best, avg} : best <= y
    BY <1>3
  <2>2. Min({best, avg}) = best
    BY <1>1, <2>1, MinIs
  <2>3. QED
    BY <1>3, <2>2 DEF BestAfter
<1>4. QED
  BY <1>2, <1>3

\* What one batch writes: nothing, a checkpoint, or one that is the best so far too.
LEMMA BatchIs ==
  ASSUME TypeOK, Batch
  PROVE  /\ pc = "train" /\ epoch # None /\ epoch \in Nat /\ writing = <<>> /\ net \in Models
         /\ UNCHANGED <<disk, runs, plan, pc, prompt, epoch>>
         /\ batches' \in Nat /\ step' \in Nat /\ step <= step'
         /\ net' \in Models /\ net'.passes = net.passes /\ net'.cut = net.cut
         /\ \/ UNCHANGED <<best, writing>>
            \/ \E avg \in Losses \cup {Inf} :
                 /\ avg \in Nat
                 /\ best' = IF avg < best THEN avg ELSE best
                 /\ writing' =
                      IF avg < best
                      THEN <<Checkpoint(<<"step", step'>>, net', epoch, step', avg),
                             Checkpoint(<<"best">>, net', epoch, step', avg)>>
                      ELSE <<Checkpoint(<<"step", step'>>, net', epoch, step', avg)>>
<1>1. /\ pc = "train" /\ epoch # None /\ epoch \in Nat /\ writing = <<>> /\ net \in Models
      /\ UNCHANGED <<disk, runs, plan, pc, prompt, epoch>>
  BY DEF Batch, InEpoch, At, TypeOK
<1>2. batches \in Nat /\ step \in Nat /\ best \in Nat /\ runs \in Nat
  BY DEF TypeOK
<1>3. batches' \in Nat /\ \E d \in {0, 1} : step' = step + d /\ net' = [net EXCEPT !.steps = @ + d]
  BY <1>2 DEF Batch
<1>4. step' \in Nat /\ step <= step' /\ net' \in Models /\ net'.passes = net.passes /\ net'.cut = net.cut
  <2>1. PICK d \in {0, 1} : step' = step + d /\ net' = [net EXCEPT !.steps = @ + d]
    BY <1>3
  <2>2. step' \in Nat /\ step <= step'
    BY <1>2, <2>1
  <2>3. net' \in Models /\ net'.passes = net.passes /\ net'.cut = net.cut
    BY <1>1, <2>1 DEF Models
  <2>4. QED
    BY <2>2, <2>3
<1>5. ASSUME NEW avg \in Losses \cup {Inf},
             best' = BestAfter(avg),
             writing' = <<Checkpoint(<<"step", step'>>, net', epoch, step', avg)>> \o
               (IF avg < best
                THEN <<Checkpoint(<<"best">>, net', epoch, step', avg)>> ELSE <<>>)
      PROVE  /\ avg \in Nat
             /\ best' = IF avg < best THEN avg ELSE best
             /\ writing' =
                  IF avg < best
                  THEN <<Checkpoint(<<"step", step'>>, net', epoch, step', avg),
                         Checkpoint(<<"best">>, net', epoch, step', avg)>>
                  ELSE <<Checkpoint(<<"step", step'>>, net', epoch, step', avg)>>
  <2>1. avg \in Nat
    BY SizesAssumption, LossAssumption
  <2>2. best' = IF avg < best THEN avg ELSE best
    BY <1>2, <1>5, <2>1, BestAfterIs
  <2> DEFINE s == Checkpoint(<<"step", step'>>, net', epoch, step', avg)
             b == Checkpoint(<<"best">>, net', epoch, step', avg)
  <2>3. writing' = <<s>> \o (IF avg < best THEN <<b>> ELSE <<>>)
    BY <1>5
  <2> HIDE DEF s, b
  <2>4. <<s>> \o <<b>> = <<s, b>>
    BY TwoItems
  <2>5. <<s>> \o <<>> = <<s>>
    <3>1. <<s>> \in Seq({s})
      OBVIOUS
    <3>2. QED
      BY <3>1, ConcatEmptySeq
  <2>6. writing' = IF avg < best THEN <<s, b>> ELSE <<s>>
    BY <2>3, <2>4, <2>5
  <2>7. QED
    BY <2>1, <2>2, <2>6 DEF s, b
<1>6. \/ UNCHANGED <<best, writing>>
      \/ \E avg \in Losses \cup {Inf} :
           /\ best' = BestAfter(avg)
           /\ writing' = <<Checkpoint(<<"step", step'>>, net', epoch, step', avg)>> \o
                (IF avg < best
                 THEN <<Checkpoint(<<"best">>, net', epoch, step', avg)>> ELSE <<>>)
  BY DEF Batch
<1>7. QED
  BY <1>1, <1>3, <1>4, <1>5, <1>6

\* How training starts: with the model of a checkpoint or a new one, or not at all.
LEMMA StartIs ==
  ASSUME TypeOK, StartTraining
  PROVE  /\ pc = "train" /\ epoch = None /\ writing = <<>> /\ PlanOK
         /\ UNCHANGED <<disk, runs, plan, writing>>
         /\ \/ Enter("idle")
            \/ /\ UNCHANGED <<pc, prompt>> /\ batches' = 0 /\ best' = Inf
               /\ \/ \E c \in Checkpoints :
                       /\ plan.resume # None /\ OnDisk(plan.resume, c)
                       /\ net' = c.net /\ epoch' = c.epoch /\ step' = c.step
                  \/ /\ epoch' = 0 /\ step' = 0
                     /\ net' = [born |-> runs, steps |-> 0, passes |-> 0, cut |-> FALSE]
<1>1. /\ pc = "train" /\ epoch = None /\ writing = <<>>
      /\ UNCHANGED <<disk, runs, plan, writing>>
  BY DEF StartTraining, At
<1>2. PlanOK
  BY <1>1 DEF TypeOK
<1>3. CASE plan.resume # None /\ ckpts[plan.resume] = Torn
  BY <1>1, <1>2, <1>3 DEF StartTraining
<1>4. CASE plan.resume # None /\ ckpts[plan.resume] # Torn
  <2>1. plan.resume \in DOMAIN ckpts
    BY <1>2, <1>4 DEF PlanOK
  <2>2. ckpts[plan.resume] \in Checkpoints
    BY <1>4, <2>1 DEF TypeOK
  <2>3. /\ UNCHANGED <<pc, prompt>> /\ batches' = 0 /\ best' = Inf
        /\ net' = ckpts[plan.resume].net /\ epoch' = ckpts[plan.resume].epoch
        /\ step' = ckpts[plan.resume].step
    BY <1>4 DEF StartTraining
  <2>4. OnDisk(plan.resume, ckpts[plan.resume])
    BY <2>1, <2>2 DEF OnDisk
  <2>5. QED
    BY <1>1, <1>2, <1>4, <2>2, <2>3, <2>4
<1>5. CASE plan.resume = None
  BY <1>1, <1>2, <1>5 DEF StartTraining
<1>6. QED
  BY <1>3, <1>4, <1>5

\* What the end of an epoch writes.
LEMMA EndEpochIs ==
  ASSUME TypeOK, EndEpoch
  PROVE  /\ pc = "train" /\ epoch # None /\ epoch \in Nat /\ epoch < Epochs
         /\ writing = <<>> /\ net \in Models
         /\ UNCHANGED <<disk, runs, plan, pc, prompt, step, best>> /\ batches' = 0
         /\ net' \in Models
         /\ IF queue = {} THEN net'.passes = net.passes + 1 /\ net'.cut = net.cut
            ELSE net'.cut = TRUE /\ Enough
         /\ writing' = <<Checkpoint(<<"epoch", epoch + 1>>, net', epoch + 1, step, 0)>>
         /\ epoch' = IF Enough THEN Epochs ELSE epoch + 1
<1>1. /\ pc = "train" /\ epoch # None /\ epoch \in Nat /\ epoch < Epochs
      /\ writing = <<>> /\ net \in Models
  BY DEF EndEpoch, InEpoch, At, TypeOK
<1>2. /\ UNCHANGED <<disk, runs, plan, pc, prompt, step, best>> /\ batches' = 0
      /\ writing' = <<Checkpoint(<<"epoch", epoch + 1>>, net', epoch + 1, step, 0)>>
      /\ epoch' = IF Enough THEN Epochs ELSE epoch + 1
      /\ net' = IF queue = {} THEN [net EXCEPT !.passes = @ + 1] ELSE [net EXCEPT !.cut = TRUE]
      /\ queue = {} \/ Enough
  BY DEF EndEpoch, EpochOver
<1>3. CASE queue = {}
  <2>1. net' = [net EXCEPT !.passes = @ + 1]
    BY <1>2, <1>3
  <2>2. net' \in Models /\ net'.passes = net.passes + 1 /\ net'.cut = net.cut
    BY <1>1, <2>1 DEF Models
  <2>3. QED
    BY <1>1, <1>2, <1>3, <2>2
<1>4. CASE queue # {}
  <2>1. net' = [net EXCEPT !.cut = TRUE]
    BY <1>2, <1>4
  <2>2. net' \in Models /\ net'.cut = TRUE
    BY <1>1, <2>1 DEF Models
  <2>3. QED
    BY <1>1, <1>2, <1>4, <2>2
<1>5. QED
  BY <1>3, <1>4

\* What the end of training writes.
LEMMA FinishIs ==
  ASSUME TypeOK, Finish
  PROVE  /\ pc = "train" /\ epoch # None /\ epoch \in Nat /\ epoch >= Epochs
         /\ writing = <<>> /\ net \in Models
         /\ UNCHANGED <<disk, runs, plan>> /\ Enter(Following("train"))
         /\ writing' = <<Checkpoint(<<"final">>, net, Epochs, step, 0)>>
BY DEF Finish, At, TypeOK

\* What is exported: the first candidate there is, unless it is torn.
ExportOf(name, c) == [by |-> "export", upstream |-> None, name |-> name, ckpt |-> c]
LEMMA ExportIs ==
  ASSUME TypeOK, Export
  PROVE  /\ pc = "export" /\ writing = <<>> /\ UNCHANGED <<disk, runs, plan>>
         /\ \/ Enter("idle") /\ UNCHANGED writing
            \/ /\ Enter(Following("export"))
               /\ \/ /\ writing' = <<>>
                     /\ \A i \in 1..3 : Candidates[i] \notin DOMAIN ckpts
                  \/ \E i \in 1..3, c \in Checkpoints :
                       /\ OnDisk(Candidates[i], c) /\ Candidates[i] \in CheckpointNames
                       /\ \A j \in 1..3 : j < i => Candidates[j] \notin DOMAIN ckpts
                       /\ writing' = << <<<<"out", "model">>, ExportOf(Candidates[i], c)>>,
                                        <<<<"out", "named">>, ExportOf(Candidates[i], c)>> >>
<1> DEFINE found == {i \in DOMAIN Candidates : Candidates[i] \in DOMAIN ckpts}
           name == Candidates[Min(found)]
           file == [by |-> "export", upstream |-> None, name |-> name, ckpt |-> ckpts[name]]
<1>1. /\ pc = "export" /\ writing = <<>> /\ UNCHANGED <<disk, runs, plan>>
  BY DEF Export, At
<1>2. IF found # {} /\ ckpts[name] = Torn
      THEN Enter("idle") /\ UNCHANGED writing
      ELSE /\ Enter(Following("export"))
           /\ writing' = IF found = {} THEN <<>>
                         ELSE << <<<<"out", "model">>, file>>, <<<<"out", "named">>, file>> >>
  BY DEF Export
<1>3. DOMAIN Candidates = 1..3
  BY DEF Candidates
<1> HIDE DEF name
<1>4. CASE found = {}
  BY <1>1, <1>2, <1>3, <1>4
<1>5. CASE found # {} /\ ckpts[name] = Torn
  BY <1>1, <1>2, <1>5
<1>6. CASE found # {} /\ ckpts[name] # Torn
  <2>1. found \subseteq 1..3
    BY <1>3
  <2>2. \E i \in found : \A j \in found : i <= j
    <3>1. CASE 1 \in found
      BY <2>1, <3>1
    <3>2. CASE 1 \notin found /\ 2 \in found
      BY <2>1, <3>2
    <3>3. CASE found = {3}
      BY <3>3
    <3>4. QED
      BY <1>6, <2>1, <3>1, <3>2, <3>3
  <2>3. PICK i \in found : \A j \in found : i <= j
    BY <2>2
  <2>4. Min(found) = i
    BY <2>1, <2>3, MinIs
  <2>5. name = Candidates[i]
    BY <2>4 DEF name
  <2>6. i \in 1..3 /\ name \in DOMAIN ckpts
    BY <2>1, <2>3, <2>5
  <2>7. ckpts[name] \in Checkpoints /\ name \in CheckpointNames
    BY <1>6, <2>6 DEF TypeOK
  <2>8. \A j \in 1..3 : j < i => Candidates[j] \notin DOMAIN ckpts
    BY <1>3, <2>1, <2>3
  <2>9. /\ Enter(Following("export"))
        /\ writing' = << <<<<"out", "model">>, file>>, <<<<"out", "named">>, file>> >>
    BY <1>2, <1>6
  <2>10. OnDisk(name, ckpts[name])
    BY <2>6, <2>7 DEF OnDisk
  <2>11. file = ExportOf(name, ckpts[name])
    BY DEF ExportOf
  <2> HIDE DEF file
  <2>12. QED
    BY <1>1, <2>5, <2>6, <2>7, <2>8, <2>9, <2>10, <2>11
<1>7. QED
  BY <1>4, <1>5, <1>6

LEMMA NextTypeOK == TypeOK /\ [Next]_vars => TypeOK'
<1> SUFFICES ASSUME TypeOK, [Next]_vars PROVE TypeOK'
  OBVIOUS
<1>1. CASE Invoke
  <2>1. /\ pc = "idle" /\ writing = <<>> /\ runs' = runs + 1 /\ plan' \in Plans
        /\ Enter(Order[Min({i \in DOMAIN Order : Order[i] \in plan'.stages})])
        /\ UNCHANGED <<disk, writing>>
    BY <1>1 DEF Invoke
  <2>2. PlanTyped(plan') /\ plan'.stages # {}
    BY <2>1, PlansTyped
  <2>3. plan'.stages \in SUBSET Stages
    BY <2>2 DEF PlanTyped
  <2>4. Order[Min({i \in DOMAIN Order : Order[i] \in plan'.stages})] \in Stages
    BY <2>2, <2>3, FirstStage
  <2>5. PlanOK'
    BY <2>1, <2>2 DEF PlanTyped, PlanOK, disk
  <2>6. /\ (pc \in Stages \cup {"idle"})' /\ (pc # "idle" => PlanOK)'
        /\ (prompt \in Nat /\ batches \in Nat /\ step \in Nat /\ best \in Nat)'
        /\ (epoch \in Nat \cup {None})' /\ (epoch # None => pc = "train" /\ net \in Models)'
    BY <2>1, <2>4, <2>5, EnterTypeOK
  <2>7. QED
    BY <2>1, <2>6 DEF TypeOK, disk
<1>2. CASE Write
  <2>1. /\ writing # <<>> /\ Save(writing[1][1], writing[1][2]) /\ writing' = Tail(writing)
        /\ UNCHANGED <<runs, plan, pc, prompt, net, epoch, batches, queue, step, best>>
    BY <1>2 DEF Write, locals
  <2>2. /\ traces' \in [Prompts -> Lengths \cup {None, Torn}]
        /\ DOMAIN ckpts' \subseteq CheckpointNames /\ DOMAIN ckpts \subseteq DOMAIN ckpts'
        /\ \A name \in DOMAIN ckpts' : ckpts'[name] \in Checkpoints \cup {Torn}
        /\ models' \in [{"model", "named"} -> Exports \cup {None, Torn}]
    BY <2>1, SaveTypeOK
  <2>3. (/\ writing \in Seq(Files) /\ Len(writing) <= 2
         /\ \A i, j \in DOMAIN writing : writing[i][1] = writing[j][1] => i = j)'
    <3>1. Tail(writing) \in Seq(Files) /\ Len(Tail(writing)) <= 2
      BY <2>1, TailFiles, FirstFile
    <3>2. ASSUME NEW i \in DOMAIN Tail(writing), NEW j \in DOMAIN Tail(writing),
                 Tail(writing)[i][1] = Tail(writing)[j][1]
          PROVE  i = j
      <4>1. /\ i + 1 \in DOMAIN writing /\ Tail(writing)[i] = writing[i + 1] /\ i \in Nat
            /\ j + 1 \in DOMAIN writing /\ Tail(writing)[j] = writing[j + 1] /\ j \in Nat
        BY <2>1, <3>2, TailFiles, FirstFile
      <4>2. i + 1 = j + 1
        BY <3>2, <4>1 DEF TypeOK
      <4>3. QED
        BY <4>1, <4>2
    <3>3. QED
      BY <2>1, <3>1, <3>2
  <2>4. (pc # "idle" => PlanOK)'
    BY <2>1, <2>2, PlanKept DEF TypeOK
  <2>5. QED
    BY <2>1, <2>2, <2>3, <2>4 DEF TypeOK
<1>3. CASE Kill
  <2>1. /\ Enter("idle") /\ writing' = <<>> /\ UNCHANGED <<runs, plan>>
        /\ UNCHANGED disk \/ (writing # <<>> /\ Save(writing[1][1], Torn))
    BY <1>3 DEF Kill
  <2>2. (/\ traces \in [Prompts -> Lengths \cup {None, Torn}]
         /\ DOMAIN ckpts \subseteq CheckpointNames
         /\ \A name \in DOMAIN ckpts : ckpts[name] \in Checkpoints \cup {Torn}
         /\ models \in [{"model", "named"} -> Exports \cup {None, Torn}]
         /\ runs \in Nat)'
    <3>1. CASE UNCHANGED disk
      BY <2>1, <3>1, TypeKept
    <3>2. CASE writing # <<>> /\ Save(writing[1][1], Torn)
      BY <2>1, <3>2, SaveTypeOK DEF TypeOK
    <3>3. QED
      BY <2>1, <3>1, <3>2
  <2>3. (/\ writing \in Seq(Files) /\ Len(writing) <= 2
         /\ \A i, j \in DOMAIN writing : writing[i][1] = writing[j][1] => i = j)'
    BY <2>1, WritingTyped
  <2>4. pc' = "idle"
    BY <2>1 DEF Enter
  <2>5. QED
    BY <2>1, <2>2, <2>3, <2>4, EnterTypeOK DEF TypeOK
<1>4. CASE GenerateTrace
  <2>1. /\ pc = "traces" /\ prompt \in Prompts /\ writing = <<>> /\ prompt' = prompt + 1
        /\ UNCHANGED <<disk, runs, plan, pc, net, epoch, batches, step, best>>
        /\ \/ UNCHANGED writing
           \/ \E n \in Lengths \cup {Torn} : writing' = << <<<<"trace", prompt>>, n>> >>
    BY <1>4 DEF GenerateTrace, At
  <2>2. \A n \in Lengths \cup {Torn} : <<<<"trace", prompt>>, n>> \in Files
    BY <2>1 DEF Files
  <2>3. (/\ writing \in Seq(Files) /\ Len(writing) <= 2
         /\ \A i, j \in DOMAIN writing : writing[i][1] = writing[j][1] => i = j)'
    BY <2>1, <2>2, WritingTyped
  <2>4. QED
    BY <2>1, <2>3, TypeKept DEF TypeOK
<1>5. CASE EndTraces
  <2>1. /\ pc = "traces" /\ Enter(Following("traces")) /\ UNCHANGED <<disk, runs, plan, writing>>
    BY <1>5 DEF EndTraces, At
  <2>2. PlanOK
    BY <2>1 DEF TypeOK
  <2>3. Following("traces") \in Stages \cup {"idle"}
    BY <2>2, NextStage DEF PlanOK
  <2>4. PlanOK'
    BY <2>1, <2>2, TypeKept
  <2>5. QED
    BY <2>1, <2>3, <2>4, TypeKept, EnterTypeOK DEF TypeOK
<1>6. CASE StartTraining
  <2>1. PlanOK /\ UNCHANGED <<disk, runs, plan, writing>>
    BY <1>6, StartIs
  <2>2. PlanOK'
    BY <2>1, TypeKept
  <2>3. CASE Enter("idle")
    BY <2>1, <2>2, <2>3, TypeKept, EnterTypeOK DEF TypeOK
  <2>4. CASE ~Enter("idle")
    <3>1. UNCHANGED <<pc, prompt>> /\ batches' = 0 /\ best' = Inf /\ pc = "train"
      BY <1>6, <2>4, StartIs
    <3>2. net' \in Models /\ epoch' \in Nat /\ step' \in Nat
      <4>1. CASE \E c \in Checkpoints : net' = c.net /\ epoch' = c.epoch /\ step' = c.step
        BY <4>1 DEF Checkpoints
      <4>2. CASE /\ epoch' = 0 /\ step' = 0
                 /\ net' = [born |-> runs, steps |-> 0, passes |-> 0, cut |-> FALSE]
        BY <4>2 DEF Models, TypeOK
      <4>3. QED
        BY <1>6, <2>4, <4>1, <4>2, StartIs
    <3>3. QED
      BY <2>1, <2>2, <3>1, <3>2, TypeKept, LossAssumption DEF TypeOK
  <2>5. QED
    BY <2>3, <2>4
<1>7. CASE Batch
  <2>1. /\ UNCHANGED <<disk, runs, plan, pc, prompt, epoch>> /\ pc = "train"
        /\ epoch \in Nat /\ batches' \in Nat /\ step' \in Nat /\ net' \in Models
    BY <1>7, BatchIs
  <2>2. best' \in Nat /\ (/\ writing \in Seq(Files) /\ Len(writing) <= 2
         /\ \A i, j \in DOMAIN writing : writing[i][1] = writing[j][1] => i = j)'
    <3>1. CASE UNCHANGED <<best, writing>>
      BY <2>1, <3>1, TypeKept DEF TypeOK
    <3>2. CASE ~UNCHANGED <<best, writing>>
      <4>1. PICK avg \in Losses \cup {Inf} :
              /\ avg \in Nat
              /\ best' = IF avg < best THEN avg ELSE best
              /\ writing' =
                   IF avg < best
                   THEN <<Checkpoint(<<"step", step'>>, net', epoch, step', avg),
                          Checkpoint(<<"best">>, net', epoch, step', avg)>>
                   ELSE <<Checkpoint(<<"step", step'>>, net', epoch, step', avg)>>
        BY <1>7, <3>2, BatchIs
      <4> DEFINE sFile == Checkpoint(<<"step", step'>>, net', epoch, step', avg)
                 bFile == Checkpoint(<<"best">>, net', epoch, step', avg)
      <4>2. /\ runs \in Nat /\ epoch \in Nat /\ step' \in Nat /\ net' \in Models /\ avg \in Nat
            /\ <<"step", step'>> \in CheckpointNames /\ <<"best">> \in CheckpointNames
        BY <2>1, <4>1 DEF TypeOK, CheckpointNames
      <4>a. sFile \in Files /\ sFile[1] = <<"ckpt", <<"step", step'>>>>
        BY <4>2 DEF Checkpoint, Checkpoints, Files
      <4>b. bFile \in Files /\ bFile[1] = <<"ckpt", <<"best">>>>
        BY <4>2 DEF Checkpoint, Checkpoints, Files
      <4>c. <<"step", step'>> # <<"best">>
        OBVIOUS
      <4>3. sFile \in Files /\ bFile \in Files /\ sFile[1] # bFile[1]
        BY <4>a, <4>b, <4>c
      <4> HIDE DEF sFile, bFile
      <4>4. (writing' = <<sFile, bFile>>) \/ writing' = <<sFile>>
        BY <4>1 DEF sFile, bFile
      <4>5. QED
        BY <4>1, <4>3, <4>4, WritingTyped DEF TypeOK
    <3>3. QED
      BY <3>1, <3>2
  <2>3. QED
    BY <2>1, <2>2, TypeKept DEF TypeOK
<1>8. CASE EndEpoch
  <2>1. /\ UNCHANGED <<disk, runs, plan, pc, prompt, step, best>> /\ pc = "train"
        /\ epoch \in Nat /\ batches' = 0 /\ net' \in Models
        /\ writing' = <<Checkpoint(<<"epoch", epoch + 1>>, net', epoch + 1, step, 0)>>
        /\ epoch' = IF Enough THEN Epochs ELSE epoch + 1
    BY <1>8, EndEpochIs
  <2>2. epoch' \in Nat /\ <<"epoch", epoch + 1>> \in CheckpointNames /\ step \in Nat /\ runs \in Nat
    BY <2>1, SizesAssumption DEF CheckpointNames, TypeOK
  <2>3. Checkpoint(<<"epoch", epoch + 1>>, net', epoch + 1, step, 0) \in Files
    BY <2>1, <2>2 DEF Checkpoint, Checkpoints, Files
  <2>4. (/\ writing \in Seq(Files) /\ Len(writing) <= 2
         /\ \A i, j \in DOMAIN writing : writing[i][1] = writing[j][1] => i = j)'
    BY <2>1, <2>3, WritingTyped
  <2>5. /\ (pc # "idle" => PlanOK)' /\ pc' = "train" /\ prompt' \in Nat
        /\ best' \in Nat /\ step' \in Nat /\ batches' \in Nat
    BY <2>1, <2>2, TypeKept DEF TypeOK
  <2>6. QED
    BY <2>1, <2>2, <2>4, <2>5, TypeKept DEF TypeOK, Stages
<1>9. CASE Finish
  <2>1. /\ pc = "train" /\ net \in Models
        /\ UNCHANGED <<disk, runs, plan>> /\ Enter(Following("train"))
        /\ writing' = <<Checkpoint(<<"final">>, net, Epochs, step, 0)>>
    BY <1>9, FinishIs
  <2>2. PlanOK
    BY <2>1 DEF TypeOK
  <2>3. Following("train") \in Stages \cup {"idle"}
    BY <2>2, NextStage DEF PlanOK
  <2>4. PlanOK'
    BY <2>1, <2>2, TypeKept
  <2>5. Checkpoint(<<"final">>, net, Epochs, step, 0) \in Files
    BY <2>1, SizesAssumption, CheckpointTyped DEF CheckpointNames, TypeOK
  <2>6. (/\ writing \in Seq(Files) /\ Len(writing) <= 2
         /\ \A i, j \in DOMAIN writing : writing[i][1] = writing[j][1] => i = j)'
    BY <2>1, <2>5, WritingTyped
  <2>7. QED
    BY <2>1, <2>3, <2>4, <2>6, TypeKept, EnterTypeOK DEF TypeOK
<1>10. CASE Export
  <2>1. /\ pc = "export" /\ writing = <<>> /\ UNCHANGED <<disk, runs, plan>>
        /\ Enter("idle") \/ Enter(Following("export"))
    BY <1>10, ExportIs
  <2>2. PlanOK
    BY <2>1 DEF TypeOK
  <2>3. Following("export") \in Stages \cup {"idle"}
    BY <2>2, NextStage DEF PlanOK
  <2>4. PlanOK'
    BY <2>1, <2>2, TypeKept
  <2>5. (/\ writing \in Seq(Files) /\ Len(writing) <= 2
         /\ \A i, j \in DOMAIN writing : writing[i][1] = writing[j][1] => i = j)'
    <3>1. CASE writing' = <<>>
      BY <3>1, WritingTyped
    <3>2. CASE writing' # <<>>
      <4>1. PICK i \in 1..3, c \in Checkpoints :
              /\ Candidates[i] \in CheckpointNames
              /\ writing' = << <<<<"out", "model">>, ExportOf(Candidates[i], c)>>,
                               <<<<"out", "named">>, ExportOf(Candidates[i], c)>> >>
        BY <1>10, <2>1, <3>2, ExportIs
      <4> DEFINE f == <<<<"out", "model">>, ExportOf(Candidates[i], c)>>
                 g == <<<<"out", "named">>, ExportOf(Candidates[i], c)>>
      <4>2. ExportOf(Candidates[i], c) \in Exports
        BY <4>1 DEF ExportOf, Exports
      <4>3. f \in Files /\ g \in Files /\ f[1] # g[1]
        BY <4>2 DEF Files
      <4> HIDE DEF f, g
      <4>4. writing' = <<f, g>>
        BY <4>1 DEF f, g
      <4>5. QED
        BY <4>3, <4>4, WritingTyped
    <3>3. QED
      BY <3>1, <3>2
  <2>6. QED
    BY <2>1, <2>3, <2>4, <2>5, TypeKept, EnterTypeOK DEF TypeOK
<1>11. CASE Validate
  <2>1. Enter("idle") /\ UNCHANGED <<disk, runs, plan, writing>>
    BY <1>11 DEF Validate
  <2>2. pc' = "idle"
    BY <2>1 DEF Enter
  <2>3. QED
    BY <2>1, <2>2, TypeKept, EnterTypeOK DEF TypeOK
<1>12. CASE Calibrate
  <2>1. /\ pc = "idle" /\ runs' = runs + 1 /\ UNCHANGED <<disk, plan, pc, locals>>
    BY <1>12 DEF Calibrate
  <2>2. PICK up \in Upstreams :
          \/ writing' = << <<<<"out", "model">>, [by |-> "produce", upstream |-> up,
                                                  name |-> None, ckpt |-> None]>> >>
          \/ /\ CanLoadUpstream(up)
             /\ writing' = << <<<<"out", "named">>, [by |-> "calibrate", upstream |-> up,
                                                     name |-> None, ckpt |-> None]>> >>
    BY <1>12 DEF Calibrate
  <2>3. \E f \in Files : writing' = <<f>>
    BY <2>2 DEF Files, Exports
  <2>4. (/\ writing \in Seq(Files) /\ Len(writing) <= 2
         /\ \A i, j \in DOMAIN writing : writing[i][1] = writing[j][1] => i = j)'
    BY <2>3, WritingTyped
  <2>5. QED
    BY <2>1, <2>4 DEF TypeOK, disk, locals
<1>13. CASE UNCHANGED vars
  <2>1. UNCHANGED <<disk, runs, plan, pc, writing, locals>>
    BY <1>13 DEF vars
  <2>2. QED
    BY <2>1, TypeKept DEF TypeOK, locals
<1>14. QED
  BY <1>1, <1>2, <1>3, <1>4, <1>5, <1>6, <1>7, <1>8, <1>9, <1>10, <1>11, <1>12, <1>13
     DEF Next, Done

\* Whatever happens, the variables have their types.
THEOREM TypeCorrect == Spec => []TypeOK
<1>1. QED
  BY InitTypeOK, NextTypeOK, PTL DEF Spec

-----------------------------------------------------------------------------
(* What is stored                                                          *)

LEMMA StoredTyped ==
  ASSUME TypeOK, NEW name, NEW c, Stored(name, c)
  PROVE  c \in Checkpoints /\ name \in CheckpointNames
<1>1. CASE OnDisk(name, c)
  BY <1>1 DEF OnDisk, TypeOK
<1>2. CASE Pending(name, c)
  <2>1. PICK i \in DOMAIN writing : writing[i] = <<<<"ckpt", name>>, c>>
    BY <1>2 DEF Pending
  <2>2. writing \in Seq(Files)
    BY DEF TypeOK
  <2>3. DOMAIN writing = 1..Len(writing)
    BY <2>2, LenProperties
  <2>4. writing[i] \in Files
    BY <2>1, <2>2, <2>3, ElementOfSeq
  <2> DEFINE f == writing[i]
  <2>5. f \in Files /\ f[1][1] = "ckpt" /\ f[1][2] = name /\ f[2] = c
    BY <2>1, <2>4
  <2> HIDE DEF f
  <2>6. f \in ({"ckpt"} \X CheckpointNames) \X Checkpoints
    BY <2>5 DEF Files
  <2>7. QED
    BY <2>5, <2>6
<1>3. QED
  BY <1>1, <1>2 DEF Stored

\* The first file being complete, nothing else is stored than before.
LEMMA WriteStores ==
  ASSUME TypeOK, Write
  PROVE  /\ \A name, c : Pending(name, c)' => Pending(name, c)
         /\ \A name, c : OnDisk(name, c)' => Stored(name, c)
         /\ \A name, c : Pending(name, c) => Pending(name, c)' \/ OnDisk(name, c)'
         /\ \A name, c : OnDisk(name, c) => OnDisk(name, c)' \/ \E d : Pending(name, d)
<1>1. /\ writing # <<>> /\ Save(writing[1][1], writing[1][2]) /\ writing' = Tail(writing)
  BY DEF Write
<1>2. /\ DOMAIN Tail(writing) = 1..(Len(writing) - 1) /\ Len(writing) \in 1..2
      /\ DOMAIN writing = 1..Len(writing)
      /\ \A i \in DOMAIN Tail(writing) :
              i + 1 \in DOMAIN writing /\ Tail(writing)[i] = writing[i + 1]
  BY <1>1, TailFiles, FirstFile
<1>3. \A name, c : Pending(name, c)' => Pending(name, c)
  BY <1>1, <1>2 DEF Pending
<1>4. \A i \in DOMAIN writing : i = 1 \/ (i - 1 \in DOMAIN Tail(writing)
                                            /\ Tail(writing)[i - 1] = writing[i])
  <2>1. ASSUME NEW i \in DOMAIN writing, i # 1
        PROVE  i - 1 \in DOMAIN Tail(writing) /\ Tail(writing)[i - 1] = writing[i]
    <3>1. i \in 1..Len(writing) /\ Len(writing) \in Nat
      BY <1>2
    <3>2. i - 1 \in 1..(Len(writing) - 1) /\ (i - 1) + 1 = i
      BY <2>1, <3>1
    <3>3. i - 1 \in DOMAIN Tail(writing)
      BY <1>2, <3>2
    <3>4. Tail(writing)[i - 1] = writing[(i - 1) + 1]
      BY <1>2, <3>3
    <3>5. QED
      BY <3>2, <3>3, <3>4
  <2>2. QED
    BY <2>1
<1>5. \A i, j \in DOMAIN writing : writing[i][1] = writing[j][1] => i = j
  BY DEF TypeOK
<1>6. CASE UNCHANGED ckpts /\ \A n : writing[1][1] # <<"ckpt", n>>
  <2>1. \A name, c : OnDisk(name, c)' <=> OnDisk(name, c)
    BY <1>6 DEF OnDisk
  <2>2. ASSUME NEW name, NEW c, Pending(name, c) PROVE Pending(name, c)'
    <3>1. PICK i \in DOMAIN writing : writing[i] = <<<<"ckpt", name>>, c>>
      BY <2>2 DEF Pending
    <3>2. writing[i][1] = <<"ckpt", name>>
      BY <3>1
    <3>3. i # 1
      BY <1>6, <3>2
    <3>4. QED
      BY <1>1, <1>4, <3>1, <3>3 DEF Pending
  <2>3. QED
    BY <1>3, <2>1, <2>2 DEF Stored
<1>7. CASE \E n \in CheckpointNames :
             /\ writing[1][1] = <<"ckpt", n>> /\ writing[1][2] \in Checkpoints
             /\ ckpts' = [x \in DOMAIN ckpts \cup {n} |->
                            IF x = n THEN writing[1][2] ELSE ckpts[x]]
  <2>1. PICK n \in CheckpointNames :
             /\ writing[1][1] = <<"ckpt", n>> /\ writing[1][2] \in Checkpoints
             /\ ckpts' = [x \in DOMAIN ckpts \cup {n} |->
                            IF x = n THEN writing[1][2] ELSE ckpts[x]]
    BY <1>7
  <2>a. PICK d \in Checkpoints : d = writing[1][2]
    BY <2>1
  <2>2. writing[1] = <<<<"ckpt", n>>, d>>
    BY <1>1, <2>1, <2>a, FirstFile
  <2>3. ckpts' = [x \in DOMAIN ckpts \cup {n} |-> IF x = n THEN d ELSE ckpts[x]]
    BY <2>1, <2>a
  <2>4. Pending(n, d)
    BY <1>2, <2>2 DEF Pending
  <2>5. OnDisk(n, d)'
    BY <2>3 DEF OnDisk
  <2>6. ASSUME NEW name, NEW c, OnDisk(name, c)' PROVE Stored(name, c)
    <3>1. CASE name = n
      BY <2>3, <2>4, <2>6, <3>1 DEF OnDisk, Stored
    <3>2. CASE name # n
      BY <2>3, <2>6, <3>2 DEF OnDisk, Stored
    <3>3. QED
      BY <3>1, <3>2
  <2>7. ASSUME NEW name, NEW c, Pending(name, c) PROVE Pending(name, c)' \/ OnDisk(name, c)'
    <3>1. PICK i \in DOMAIN writing : writing[i] = <<<<"ckpt", name>>, c>>
      BY <2>7 DEF Pending
    <3>2. CASE i = 1
      BY <2>2, <2>5, <3>1, <3>2
    <3>3. CASE i # 1
      BY <1>1, <1>4, <3>1, <3>3 DEF Pending
    <3>4. QED
      BY <3>2, <3>3
  <2>8. ASSUME NEW name, NEW c, OnDisk(name, c)
        PROVE  OnDisk(name, c)' \/ \E e : Pending(name, e)
    <3>1. CASE name = n
      BY <2>4, <3>1
    <3>2. CASE name # n
      BY <2>3, <2>8, <3>2 DEF OnDisk
    <3>3. QED
      BY <3>1, <3>2
  <2>9. QED
    BY <1>3, <2>6, <2>7, <2>8
<1>8. \/ UNCHANGED ckpts /\ \A n : writing[1][1] # <<"ckpt", n>>
      \/ \E n \in CheckpointNames :
             /\ writing[1][1] = <<"ckpt", n>> /\ writing[1][2] \in Checkpoints
             /\ ckpts' = [x \in DOMAIN ckpts \cup {n} |->
                            IF x = n THEN writing[1][2] ELSE ckpts[x]]
  <2> DEFINE d == writing[1][2]
             name == writing[1][1]
  <2>1. \/ \E p \in Prompts : name = <<"trace", p>> /\ UNCHANGED ckpts
        \/ \E n \in CheckpointNames :
              /\ name = <<"ckpt", n>> /\ d \in Checkpoints
              /\ ckpts' = [x \in DOMAIN ckpts \cup {n} |-> IF x = n THEN d ELSE ckpts[x]]
        \/ \E f \in {"model", "named"} : name = <<"out", f>> /\ UNCHANGED ckpts
    <3>1. PICK contents : contents = writing[1][2]
      OBVIOUS
    <3>2. Save(writing[1][1], contents)
      BY <1>1, <3>1
    <3>3. \/ \E p \in Prompts :
              /\ writing[1][1] = <<"trace", p>> /\ writing[1][2] \in Lengths \cup {Torn}
              /\ traces' = [traces EXCEPT ![p] = contents] /\ UNCHANGED <<ckpts, models>>
          \/ \E n \in CheckpointNames :
              /\ writing[1][1] = <<"ckpt", n>> /\ writing[1][2] \in Checkpoints
              /\ ckpts' = [x \in DOMAIN ckpts \cup {n} |-> IF x = n THEN contents ELSE ckpts[x]]
              /\ UNCHANGED <<traces, models>>
          \/ \E f \in {"model", "named"} :
              /\ writing[1][1] = <<"out", f>> /\ writing[1][2] \in Exports
              /\ models' = [models EXCEPT ![f] = contents] /\ UNCHANGED <<traces, ckpts>>
      BY <1>1, <3>2, SaveIs
    <3>4. QED
      BY <3>1, <3>3
  <2> HIDE DEF d, name
  <2>2. \/ UNCHANGED ckpts /\ \A n : name # <<"ckpt", n>>
        \/ \E n \in CheckpointNames :
              /\ name = <<"ckpt", n>> /\ d \in Checkpoints
              /\ ckpts' = [x \in DOMAIN ckpts \cup {n} |-> IF x = n THEN d ELSE ckpts[x]]
    BY <2>1
  <2>3. QED
    BY <2>2 DEF d, name
<1>9. QED
  BY <1>6, <1>7, <1>8

LEMMA KillStores ==
  ASSUME TypeOK, Kill
  PROVE  /\ \A name, c : ~Pending(name, c)'
         /\ \A name, c : OnDisk(name, c)' => OnDisk(name, c)
<1>1. /\ writing' = <<>>
      /\ UNCHANGED disk \/ (writing # <<>> /\ Save(writing[1][1], Torn))
  BY DEF Kill
<1>2. \A name, c : ~Pending(name, c)'
  BY <1>1 DEF Pending
<1>3. CASE UNCHANGED ckpts
  BY <1>2, <1>3 DEF OnDisk
<1>4. CASE \E n \in CheckpointNames :
             ckpts' = [x \in DOMAIN ckpts \cup {n} |-> IF x = n THEN Torn ELSE ckpts[x]]
  <2>1. PICK n \in CheckpointNames :
             ckpts' = [x \in DOMAIN ckpts \cup {n} |-> IF x = n THEN Torn ELSE ckpts[x]]
    BY <1>4
  <2>2. Torn \notin Checkpoints
    BY NoneAssumption
  <2>3. ASSUME NEW name, NEW c, OnDisk(name, c)' PROVE OnDisk(name, c)
    <3>1. name \in DOMAIN ckpts \cup {n} /\ ckpts'[name] = c /\ c \in Checkpoints
      BY <2>1, <2>3 DEF OnDisk
    <3>2. name # n
      BY <2>1, <2>2, <3>1
    <3>3. QED
      BY <2>1, <3>1, <3>2 DEF OnDisk
  <2>4. QED
    BY <1>2, <2>3
<1>5. CASE UNCHANGED disk
  BY <1>3, <1>5 DEF disk
<1>6. CASE writing # <<>> /\ Save(writing[1][1], Torn)
  BY <1>3, <1>4, <1>6, SaveIs
<1>7. QED
  BY <1>1, <1>5, <1>6

LEMMA PendingNext ==
  /\ writing' = <<>> => \A name, c : ~Pending(name, c)'
  /\ \A f : writing' = <<f>> => \A name, c : Pending(name, c)' <=> f = <<<<"ckpt", name>>, c>>
  /\ \A f, g : writing' = <<f, g>> =>
       \A name, c : Pending(name, c)' <=> \/ f = <<<<"ckpt", name>>, c>>
                                          \/ g = <<<<"ckpt", name>>, c>>
<1>1. writing' = <<>> => \A name, c : ~Pending(name, c)'
  BY DEF Pending
<1>2. ASSUME NEW f, writing' = <<f>>, NEW name, NEW c
      PROVE  Pending(name, c)' <=> f = <<<<"ckpt", name>>, c>>
  <2>1. DOMAIN writing' = {1} /\ writing'[1] = f
    BY <1>2
  <2>2. QED
    BY <2>1 DEF Pending
<1>3. ASSUME NEW f, NEW g, writing' = <<f, g>>, NEW name, NEW c
      PROVE  Pending(name, c)' <=> f = <<<<"ckpt", name>>, c>> \/ g = <<<<"ckpt", name>>, c>>
  <2>1. DOMAIN writing' = {1, 2} /\ writing'[1] = f /\ writing'[2] = g
    BY <1>3
  <2>2. QED
    BY <2>1 DEF Pending
<1>4. QED
  BY <1>1, <1>2, <1>3

LEMMA DiskKept ==
  ASSUME UNCHANGED disk
  PROVE  \A name, c : OnDisk(name, c)' <=> OnDisk(name, c)
BY DEF disk, OnDisk

Contents(n, e, s, avg) == [net |-> n, epoch |-> e, step |-> s, run |-> runs, avg |-> avg]

\* A batch stores its model under its step, and under best if it is the best so far.
LEMMA BatchStores ==
  ASSUME TypeOK, Batch
  PROVE  /\ \A name, c : OnDisk(name, c)' <=> OnDisk(name, c)
         /\ \A name, c : ~Pending(name, c)
         /\ \/ UNCHANGED best /\ \A name, c : ~Pending(name, c)'
            \/ \E avg \in Losses \cup {Inf} :
                 /\ avg \in Nat /\ best' = IF avg < best THEN avg ELSE best
                 /\ \A name, c : Pending(name, c)' <=>
                      /\ name = <<"step", step'>> \/ (name = <<"best">> /\ avg < best)
                      /\ c = Contents(net', epoch, step', avg)
<1>1. UNCHANGED disk /\ writing = <<>>
  BY BatchIs
<1>2. \A name, c : ~Pending(name, c)
  BY <1>1 DEF Pending
<1>3. CASE UNCHANGED <<best, writing>>
  <2>1. writing' = <<>>
    BY <1>1, <1>3
  <2>2. QED
    BY <1>1, <1>2, <1>3, <2>1, PendingNext, DiskKept
<1>4. CASE ~UNCHANGED <<best, writing>>
  <2>1. PICK avg \in Losses \cup {Inf} :
          /\ avg \in Nat
          /\ best' = IF avg < best THEN avg ELSE best
          /\ writing' =
               IF avg < best
               THEN <<Checkpoint(<<"step", step'>>, net', epoch, step', avg),
                      Checkpoint(<<"best">>, net', epoch, step', avg)>>
               ELSE <<Checkpoint(<<"step", step'>>, net', epoch, step', avg)>>
    BY <1>4, BatchIs
  <2>2. PICK k : k = Contents(net', epoch, step', avg)
    OBVIOUS
  <2>3. /\ Checkpoint(<<"step", step'>>, net', epoch, step', avg) = <<<<"ckpt", <<"step", step'>>>>, k>>
        /\ Checkpoint(<<"best">>, net', epoch, step', avg) = <<<<"ckpt", <<"best">>>>, k>>
    BY <2>2 DEF Checkpoint, Contents
  <2>4. ASSUME NEW name, NEW c
        PROVE  Pending(name, c)' <=> /\ name = <<"step", step'>> \/ (name = <<"best">> /\ avg < best)
                                     /\ c = k
    <3>1. CASE avg < best
      <4>1. writing' = << <<<<"ckpt", <<"step", step'>>>>, k>>, <<<<"ckpt", <<"best">>>>, k>> >>
        BY <2>1, <2>3, <3>1
      <4>2. Pending(name, c)' <=> \/ <<<<"ckpt", <<"step", step'>>>>, k>> = <<<<"ckpt", name>>, c>>
                                  \/ <<<<"ckpt", <<"best">>>>, k>> = <<<<"ckpt", name>>, c>>
        BY <4>1, PendingNext
      <4>3. QED
        BY <3>1, <4>2
    <3>2. CASE ~(avg < best)
      <4>1. writing' = << <<<<"ckpt", <<"step", step'>>>>, k>> >>
        BY <2>1, <2>3, <3>2
      <4>2. Pending(name, c)' <=> <<<<"ckpt", <<"step", step'>>>>, k>> = <<<<"ckpt", name>>, c>>
        BY <4>1, PendingNext
      <4>3. QED
        BY <3>2, <4>2
    <3>3. QED
      BY <3>1, <3>2
  <2>5. QED
    BY <1>1, <1>2, <2>1, <2>2, <2>4, DiskKept
<1>5. QED
  BY <1>3, <1>4

LEMMA EndEpochStores ==
  ASSUME TypeOK, EndEpoch
  PROVE  /\ \A name, c : OnDisk(name, c)' <=> OnDisk(name, c)
         /\ \A name, c : ~Pending(name, c)
         /\ \A name, c : Pending(name, c)' <=>
              name = <<"epoch", epoch + 1>> /\ c = Contents(net', epoch + 1, step, 0)
<1>1. UNCHANGED disk /\ writing = <<>>
      /\ writing' = <<Checkpoint(<<"epoch", epoch + 1>>, net', epoch + 1, step, 0)>>
  BY EndEpochIs
<1>2. PICK k : k = Contents(net', epoch + 1, step, 0)
  OBVIOUS
<1>3. writing' = << <<<<"ckpt", <<"epoch", epoch + 1>>>>, k>> >>
  BY <1>1, <1>2 DEF Checkpoint, Contents
<1>4. ASSUME NEW name, NEW c
      PROVE  Pending(name, c)' <=> name = <<"epoch", epoch + 1>> /\ c = k
  <2>1. Pending(name, c)' <=> <<<<"ckpt", <<"epoch", epoch + 1>>>>, k>> = <<<<"ckpt", name>>, c>>
    BY <1>3, PendingNext
  <2>2. QED
    BY <2>1
<1>5. \A name, c : ~Pending(name, c)
  BY <1>1 DEF Pending
<1>6. QED
  BY <1>1, <1>2, <1>4, <1>5, DiskKept

LEMMA FinishStores ==
  ASSUME TypeOK, Finish
  PROVE  /\ \A name, c : OnDisk(name, c)' <=> OnDisk(name, c)
         /\ \A name, c : ~Pending(name, c)
         /\ \A name, c : Pending(name, c)' <=>
              name = <<"final">> /\ c = Contents(net, Epochs, step, 0)
<1>1. UNCHANGED disk /\ writing = <<>>
      /\ writing' = <<Checkpoint(<<"final">>, net, Epochs, step, 0)>>
  BY FinishIs
<1>2. PICK k : k = Contents(net, Epochs, step, 0)
  OBVIOUS
<1>3. writing' = << <<<<"ckpt", <<"final">>>>, k>> >>
  BY <1>1, <1>2 DEF Checkpoint, Contents
<1>4. ASSUME NEW name, NEW c
      PROVE  Pending(name, c)' <=> name = <<"final">> /\ c = k
  <2>1. Pending(name, c)' <=> <<<<"ckpt", <<"final">>>>, k>> = <<<<"ckpt", name>>, c>>
    BY <1>3, PendingNext
  <2>2. QED
    BY <2>1
<1>5. \A name, c : ~Pending(name, c)
  BY <1>1 DEF Pending
<1>6. QED
  BY <1>1, <1>2, <1>4, <1>5, DiskKept

\* All other steps store no checkpoint.
LEMMA OthersStore ==
  ASSUME TypeOK,
         Invoke \/ GenerateTrace \/ EndTraces \/ StartTraining \/ Export \/ Validate \/ Calibrate
         \/ UNCHANGED vars
  PROVE  /\ \A name, c : OnDisk(name, c)' <=> OnDisk(name, c)
         /\ \A name, c : Pending(name, c)' => Pending(name, c)
         /\ UNCHANGED writing => \A name, c : Pending(name, c)' <=> Pending(name, c)
<1>1. UNCHANGED disk
  <2>1. CASE Invoke \/ GenerateTrace \/ EndTraces \/ Validate
    BY <2>1 DEF Invoke, GenerateTrace, EndTraces, Validate
  <2>2. CASE StartTraining \/ Export \/ Calibrate \/ UNCHANGED vars
    BY <2>2 DEF StartTraining, Export, Calibrate, vars
  <2>3. QED
    BY <2>1, <2>2
<1>2. UNCHANGED writing => \A name, c : Pending(name, c)' <=> Pending(name, c)
  BY DEF Pending
<1>3. CASE UNCHANGED writing
  BY <1>1, <1>2, <1>3, DiskKept
<1>4. CASE \E f : writing' = <<f>> /\ f[1][1] # "ckpt"
  <2>1. PICK f : writing' = <<f>> /\ f[1][1] # "ckpt"
    BY <1>4
  <2>2. \A name, c : ~Pending(name, c)'
    BY <2>1, PendingNext
  <2>3. QED
    BY <1>1, <1>2, <2>2, DiskKept
<1>5. CASE \E f, g : writing' = <<f, g>> /\ f[1][1] # "ckpt" /\ g[1][1] # "ckpt"
  <2>1. PICK f, g : writing' = <<f, g>> /\ f[1][1] # "ckpt" /\ g[1][1] # "ckpt"
    BY <1>5
  <2>2. \A name, c : ~Pending(name, c)'
    BY <2>1, PendingNext
  <2>3. QED
    BY <1>1, <1>2, <2>2, DiskKept
<1>6. CASE writing' = <<>>
  BY <1>1, <1>2, <1>6, PendingNext, DiskKept
<1>7. CASE Invoke \/ EndTraces \/ StartTraining \/ Validate \/ UNCHANGED vars
  <2>1. UNCHANGED writing
    BY <1>7 DEF Invoke, EndTraces, StartTraining, Validate, vars
  <2>2. QED
    BY <1>3, <2>1
<1>8. CASE GenerateTrace
  <2>1. UNCHANGED writing \/ \E n \in Lengths \cup {Torn} : writing' = << <<<<"trace", prompt>>, n>> >>
    BY <1>8 DEF GenerateTrace
  <2>2. QED
    BY <1>3, <1>4, <2>1
<1>9. CASE Calibrate
  <2>1. \E x : writing' = << <<<<"out", "model">>, x>> >> \/ writing' = << <<<<"out", "named">>, x>> >>
    BY <1>9 DEF Calibrate
  <2>2. QED
    BY <1>4, <2>1
<1>10. CASE Export
  <2>1. \/ UNCHANGED writing \/ writing' = <<>>
        \/ \E x : writing' = << <<<<"out", "model">>, x>>, <<<<"out", "named">>, x>> >>
    BY <1>10, ExportIs
  <2>2. QED
    BY <1>3, <1>5, <1>6, <2>1
<1>11. QED
  BY <1>7, <1>8, <1>9, <1>10

\* A step that writes none of the three stores nothing that was not stored before.
LEMMA OldStores ==
  ASSUME TypeOK, [Next]_vars, ~Batch, ~EndEpoch, ~Finish
  PROVE  /\ \A name, c : Stored(name, c)' => Stored(name, c)
         /\ \A name, c : Pending(name, c)' => Pending(name, c)
<1>1. CASE Write
  BY <1>1, WriteStores DEF Stored
<1>2. CASE Kill
  BY <1>2, KillStores DEF Stored
<1>3. CASE Invoke \/ GenerateTrace \/ EndTraces \/ StartTraining \/ Export \/ Validate
           \/ Calibrate \/ UNCHANGED vars
  BY <1>3, OthersStore DEF Stored
<1>4. QED
  BY <1>1, <1>2, <1>3 DEF Next, Done

-----------------------------------------------------------------------------
(* What the epochs say                                                     *)

StoredEpochs(name, c) ==
  /\ Trained(c.net, c.epoch)
  /\ name[1] = "epoch" => c.epoch = name[2] /\ (~c.net.cut => c.net.passes >= name[2])

LEMMA EpochInvIs ==
  EpochInv <=> /\ epoch # None => Trained(net, epoch)
               /\ \A name, c : Stored(name, c) => StoredEpochs(name, c)
BY DEF EpochInv, StoredEpochs

LEMMA NextEpochInv == TypeOK /\ EpochInv /\ [Next]_vars => EpochInv'
<1> SUFFICES ASSUME TypeOK, EpochInv, [Next]_vars PROVE EpochInv'
  OBVIOUS
<1>0. /\ epoch # None => Trained(net, epoch)
      /\ \A name, c : Stored(name, c) => StoredEpochs(name, c)
  BY EpochInvIs
<1>1. CASE Batch
  <2>1. /\ epoch # None /\ epoch' = epoch /\ epoch \in Nat /\ net' \in Models
        /\ net'.passes = net.passes /\ net'.cut = net.cut
    BY <1>1, BatchIs
  <2>2. Trained(net', epoch)
    BY <1>0, <2>1 DEF Trained
  <2>3. ASSUME NEW name, NEW c, Stored(name, c)' PROVE StoredEpochs(name, c)
    <3>1. CASE OnDisk(name, c)'
      BY <1>0, <1>1, <3>1, BatchStores DEF Stored
    <3>2. CASE Pending(name, c)'
      <4>1. PICK avg : /\ name = <<"step", step'>> \/ name = <<"best">>
                       /\ c = Contents(net', epoch, step', avg)
        BY <1>1, <3>2, BatchStores
      <4>2. name[1] # "epoch"
        BY <4>1
      <4>3. c.net = net' /\ c.epoch = epoch
        BY <4>1 DEF Contents
      <4>4. QED
        BY <2>2, <4>2, <4>3 DEF StoredEpochs
    <3>3. QED
      BY <2>3, <3>1, <3>2 DEF Stored
  <2>4. QED
    BY <2>1, <2>2, <2>3 DEF EpochInv, StoredEpochs
<1>2. CASE EndEpoch
  <2>1. /\ epoch # None /\ epoch \in Nat /\ epoch < Epochs /\ Epochs \in Nat
        /\ net \in Models /\ net' \in Models
        /\ IF queue = {} THEN net'.passes = net.passes + 1 /\ net'.cut = net.cut
           ELSE net'.cut = TRUE /\ Enough
        /\ epoch' = IF Enough THEN Epochs ELSE epoch + 1
    BY <1>2, EndEpochIs, SizesAssumption
  <2>2. net.cut \in BOOLEAN /\ net.passes \in Nat /\ net'.passes \in Nat
    BY <2>1 DEF Models
  <2>3. ~net'.cut => net'.passes >= epoch + 1
    BY <1>0, <2>1, <2>2 DEF Trained
  <2>4. Trained(net', epoch + 1) /\ Trained(net', epoch')
    BY <2>1, <2>2, <2>3 DEF Trained
  <2>5. ASSUME NEW name, NEW c, Stored(name, c)' PROVE StoredEpochs(name, c)
    <3>1. CASE OnDisk(name, c)'
      BY <1>0, <1>2, <3>1, EndEpochStores DEF Stored
    <3>2. CASE Pending(name, c)'
      <4>1. name = <<"epoch", epoch + 1>> /\ c = Contents(net', epoch + 1, step, 0)
        BY <1>2, <3>2, EndEpochStores
      <4>2. name[2] = epoch + 1 /\ c.net = net' /\ c.epoch = epoch + 1
        BY <4>1 DEF Contents
      <4>3. QED
        BY <2>3, <2>4, <4>2 DEF StoredEpochs
    <3>3. QED
      BY <2>5, <3>1, <3>2 DEF Stored
  <2>6. QED
    BY <2>4, <2>5 DEF EpochInv, StoredEpochs
<1>3. CASE Finish
  <2>1. epoch' = None
    BY <1>3, FinishIs DEF Enter
  <2>2. ASSUME NEW name, NEW c, Stored(name, c)' PROVE StoredEpochs(name, c)
    <3>1. CASE OnDisk(name, c)'
      BY <1>0, <1>3, <3>1, FinishStores DEF Stored
    <3>2. CASE Pending(name, c)'
      <4>1. name = <<"final">> /\ c = Contents(net, Epochs, step, 0)
        BY <1>3, <3>2, FinishStores
      <4>2. name[1] # "epoch" /\ c.epoch = Epochs
        BY <4>1 DEF Contents
      <4>3. QED
        BY <4>2, SizesAssumption DEF StoredEpochs, Trained
    <3>3. QED
      BY <2>2, <3>1, <3>2 DEF Stored
  <2>3. QED
    BY <2>1, <2>2 DEF EpochInv, StoredEpochs
<1>4. CASE ~Batch /\ ~EndEpoch /\ ~Finish
  <2>1. \A name, c : Stored(name, c)' => StoredEpochs(name, c)
    BY <1>0, <1>4, OldStores
  <2>2. (epoch # None => Trained(net, epoch))'
    <3>1. CASE StartTraining
      <4>1. CASE Enter("idle")
        BY <4>1 DEF Enter
      <4>2. CASE \E c \in Checkpoints :
                   /\ plan.resume # None /\ OnDisk(plan.resume, c)
                   /\ net' = c.net /\ epoch' = c.epoch /\ step' = c.step
        <5>1. PICK c : OnDisk(plan.resume, c) /\ net' = c.net /\ epoch' = c.epoch
          BY <4>2
        <5>2. Trained(c.net, c.epoch)
          BY <1>0, <5>1 DEF Stored, StoredEpochs
        <5>3. QED
          BY <5>1, <5>2 DEF Trained
      <4>3. CASE /\ epoch' = 0 /\ step' = 0
                 /\ net' = [born |-> runs, steps |-> 0, passes |-> 0, cut |-> FALSE]
        BY <4>3 DEF Trained
      <4>4. QED
        BY <3>1, <4>1, <4>2, <4>3, StartIs
    <3>2. CASE Invoke \/ EndTraces \/ Export \/ Validate \/ Kill
      <4>1. epoch' = None
        BY <3>2, ExportIs DEF Invoke, EndTraces, Validate, Kill, Enter
      <4>2. QED
        BY <4>1
    <3>3. CASE GenerateTrace \/ Calibrate \/ Write \/ UNCHANGED vars
      <4>1. UNCHANGED <<epoch, net>>
        BY <3>3 DEF GenerateTrace, Calibrate, Write, vars, locals
      <4>2. QED
        BY <1>0, <4>1 DEF Trained
    <3>4. QED
      BY <1>4, <3>1, <3>2, <3>3 DEF Next, Done
  <2>3. QED
    BY <2>1, <2>2 DEF EpochInv, StoredEpochs
<1>5. QED
  BY <1>1, <1>2, <1>3, <1>4

\* epoch_k.pt holds a model that has seen all of the data k times, for any number of
\* prompts, epochs and invocations, each killed or resumed anywhere: the epoch a
\* checkpoint carries never runs ahead of its model (train.py:132-186).
THEOREM EpochsAreTrained == Spec => []EpochsTrained
<1>1. Init => EpochInv
  BY DEF Init, EpochInv, Stored, Pending, OnDisk
<1>2. TypeOK /\ EpochInv => EpochsTrained
  <2> SUFFICES ASSUME TypeOK, EpochInv, NEW name \in DOMAIN ckpts, name[1] = "epoch",
                      Whole(ckpts[name]), ~ckpts[name].net.cut
               PROVE  ckpts[name].net.passes >= name[2]
    BY DEF EpochsTrained
  <2>1. ckpts[name] \in Checkpoints
    BY DEF TypeOK, Whole
  <2>2. Stored(name, ckpts[name])
    BY <2>1 DEF Stored, OnDisk
  <2>3. QED
    BY <2>2 DEF EpochInv
<1>3. QED
  BY <1>1, <1>2, NextEpochInv, TypeCorrect, PTL DEF Spec

-----------------------------------------------------------------------------
(* Who stored what                                                         *)

\* Only an invocation counts up, and nothing is being written then.
LEMMA RunsCount ==
  ASSUME TypeOK, [Next]_vars
  PROVE  \/ UNCHANGED runs
         \/ /\ Invoke \/ Calibrate
            /\ runs' = runs + 1 /\ \A name, c : ~Pending(name, c)
<1>1. CASE Invoke \/ Calibrate
  <2>1. runs' = runs + 1 /\ writing = <<>>
    BY <1>1 DEF Invoke, Calibrate
  <2>2. QED
    BY <1>1, <2>1 DEF Pending
<1>2. CASE ~Invoke /\ ~Calibrate
  BY <1>2, BatchIs, EndEpochIs, FinishIs, ExportIs, StartIs
     DEF Next, Done, Write, Kill, GenerateTrace, EndTraces, Validate, vars
<1>3. QED
  BY <1>1, <1>2

LEMMA ContentsRun ==
  ASSUME NEW n, NEW e, NEW s, NEW avg
  PROVE  Contents(n, e, s, avg).run = runs /\ Contents(n, e, s, avg).avg = avg
BY DEF Contents

\* How a program before or after training came to be there.
LEMMA BeforeAfter ==
  ASSUME TypeOK, [Next]_vars
  PROVE  /\ Before' => Invoke \/ (Before /\ ~Batch /\ ~EndEpoch /\ ~Finish /\ ~Calibrate)
         /\ After' => Finish \/ (After /\ ~Batch /\ ~EndEpoch /\ ~Invoke /\ ~Calibrate
                                 /\ UNCHANGED <<plan, best>>)
         /\ (epoch # None)' => StartTraining \/ Batch \/ EndEpoch
                                \/ (epoch # None /\ Write /\ UNCHANGED <<plan, best, epoch>>)
                                \/ (epoch # None /\ UNCHANGED vars)
<1>1. CASE Invoke
  <2>1. plan' \in Plans /\ Enter(Order[Min({i \in DOMAIN Order : Order[i] \in plan'.stages})])
    BY <1>1 DEF Invoke
  <2>2. PlanTyped(plan') /\ plan'.stages # {}
    BY <2>1, PlansTyped
  <2>3. plan'.stages \in SUBSET Stages
    BY <2>2 DEF PlanTyped
  <2>4. PICK first : first = Order[Min({i \in DOMAIN Order : Order[i] \in plan'.stages})]
    OBVIOUS
  <2>5. "train" \in plan'.stages => first \in {"traces", "train"}
    BY <2>2, <2>3, <2>4, FirstStage
  <2>6. pc' = first /\ epoch' = None
    BY <2>1, <2>4 DEF Enter
  <2>7. ~After'
    BY <2>5, <2>6 DEF After
  <2>8. QED
    BY <1>1, <2>6, <2>7
<1>2. CASE Write
  <2>1. UNCHANGED <<pc, plan, epoch, best>>
    BY <1>2 DEF Write, locals
  <2>2. ~Batch /\ ~EndEpoch /\ ~Finish /\ ~Calibrate /\ ~Invoke
    BY <1>2, BatchIs, EndEpochIs, FinishIs DEF Write, Calibrate, Invoke
  <2>3. QED
    BY <1>2, <2>1, <2>2 DEF Before, After
<1>3. CASE Kill \/ Validate
  <2>1. pc' = "idle" /\ epoch' = None
    BY <1>3 DEF Kill, Validate, Enter
  <2>2. QED
    BY <2>1 DEF Before, After
<1>4. CASE GenerateTrace
  <2>1. pc = "traces" /\ pc' = "traces" /\ UNCHANGED <<epoch, plan, best>>
    BY <1>4 DEF GenerateTrace, At
  <2>2. ~Batch /\ ~EndEpoch /\ ~Finish /\ ~Calibrate /\ ~Invoke
    BY <2>1, BatchIs, EndEpochIs, FinishIs DEF Calibrate, Invoke
  <2>3. epoch = None
    BY <2>1 DEF TypeOK
  <2>4. QED
    BY <2>1, <2>2, <2>3 DEF Before, After
<1>5. CASE EndTraces
  <2>1. /\ pc = "traces" /\ pc' = Following("traces") /\ epoch' = None /\ UNCHANGED plan
    BY <1>5 DEF EndTraces, At, Enter
  <2>2. plan.stages \subseteq Stages
    BY <2>1 DEF TypeOK, PlanOK
  <2>3. ~After'
    BY <2>1, <2>2, NextStage DEF After
  <2>4. ~Batch /\ ~EndEpoch /\ ~Finish /\ ~Calibrate
    BY <2>1, BatchIs, EndEpochIs, FinishIs DEF Calibrate
  <2>5. QED
    BY <2>1, <2>3, <2>4 DEF Before
<1>6. CASE StartTraining
  <2>1. pc = "train" /\ epoch = None /\ (pc' = "idle" \/ epoch' # None)
    <3>1. pc = "train" /\ epoch = None
      BY <1>6, StartIs
    <3>2. CASE Enter("idle")
      BY <3>1, <3>2 DEF Enter
    <3>3. CASE ~Enter("idle")
      <4>1. epoch' \in Nat
        BY <1>6, <3>3, StartIs DEF Checkpoints
      <4>2. QED
        BY <3>1, <4>1, NoneAssumption
    <3>4. QED
      BY <3>2, <3>3
  <2>2. pc' # "traces" /\ pc' # "export" /\ pc' # "validate"
    BY <1>6, <2>1, StartIs DEF Enter
  <2>3. QED
    BY <1>6, <2>1, <2>2 DEF Before, After
<1>7. CASE Batch \/ EndEpoch
  <2>1. pc' = "train" /\ epoch' # None
    <3>1. CASE Batch
      BY <3>1, BatchIs
    <3>2. CASE EndEpoch
      <4>1. pc' = "train" /\ epoch' \in Nat
        BY <3>2, EndEpochIs, SizesAssumption
      <4>2. QED
        BY <4>1, NoneAssumption
    <3>3. QED
      BY <1>7, <3>1, <3>2
  <2>2. QED
    BY <1>7, <2>1 DEF Before, After
<1>8. CASE Finish
  <2>1. pc = "train" /\ pc' = Following("train") /\ epoch' = None /\ PlanOK
    BY <1>8, FinishIs DEF Enter, TypeOK
  <2>2. plan.stages \subseteq Stages
    BY <2>1 DEF PlanOK
  <2>3. pc' \in {"export", "validate", "idle"}
    BY <2>1, <2>2, NextStage
  <2>4. QED
    BY <1>8, <2>1, <2>3 DEF Before
<1>9. CASE Export
  <2>1. /\ pc = "export" /\ epoch' = None /\ UNCHANGED <<plan, best>>
        /\ pc' = "idle" \/ pc' = Following("export")
    BY <1>9, ExportIs DEF Enter
  <2>2. plan.stages \subseteq Stages
    BY <2>1 DEF TypeOK, PlanOK
  <2>3. pc' \in {"validate", "idle"}
    BY <2>1, <2>2, NextStage
  <2>4. ~Batch /\ ~EndEpoch /\ ~Calibrate /\ ~Invoke
    BY <2>1, BatchIs, EndEpochIs DEF Calibrate, Invoke
  <2>5. After' => After
    BY <2>1 DEF After
  <2>6. QED
    BY <2>1, <2>3, <2>4, <2>5 DEF Before
<1>10. CASE Calibrate
  <2>1. pc = "idle" /\ pc' = "idle" /\ UNCHANGED epoch
    BY <1>10 DEF Calibrate, locals
  <2>2. epoch = None
    BY <2>1 DEF TypeOK
  <2>3. QED
    BY <2>1, <2>2 DEF Before, After
<1>11. CASE UNCHANGED vars
  <2>1. UNCHANGED <<pc, writing, plan, best, epoch, runs, queue>>
    BY <1>11 DEF vars, locals
  <2>2. ~Finish /\ ~Invoke /\ ~Calibrate
    BY <2>1, FinishIs DEF Enter, Invoke, Calibrate, TypeOK
  <2>3. Before' <=> Before
    BY <2>1 DEF Before
  <2>4. After' <=> After
    BY <2>1 DEF After
  <2>5. After => ~Batch /\ ~EndEpoch
    BY BatchIs, EndEpochIs DEF After
  <2>6. Before => ~Batch /\ ~EndEpoch
    BY BatchIs, EndEpochIs DEF Before
  <2>7. QED
    BY <1>11, <2>1, <2>2, <2>3, <2>4, <2>5, <2>6
<1>12. QED
  BY <1>1, <1>2, <1>3, <1>4, <1>5, <1>6, <1>7, <1>8, <1>9, <1>10, <1>11 DEF Next, Done

LEMMA NextRunInv == TypeOK /\ RunInv /\ [Next]_vars => RunInv'
<1> SUFFICES ASSUME TypeOK, RunInv, [Next]_vars PROVE RunInv'
  OBVIOUS
<1>1. /\ \A name, c : Stored(name, c) => c.run <= runs
      /\ Before => \A name, c : Stored(name, c) => c.run # runs
      /\ \A name, c : Pending(name, c) => c.run = runs
  BY DEF RunInv
<1>2. runs \in Nat /\ \A name, c : Stored(name, c) => c.run \in Nat
  BY StoredTyped DEF TypeOK, Checkpoints
<1>3. CASE Batch
  <2>1. UNCHANGED runs
    BY <1>3, BatchIs
  <2>2. \A name, c : Pending(name, c)' => c.run = runs
    BY <1>3, BatchStores, ContentsRun
  <2>3. \A name, c : Stored(name, c)' => Stored(name, c) \/ Pending(name, c)'
    BY <1>3, BatchStores DEF Stored
  <2>4. ~Before'
    BY <1>3, BatchIs DEF Before
  <2>5. QED
    BY <1>1, <1>2, <2>1, <2>2, <2>3, <2>4 DEF RunInv
<1>4. CASE EndEpoch
  <2>1. UNCHANGED runs
    BY <1>4, EndEpochIs
  <2>2. \A name, c : Pending(name, c)' => c.run = runs
    BY <1>4, EndEpochStores, ContentsRun
  <2>3. \A name, c : Stored(name, c)' => Stored(name, c) \/ Pending(name, c)'
    BY <1>4, EndEpochStores DEF Stored
  <2>4. ~Before'
    BY <1>4, BeforeAfter, EndEpochIs DEF Invoke
  <2>5. QED
    BY <1>1, <1>2, <2>1, <2>2, <2>3, <2>4 DEF RunInv
<1>5. CASE Finish
  <2>1. UNCHANGED runs
    BY <1>5, FinishIs
  <2>2. \A name, c : Pending(name, c)' => c.run = runs
    BY <1>5, FinishStores, ContentsRun
  <2>3. \A name, c : Stored(name, c)' => Stored(name, c) \/ Pending(name, c)'
    BY <1>5, FinishStores DEF Stored
  <2>4. ~Before'
    BY <1>5, BeforeAfter, FinishIs DEF Invoke
  <2>5. QED
    BY <1>1, <1>2, <2>1, <2>2, <2>3, <2>4 DEF RunInv
<1>6. CASE ~Batch /\ ~EndEpoch /\ ~Finish
  <2>1. \A name, c : (Stored(name, c)' => Stored(name, c)) /\ (Pending(name, c)' => Pending(name, c))
    BY <1>6, OldStores
  <2>2. runs' \in {runs, runs + 1}
    BY RunsCount
  <2>3. \A name, c : Stored(name, c)' => c.run <= runs'
    BY <1>1, <1>2, <2>1, <2>2
  <2>4. \A name, c : Pending(name, c)' => c.run = runs'
    BY <1>1, <2>1, RunsCount
  <2>5. Before' => \A name, c : Stored(name, c)' => c.run # runs'
    <3>1. CASE runs' = runs + 1
      BY <1>1, <1>2, <2>1, <3>1
    <3>2. CASE runs' = runs
      <4>1. ~Invoke
        BY <1>2, <3>2 DEF Invoke
      <4>2. Before' => Before
        BY <4>1, BeforeAfter
      <4>3. QED
        BY <1>1, <2>1, <3>2, <4>2
    <3>3. QED
      BY <2>2, <3>1, <3>2
  <2>6. QED
    BY <2>3, <2>4, <2>5 DEF RunInv
<1>7. QED
  BY <1>3, <1>4, <1>5, <1>6

-----------------------------------------------------------------------------
(* The best checkpoint                                                     *)

\* BestInv in two parts.
BestKnown == best # Inf => \E b : BestIs(b) /\ b.run = runs /\ b.avg = best
BestLow ==
  \A name, c : Stored(name, c) /\ name[1] = "step" /\ c.run = runs => best <= c.avg

LEMMA BestInvIs == BestInv <=> (epoch # None \/ After => BestKnown /\ BestLow)
BY DEF BestInv, BestKnown, BestLow

\* The best stays the best while it is written, and until a better one is.
LEMMA BestStays ==
  ASSUME TypeOK, UNCHANGED <<runs, best>>, BestKnown, BestLow,
         \/ Write
         \/ /\ \A name, c : OnDisk(name, c)' <=> OnDisk(name, c)
            /\ \A name, c : ~Pending(name, c)
            /\ \A name, c : Pending(name, c)' => name[1] \in {"epoch", "final"}
         \/ /\ \A name, c : OnDisk(name, c)' <=> OnDisk(name, c)
            /\ \A name, c : Pending(name, c)' <=> Pending(name, c)
  PROVE  BestKnown' /\ BestLow'
<1>1. CASE Write
  <2>1. BestLow'
    BY <1>1, WriteStores DEF BestLow, Stored
  <2>2. ASSUME best # Inf PROVE \E b : BestIs(b)' /\ b.run = runs /\ b.avg = best
    <3>1. PICK b : BestIs(b) /\ b.run = runs /\ b.avg = best
      BY <2>2 DEF BestKnown
    <3>2. CASE Pending(<<"best">>, b)
      <4>1. CASE Pending(<<"best">>, b)'
        BY <3>1, <4>1 DEF BestIs
      <4>2. CASE ~Pending(<<"best">>, b)'
        <5>1. OnDisk(<<"best">>, b)'
          BY <1>1, <3>2, <4>2, WriteStores
        <5>2. ~IsPending(<<"best">>)'
          <6>1. ASSUME NEW c, Pending(<<"best">>, c)' PROVE c = b
            <7>1. Pending(<<"best">>, c)
              BY <1>1, <6>1, WriteStores
            <7>2. PICK i \in DOMAIN writing : writing[i] = <<<<"ckpt", <<"best">>>>, c>>
              BY <7>1 DEF Pending
            <7>3. PICK j \in DOMAIN writing : writing[j] = <<<<"ckpt", <<"best">>>>, b>>
              BY <3>2 DEF Pending
            <7>4. writing[i][1] = writing[j][1]
              BY <7>2, <7>3
            <7>5. i = j
              BY <7>4 DEF TypeOK
            <7>6. QED
              BY <7>2, <7>3, <7>5
          <6>2. QED
            BY <4>2, <6>1 DEF IsPending
        <5>3. QED
          BY <3>1, <5>1, <5>2 DEF BestIs
      <4>3. QED
        BY <4>1, <4>2
    <3>3. CASE OnDisk(<<"best">>, b) /\ ~IsPending(<<"best">>)
      <4>1. OnDisk(<<"best">>, b)' /\ ~IsPending(<<"best">>)'
        BY <1>1, <3>3, WriteStores DEF IsPending
      <4>2. QED
        BY <3>1, <4>1 DEF BestIs
    <3>4. QED
      BY <3>1, <3>2, <3>3 DEF BestIs
  <2>3. QED
    BY <2>1, <2>2 DEF BestKnown
<1>2. CASE /\ \A name, c : OnDisk(name, c)' <=> OnDisk(name, c)
           /\ \A name, c : ~Pending(name, c)
           /\ \A name, c : Pending(name, c)' => name[1] \in {"epoch", "final"}
  <2>1. BestLow'
    BY <1>2 DEF BestLow, Stored
  <2>2. ASSUME best # Inf PROVE \E b : BestIs(b)' /\ b.run = runs /\ b.avg = best
    <3>1. PICK b : BestIs(b) /\ b.run = runs /\ b.avg = best
      BY <2>2 DEF BestKnown
    <3>2. OnDisk(<<"best">>, b)'
      BY <1>2, <3>1 DEF BestIs
    <3>3. \A c : ~Pending(<<"best">>, c)'
      <4>1. LET n == <<"best">> IN n[1] \notin {"epoch", "final"}
        OBVIOUS
      <4>2. QED
        BY <1>2, <4>1
    <3>4. QED
      BY <3>1, <3>2, <3>3 DEF BestIs, IsPending
  <2>3. QED
    BY <2>1, <2>2 DEF BestKnown
<1>3. CASE /\ \A name, c : OnDisk(name, c)' <=> OnDisk(name, c)
           /\ \A name, c : Pending(name, c)' <=> Pending(name, c)
  <2>1. BestLow'
    BY <1>3 DEF BestLow, Stored
  <2>2. \A b : BestIs(b)' <=> BestIs(b)
    BY <1>3 DEF BestIs, IsPending
  <2>3. QED
    BY <2>1, <2>2 DEF BestKnown
<1>4. QED
  BY <1>1, <1>2, <1>3

LEMMA BatchBest ==
  ASSUME TypeOK, BestKnown, BestLow, Batch
  PROVE  BestKnown' /\ BestLow'
<1>1. UNCHANGED runs /\ \A name, c : OnDisk(name, c)' <=> OnDisk(name, c)
  BY BatchIs, BatchStores
<1>2. \A name, c : ~Pending(name, c)
  BY BatchStores
<1>3. CASE UNCHANGED best /\ \A name, c : ~Pending(name, c)'
  BY <1>1, <1>2, <1>3, BestStays
<1>4. CASE \E avg \in Losses \cup {Inf} :
             /\ avg \in Nat /\ best' = IF avg < best THEN avg ELSE best
             /\ \A name, c : Pending(name, c)' <=>
                  /\ name = <<"step", step'>> \/ (name = <<"best">> /\ avg < best)
                  /\ c = Contents(net', epoch, step', avg)
  <2>1. PICK avg \in Losses \cup {Inf} :
             /\ avg \in Nat /\ best' = IF avg < best THEN avg ELSE best
             /\ \A name, c : Pending(name, c)' <=>
                  /\ name = <<"step", step'>> \/ (name = <<"best">> /\ avg < best)
                  /\ c = Contents(net', epoch, step', avg)
    BY <1>4
  <2>2. PICK k : k = Contents(net', epoch, step', avg)
    OBVIOUS
  <2>3. k.run = runs /\ k.avg = avg
    BY <2>2, ContentsRun
  <2>4. best \in Nat /\ Inf \in Nat /\ \A name, c : Stored(name, c) => c.avg \in Nat
    BY LossAssumption, StoredTyped DEF TypeOK, Checkpoints
  <2>5. best' <= best /\ best' <= avg /\ best' \in Nat
    BY <2>1, <2>4
  <2>6. BestLow'
    <3>1. ASSUME NEW name, NEW c, Stored(name, c)', name[1] = "step", c.run = runs
          PROVE  best' <= c.avg
      <4>1. CASE OnDisk(name, c)'
        <5>1. Stored(name, c)
          BY <1>1, <4>1 DEF Stored
        <5>2. best <= c.avg /\ c.avg \in Nat
          BY <2>4, <3>1, <5>1 DEF BestLow
        <5>3. QED
          BY <2>4, <2>5, <5>2
      <4>2. CASE Pending(name, c)'
        BY <2>1, <2>2, <2>3, <2>4, <2>5, <4>2
      <4>3. QED
        BY <3>1, <4>1, <4>2 DEF Stored
    <3>2. QED
      BY <1>1, <3>1 DEF BestLow
  <2>7. ASSUME best' # Inf PROVE \E b : BestIs(b)' /\ b.run = runs /\ b.avg = best'
    <3>1. CASE avg < best
      <4>1. Pending(<<"best">>, k)'
        BY <2>1, <2>2, <3>1
      <4>2. QED
        BY <2>1, <2>3, <3>1, <4>1 DEF BestIs
    <3>2. CASE ~(avg < best)
      <4>1. best # Inf /\ best' = best
        BY <2>1, <2>4, <2>7, <3>2
      <4>2. PICK b : BestIs(b) /\ b.run = runs /\ b.avg = best
        BY <4>1 DEF BestKnown
      <4>3. OnDisk(<<"best">>, b)'
        BY <1>1, <1>2, <4>2 DEF BestIs
      <4>4. \A c : ~Pending(<<"best">>, c)'
        <5>1. <<"best">> # <<"step", step'>>
          OBVIOUS
        <5>2. QED
          BY <2>1, <3>2, <5>1
      <4>5. QED
        BY <4>1, <4>2, <4>3, <4>4 DEF BestIs, IsPending
    <3>3. QED
      BY <3>1, <3>2
  <2>8. QED
    BY <1>1, <2>6, <2>7 DEF BestKnown
<1>5. QED
  BY <1>3, <1>4, BatchStores

LEMMA NextBestInv == TypeOK /\ RunInv /\ BestInv /\ [Next]_vars => BestInv'
<1> SUFFICES ASSUME TypeOK, RunInv, BestInv, [Next]_vars, (epoch # None \/ After)'
             PROVE  BestKnown' /\ BestLow'
  BY DEF BestInv, BestKnown, BestLow
<1>1. epoch # None \/ After => BestKnown /\ BestLow
  BY BestInvIs
<1>2. CASE Batch
  BY <1>1, <1>2, BatchIs, BatchBest
<1>3. CASE EndEpoch
  <2>1. UNCHANGED <<runs, best>> /\ epoch # None
    BY <1>3, EndEpochIs
  <2>2. \A n : LET name == <<"epoch", n>> IN name[1] \in {"epoch", "final"}
    OBVIOUS
  <2>3. \A name, c : Pending(name, c)' => name[1] \in {"epoch", "final"}
    BY <1>3, <2>2, EndEpochStores
  <2>4. QED
    BY <1>1, <1>3, <2>1, <2>3, EndEpochStores, BestStays
<1>4. CASE Finish
  <2>1. UNCHANGED <<runs, best>> /\ epoch # None
    BY <1>4, FinishIs DEF Enter
  <2>2. LET name == <<"final">> IN name[1] \in {"epoch", "final"}
    OBVIOUS
  <2>3. \A name, c : Pending(name, c)' => name[1] \in {"epoch", "final"}
    BY <1>4, <2>2, FinishStores
  <2>4. QED
    BY <1>1, <1>4, <2>1, <2>3, FinishStores, BestStays
<1>5. CASE StartTraining /\ (epoch # None)'
  <2>1. best' = Inf /\ UNCHANGED runs /\ Before
    BY <1>5, StartIs DEF Enter, Before
  <2>2. \A name, c : Stored(name, c)' => c.run # runs
    BY <1>5, <2>1, OthersStore DEF RunInv, Stored
  <2>3. QED
    BY <2>1, <2>2 DEF BestKnown, BestLow
<1>6. CASE epoch # None /\ Write
  BY <1>1, <1>6, BestStays DEF Write, locals
<1>7. CASE epoch # None /\ UNCHANGED vars
  <2>1. UNCHANGED <<runs, best>>
    BY <1>7 DEF vars, locals
  <2>2. QED
    BY <1>1, <1>7, <2>1, OthersStore, BestStays DEF vars
<1>8. CASE After /\ ~Finish /\ ~Batch /\ ~EndEpoch /\ ~Invoke /\ ~Calibrate /\ UNCHANGED <<plan, best>>
  <2>1. UNCHANGED runs
    BY <1>8, RunsCount
  <2>2. pc \in {"export", "validate"}
    BY <1>8 DEF After
  <2>3. CASE Write
    BY <1>1, <1>8, <2>1, <2>3, BestStays
  <2>4. CASE Export
    <3>1. writing = <<>>
      BY <2>4, ExportIs
    <3>2. \A name, c : ~Pending(name, c)
      BY <3>1 DEF Pending
    <3>3. \A name, c : OnDisk(name, c)' <=> OnDisk(name, c)
      BY <2>4, OthersStore
    <3>4. \A name, c : Pending(name, c)' <=> Pending(name, c)
      BY <2>4, <3>2, OthersStore
    <3>5. QED
      BY <1>1, <1>8, <2>1, <3>3, <3>4, BestStays
  <2>5. CASE UNCHANGED vars
    BY <1>1, <1>8, <2>1, <2>5, OthersStore, BestStays DEF vars
  <2>6. CASE Kill \/ Validate
    <3>1. pc' = "idle" /\ epoch' = None
      BY <2>6 DEF Kill, Validate, Enter
    <3>2. QED
      BY <3>1 DEF After
  <2>7. ~GenerateTrace /\ ~EndTraces /\ ~StartTraining
    BY <2>2 DEF GenerateTrace, EndTraces, StartTraining, At
  <2>8. QED
    BY <1>8, <2>3, <2>4, <2>5, <2>6, <2>7 DEF Next, Done
<1>9. QED
  BY <1>2, <1>3, <1>4, <1>5, <1>6, <1>7, <1>8, BeforeAfter

\* A checkpoint of a step of this run, on disk, with an average to compare; best.pt is
\* as good as c.
Mine(name, c) == OnDisk(name, c) /\ name[1] = "step" /\ c.run = runs /\ c.avg < Inf
Covered(c) == \E b : OnDisk(<<"best">>, b) /\ b.run = runs /\ b.avg <= c.avg
AllCovered == \A name, c : Mine(name, c) => Covered(c)

\* All but the checkpoint of step k, which is the last.
CoveredBefore(k) == \A name, c : Mine(name, c) => name[2] <= k /\ (name[2] < k => Covered(c))

\* What training has still to write, and what it has not written.
BestDue == writing # <<>> /\ writing[1][1] = <<"ckpt", <<"best">>>>
NoFinal == \A c : Stored(<<"final">>, c) => c.run # runs
Steps == \A name, c : Stored(name, c) /\ name[1] = "step" /\ c.run = runs => name[2] <= step
Pair ==
  Len(writing) = 2 =>
    writing[1][1] = <<"ckpt", <<"step", step>>>> /\ writing[2][1] = <<"ckpt", <<"best">>>>

\* A training that was killed lost the comparison with its last step, or best.pt.
TornBest == <<"best">> \in DOMAIN ckpts /\ ckpts[<<"best">>] = Torn
Stopped ==
  /\ pc = "idle" /\ writing = <<>> /\ NoFinal
  /\ TornBest \/ \E k \in Nat : CoveredBefore(k)

DiskInv ==
  /\ epoch # None => NoFinal /\ Steps /\ Pair
  /\ epoch = None => \A name, c : Pending(name, c) => name = <<"final">>
  /\ \/ AllCovered
     \/ epoch # None /\ BestDue /\ CoveredBefore(step)
     \/ Stopped

\* With nothing left to write, best.pt is what best_loss says.
LEMMA NothingDue ==
  TypeOK /\ BestInv /\ epoch # None /\ writing = <<>> => AllCovered
<1> SUFFICES ASSUME TypeOK, BestInv, epoch # None, writing = <<>>,
                    NEW name, NEW c, Mine(name, c)
             PROVE  Covered(c)
  BY DEF AllCovered
<1>1. BestKnown /\ BestLow
  BY BestInvIs
<1>2. best <= c.avg
  BY <1>1 DEF BestLow, Mine, Stored
<1>3. best \in Nat /\ Inf \in Nat /\ c.avg \in Nat /\ c.avg < Inf
  BY LossAssumption DEF TypeOK, Mine, OnDisk, Checkpoints
<1>4. PICK b : BestIs(b) /\ b.run = runs /\ b.avg = best
  BY <1>1, <1>2, <1>3 DEF BestKnown
<1>5. OnDisk(<<"best">>, b)
  BY <1>4 DEF BestIs, Pending
<1>6. QED
  BY <1>2, <1>4, <1>5 DEF Covered

\* Nothing else on disk matters.
LEMMA CoverKept ==
  ASSUME UNCHANGED runs,
         \A name, c : name[1] = "step" => (OnDisk(name, c)' => OnDisk(name, c)),
         \A c : OnDisk(<<"best">>, c) => OnDisk(<<"best">>, c)'
  PROVE  /\ AllCovered => AllCovered'
         /\ \A k : CoveredBefore(k) => CoveredBefore(k)'
<1>1. \A name, c : Mine(name, c)' => Mine(name, c)
  BY DEF Mine
<1>2. \A c : Covered(c) => Covered(c)'
  BY DEF Covered
<1>3. QED
  BY <1>1, <1>2 DEF AllCovered, CoveredBefore

\* The other checkpoints stay when one is written, or torn.
LEMMA SaveKeeps ==
  ASSUME TypeOK, writing # <<>>, NEW contents, Save(writing[1][1], contents)
  PROVE  /\ \A name, c : writing[1][1] # <<"ckpt", name>> => (OnDisk(name, c)' <=> OnDisk(name, c))
         /\ \A name : writing[1][1] = <<"ckpt", name>> =>
              name \in DOMAIN ckpts' /\ ckpts'[name] = contents
<1>1. CASE UNCHANGED ckpts /\ \A n : writing[1][1] # <<"ckpt", n>>
  BY <1>1 DEF OnDisk
<1>2. CASE \E n \in CheckpointNames :
             /\ writing[1][1] = <<"ckpt", n>>
             /\ ckpts' = [x \in DOMAIN ckpts \cup {n} |-> IF x = n THEN contents ELSE ckpts[x]]
  <2>1. PICK n \in CheckpointNames :
             /\ writing[1][1] = <<"ckpt", n>>
             /\ ckpts' = [x \in DOMAIN ckpts \cup {n} |-> IF x = n THEN contents ELSE ckpts[x]]
    BY <1>2
  <2>2. \A name : writing[1][1] = <<"ckpt", name>> <=> name = n
    BY <2>1
  <2>3. ASSUME NEW name, NEW c, name # n PROVE OnDisk(name, c)' <=> OnDisk(name, c)
    BY <2>1, <2>3 DEF OnDisk
  <2>4. n \in DOMAIN ckpts' /\ ckpts'[n] = contents
    BY <2>1
  <2>5. QED
    BY <2>2, <2>3, <2>4
<1>3. (\E p \in Prompts : writing[1][1] = <<"trace", p>>)
      \/ (\E f \in {"model", "named"} : writing[1][1] = <<"out", f>>)
      => \A n : writing[1][1] # <<"ckpt", n>>
  <2>1. PICK w : w = writing[1][1]
    OBVIOUS
  <2>2. (\E p \in Prompts : w = <<"trace", p>>) \/ (\E f \in {"model", "named"} : w = <<"out", f>>)
        => \A n : w # <<"ckpt", n>>
    OBVIOUS
  <2>3. QED
    BY <2>1, <2>2
<1>4. QED
  BY <1>1, <1>2, <1>3, SaveIs

\* The first file, if it is a checkpoint, is pending.
LEMMA FirstPending ==
  ASSUME TypeOK, writing # <<>>, NEW name, writing[1][1] = <<"ckpt", name>>
  PROVE  \E c : Pending(name, c)
<1>1. 1 \in DOMAIN writing /\ writing[1] \in Files
  BY FirstFile
<1>2. PICK c : c = writing[1][2]
  OBVIOUS
<1>3. writing[1] = <<<<"ckpt", name>>, c>>
  BY <1>1, <1>2 DEF Files
<1>4. QED
  BY <1>1, <1>3 DEF Pending

LEMMA WriteDiskInv ==
  ASSUME TypeOK, DiskInv, TypeOK', BestInv', Write
  PROVE  DiskInv'
<1>1. /\ writing # <<>> /\ writing' = Tail(writing) /\ Save(writing[1][1], writing[1][2])
      /\ UNCHANGED <<runs, pc, epoch, step, best>>
  BY DEF Write, locals
<1>2. PICK contents : Save(writing[1][1], contents)
  BY <1>1
<1>3. AllCovered \/ (epoch # None /\ BestDue /\ CoveredBefore(step))
  BY <1>1 DEF DiskInv, Stopped
<1>4. /\ \A name, c : Pending(name, c)' => Pending(name, c)
      /\ \A name, c : Stored(name, c)' => Stored(name, c)
  BY WriteStores DEF Stored
<1>5. Len(writing) \in 1..2 /\ Len(writing') = Len(writing) - 1
      /\ DOMAIN writing' = 1..(Len(writing) - 1)
      /\ \A i \in DOMAIN writing' : i + 1 \in DOMAIN writing /\ writing'[i] = writing[i + 1]
  BY <1>1, FirstFile, TailFiles
<1>6. epoch' # None => NoFinal' /\ Steps' /\ Pair'
  <2>1. Pair'
    <3>1. Len(writing') # 2
      BY <1>5
    <3>2. QED
      BY <3>1 DEF Pair
  <2>2. QED
    BY <1>1, <1>4, <2>1 DEF DiskInv, NoFinal, Steps
<1>7. epoch' = None => \A name, c : Pending(name, c)' => name = <<"final">>
  BY <1>1, <1>4 DEF DiskInv
<1>8. CASE epoch = None
  <2>1. \A name : writing[1][1] = <<"ckpt", name>> => name = <<"final">>
    BY <1>1, <1>8, FirstPending DEF DiskInv
  <2>2. \A name : name[1] \in {"step", "best"} => name # <<"final">>
    <3>1. LET n == <<"final">> IN n[1] = "final"
      OBVIOUS
    <3>2. QED
      BY <3>1
  <2>3. \A name : name[1] \in {"step", "best"} => writing[1][1] # <<"ckpt", name>>
    BY <2>1, <2>2
  <2>4. LET n == <<"best">> IN n[1] = "best"
    OBVIOUS
  <2>5. \A name, c : name[1] = "step" => (OnDisk(name, c)' => OnDisk(name, c))
    BY <1>1, <1>2, <2>3, SaveKeeps
  <2>6. \A c : OnDisk(<<"best">>, c) => OnDisk(<<"best">>, c)'
    BY <1>1, <1>2, <2>3, <2>4, SaveKeeps
  <2>7. AllCovered'
    BY <1>1, <1>3, <1>8, <2>5, <2>6, CoverKept
  <2>8. QED
    BY <1>6, <1>7, <2>7 DEF DiskInv
<1>9. CASE epoch # None /\ writing' = <<>>
  <2>1. epoch' # None
    BY <1>1, <1>9
  <2>2. (TypeOK /\ BestInv /\ epoch # None /\ writing = <<>> => AllCovered)'
    BY NothingDue, PTL
  <2>3. QED
    BY <1>6, <1>7, <1>9, <2>1, <2>2 DEF DiskInv
<1>10. CASE epoch # None /\ writing' # <<>>
  <2>1. Len(writing) = 2
    <3>1. writing' \in Seq(Files)
      BY DEF TypeOK
    <3>2. Len(writing') # 0
      BY <1>10, <3>1
    <3>3. QED
      BY <1>5, <3>2
  <2>2. writing[1][1] = <<"ckpt", <<"step", step>>>> /\ writing[2][1] = <<"ckpt", <<"best">>>>
    BY <1>10, <2>1 DEF DiskInv, Pair
  <2>3. ~BestDue
    BY <2>2 DEF BestDue
  <2>4. AllCovered
    BY <1>3, <2>3
  <2>5. BestDue'
    <3>1. writing'[1] = writing[2]
      BY <1>5, <2>1
    <3>2. QED
      BY <1>10, <2>2, <3>1 DEF BestDue
  <2>6. \A c : OnDisk(<<"best">>, c) => OnDisk(<<"best">>, c)'
    <3>1. writing[1][1] # <<"ckpt", <<"best">>>>
      BY <2>2
    <3>2. QED
      BY <1>1, <1>2, <3>1, SaveKeeps
  <2>7. ASSUME NEW name, NEW c, Mine(name, c)'
        PROVE  name[2] <= step' /\ (name[2] < step' => Covered(c)')
    <3>1. name[2] <= step'
      BY <1>1, <1>6, <1>10, <2>7 DEF Mine, Stored, Steps
    <3>2. CASE name[2] < step'
      <4>1. name # <<"step", step>>
        <5>1. name = <<"step", step>> => name[2] = step
          OBVIOUS
        <5>2. QED
          BY <1>1, <3>2, <5>1 DEF TypeOK
      <4>2. writing[1][1] # <<"ckpt", name>>
        BY <2>2, <4>1
      <4>3. OnDisk(name, c)
        BY <1>1, <1>2, <2>7, <4>2, SaveKeeps DEF Mine
      <4>4. Mine(name, c)
        BY <1>1, <2>7, <4>3 DEF Mine
      <4>5. Covered(c)
        BY <2>4, <4>4 DEF AllCovered
      <4>6. QED
        BY <1>1, <2>6, <3>1, <4>5 DEF Covered
    <3>3. QED
      BY <3>1, <3>2
  <2>8. CoveredBefore(step)'
    BY <2>7 DEF CoveredBefore
  <2>9. QED
    BY <1>1, <1>6, <1>7, <1>10, <2>5, <2>8 DEF DiskInv
<1>11. QED
  BY <1>8, <1>9, <1>10

LEMMA KillDiskInv ==
  ASSUME TypeOK, DiskInv, Kill
  PROVE  DiskInv'
<1>1. /\ writing' = <<>> /\ pc' = "idle" /\ epoch' = None /\ UNCHANGED runs
      /\ pc # "idle" \/ writing # <<>>
      /\ UNCHANGED disk \/ (writing # <<>> /\ Save(writing[1][1], Torn))
  BY DEF Kill, Enter
<1>2. \A name, c : ~Pending(name, c)'
  BY KillStores
<1>3. \A name, c : OnDisk(name, c)' => OnDisk(name, c)
  BY KillStores
<1>4. NoFinal => NoFinal'
  BY <1>1, <1>2, <1>3 DEF NoFinal, Stored
<1>5. epoch # None => NoFinal
  BY DEF DiskInv
<1>6. SUFFICES AllCovered' \/ Stopped'
  BY <1>1, <1>2 DEF DiskInv
<1>7. AllCovered \/ (epoch # None /\ BestDue /\ CoveredBefore(step))
  BY <1>1 DEF DiskInv, Stopped
<1>8. CASE UNCHANGED disk
  <2>1. \A c : OnDisk(<<"best">>, c) => OnDisk(<<"best">>, c)'
    BY <1>8, DiskKept
  <2>2. /\ AllCovered => AllCovered'
        /\ \A k : CoveredBefore(k) => CoveredBefore(k)'
    BY <1>1, <1>3, <2>1, CoverKept
  <2>3. PICK k \in Nat : k = step
    BY DEF TypeOK
  <2>4. CASE epoch # None /\ BestDue /\ CoveredBefore(step)
    <3>1. CoveredBefore(k)'
      BY <2>2, <2>3, <2>4
    <3>2. QED
      BY <1>1, <1>4, <1>5, <2>4, <3>1 DEF Stopped
  <2>5. QED
    BY <1>7, <2>2, <2>4
<1>9. CASE writing # <<>> /\ Save(writing[1][1], Torn) /\ BestDue
  <2>1. TornBest'
    BY <1>9, SaveKeeps DEF BestDue, TornBest
  <2>2. epoch # None
    <3>1. \E c : Pending(<<"best">>, c)
      BY <1>9, FirstPending DEF BestDue
    <3>2. <<"best">> # <<"final">>
      OBVIOUS
    <3>3. QED
      BY <3>1, <3>2 DEF DiskInv
  <2>3. QED
    BY <1>1, <1>4, <1>5, <2>1, <2>2 DEF Stopped
<1>10. CASE writing # <<>> /\ Save(writing[1][1], Torn) /\ ~BestDue
  <2>1. \A c : OnDisk(<<"best">>, c) => OnDisk(<<"best">>, c)'
    BY <1>10, SaveKeeps DEF BestDue
  <2>2. QED
    BY <1>1, <1>3, <1>7, <1>10, <2>1, CoverKept
<1>11. QED
  BY <1>1, <1>8, <1>9, <1>10

LEMMA NextDiskInv ==
  TypeOK /\ RunInv /\ BestInv /\ DiskInv /\ [Next]_vars /\ TypeOK' /\ BestInv' => DiskInv'
<1> SUFFICES ASSUME TypeOK, RunInv, BestInv, DiskInv, [Next]_vars, TypeOK', BestInv'
             PROVE  DiskInv'
  OBVIOUS
<1>1. CASE Write
  BY <1>1, WriteDiskInv
<1>2. CASE Kill
  BY <1>2, KillDiskInv
<1>3. CASE Invoke \/ Calibrate
  <2>1. /\ runs' = runs + 1 /\ runs \in Nat /\ epoch' = None /\ \A name, c : ~Pending(name, c)
    BY <1>3, RunsCount DEF Invoke, Calibrate, Enter, locals, Pending, TypeOK
  <2>2. \A name, c : (Stored(name, c)' => Stored(name, c)) /\ (Pending(name, c)' => Pending(name, c))
    <3>1. runs' # runs
      BY <2>1
    <3>2. ~Batch /\ ~EndEpoch /\ ~Finish
      BY <3>1, BatchIs, EndEpochIs, FinishIs
    <3>3. QED
      BY <3>2, OldStores
  <2>3. ASSUME NEW name, NEW c, Mine(name, c)' PROVE FALSE
    <3>1. Stored(name, c)
      BY <2>2, <2>3 DEF Mine, Stored
    <3>2. c.run <= runs /\ c.run = runs + 1
      BY <2>1, <2>3, <3>1 DEF RunInv, Mine
    <3>3. QED
      BY <2>1, <3>2
  <2>4. QED
    BY <2>1, <2>2, <2>3 DEF DiskInv, AllCovered
<1>4. CASE Batch
  <2>1. /\ UNCHANGED <<runs, epoch>> /\ epoch # None /\ writing = <<>>
        /\ step \in Nat /\ step' \in Nat /\ step <= step'
    BY <1>4, BatchIs DEF TypeOK
  <2>2. \A name, c : OnDisk(name, c)' <=> OnDisk(name, c)
    BY <1>4, BatchStores
  <2>3. \A name, c : Pending(name, c)' => name \in {<<"step", step'>>, <<"best">>}
    BY <1>4, BatchStores
  <2>4. AllCovered'
    BY <2>1, <2>2, NothingDue, CoverKept
  <2>5. NoFinal'
    <3>1. <<"final">> \notin {<<"step", step'>>, <<"best">>}
      OBVIOUS
    <3>2. \A c : ~Pending(<<"final">>, c)'
      BY <2>3, <3>1
    <3>3. QED
      BY <2>1, <2>2, <3>2 DEF DiskInv, NoFinal, Stored
  <2>6. ASSUME NEW name, NEW c, Stored(name, c)', name[1] = "step", c.run = runs'
        PROVE  name[2] <= step'
    <3>1. CASE OnDisk(name, c)'
      <4>1. Stored(name, c)
        BY <2>2, <3>1 DEF Stored
      <4>2. name[2] <= step
        BY <2>1, <2>6, <4>1 DEF DiskInv, Steps
      <4>3. name[2] \in Nat
        BY <2>6, <4>1, StoredTyped DEF CheckpointNames
      <4>4. QED
        BY <2>1, <4>2, <4>3
    <3>2. CASE Pending(name, c)'
      <4>1. name # <<"best">>
        BY <2>6
      <4>2. name[2] = step'
        BY <2>3, <3>2, <4>1
      <4>3. QED
        BY <2>1, <4>2
    <3>3. QED
      BY <2>6, <3>1, <3>2 DEF Stored
  <2>7. Pair'
    BY <1>4, <2>1, BatchIs DEF Pair, Checkpoint
  <2>8. QED
    BY <2>1, <2>4, <2>5, <2>6, <2>7 DEF DiskInv, Steps
<1>5. CASE EndEpoch
  <2>1. /\ UNCHANGED <<runs, step>> /\ epoch # None /\ epoch' # None /\ writing = <<>>
        /\ Len(writing') = 1
    <3>1. UNCHANGED <<runs, step>> /\ epoch # None /\ writing = <<>>
      BY <1>5, EndEpochIs
    <3>2. epoch' \in Nat
      BY <1>5, EndEpochIs, SizesAssumption
    <3>3. \E f : writing' = <<f>>
      BY <1>5, EndEpochIs
    <3>4. QED
      BY <3>1, <3>2, <3>3, NoneAssumption
  <2>2. \A name, c : OnDisk(name, c)' <=> OnDisk(name, c)
    BY <1>5, EndEpochStores
  <2>3. \A name, c : Pending(name, c)' => name = <<"epoch", epoch + 1>>
    BY <1>5, EndEpochStores
  <2>4. AllCovered'
    BY <2>1, <2>2, NothingDue, CoverKept
  <2>5. ASSUME NEW name, NEW c, name = <<"final">> \/ name[1] = "step", Stored(name, c)'
        PROVE  Stored(name, c)
    <3>1. name # <<"epoch", epoch + 1>>
      BY <2>5
    <3>2. QED
      BY <2>2, <2>3, <2>5, <3>1 DEF Stored
  <2>6. NoFinal' /\ Steps'
    BY <2>1, <2>5 DEF DiskInv, NoFinal, Steps
  <2>7. Pair'
    BY <2>1 DEF Pair
  <2>8. QED
    BY <2>1, <2>4, <2>6, <2>7 DEF DiskInv
<1>6. CASE Finish
  <2>1. UNCHANGED runs /\ epoch # None /\ epoch' = None /\ writing = <<>>
    BY <1>6, FinishIs DEF Enter
  <2>2. AllCovered'
    BY <1>6, <2>1, FinishStores, NothingDue, CoverKept
  <2>3. QED
    BY <1>6, <2>1, <2>2, FinishStores DEF DiskInv
<1>7. CASE StartTraining
  <2>1. pc = "train" /\ epoch = None /\ writing = <<>> /\ UNCHANGED <<runs, writing>>
    BY <1>7, StartIs
  <2>2. \A name, c : OnDisk(name, c)' <=> OnDisk(name, c)
    BY <1>7, OthersStore
  <2>3. \A name, c : ~Pending(name, c)'
    BY <2>1 DEF Pending
  <2>4. AllCovered'
    BY <2>1, <2>2, CoverKept DEF DiskInv, Stopped
  <2>5. \A name, c : Stored(name, c)' => c.run # runs'
    BY <2>1, <2>2, <2>3 DEF RunInv, Before, Stored
  <2>6. NoFinal' /\ Steps'
    BY <2>5 DEF NoFinal, Steps
  <2>7. Pair'
    BY <2>1 DEF Pair
  <2>8. QED
    BY <2>3, <2>4, <2>6, <2>7 DEF DiskInv
<1>8. CASE GenerateTrace \/ EndTraces \/ Export \/ Validate
  <2>1. epoch = None /\ pc # "idle" /\ epoch' = None /\ UNCHANGED runs
    BY <1>8, ExportIs DEF GenerateTrace, EndTraces, Validate, At, Enter, TypeOK
  <2>2. /\ \A name, c : OnDisk(name, c)' <=> OnDisk(name, c)
        /\ \A name, c : Pending(name, c)' => Pending(name, c)
    BY <1>8, OthersStore
  <2>3. AllCovered'
    BY <2>1, <2>2, CoverKept DEF DiskInv, Stopped
  <2>4. QED
    BY <2>1, <2>2, <2>3 DEF DiskInv
<1>9. CASE UNCHANGED vars
  <2>1. UNCHANGED <<ckpts, runs, pc, writing, epoch, step>>
    BY <1>9 DEF vars, disk, locals
  <2>2. /\ \A name, c : OnDisk(name, c)' <=> OnDisk(name, c)
        /\ \A name, c : Pending(name, c)' <=> Pending(name, c)
    BY <2>1 DEF OnDisk, Pending
  <2>3. /\ AllCovered => AllCovered'
        /\ \A k : CoveredBefore(k) => CoveredBefore(k)'
    BY <2>1, <2>2, CoverKept
  <2>4. NoFinal => NoFinal'
    BY <2>1, <2>2 DEF NoFinal, Stored
  <2>5. (Steps => Steps') /\ (Pair => Pair') /\ (BestDue => BestDue') /\ (TornBest => TornBest')
    BY <2>1, <2>2 DEF Steps, Pair, BestDue, TornBest, Stored
  <2>6. Stopped => Stopped'
    BY <2>1, <2>3, <2>4, <2>5 DEF Stopped
  <2>7. CoveredBefore(step) => CoveredBefore(step)'
    <3>1. PICK k : k = step
      OBVIOUS
    <3>2. CoveredBefore(step) => CoveredBefore(k)'
      BY <2>3, <3>1
    <3>3. QED
      BY <2>1, <3>1, <3>2 DEF CoveredBefore
  <2>8. QED
    BY <2>1, <2>2, <2>3, <2>4, <2>5, <2>6, <2>7 DEF DiskInv
<1>10. QED
  BY <1>1, <1>2, <1>3, <1>4, <1>5, <1>6, <1>7, <1>8, <1>9 DEF Next, Done

LEMMA CoversIs ==
  ASSUME TypeOK, NEW names \in SUBSET Saved, \A name \in names : Covered(ckpts[name])
  PROVE  BestCovers(names)
<1> SUFFICES ASSUME NEW name \in names
             PROVE  /\ <<"best">> \in DOMAIN ckpts /\ Whole(ckpts[<<"best">>])
                    /\ ckpts[<<"best">>].run = runs
                    /\ ckpts[<<"best">>].avg <= ckpts[name].avg
  BY DEF BestCovers
<1>1. PICK b : OnDisk(<<"best">>, b) /\ b.run = runs /\ b.avg <= ckpts[name].avg
  BY DEF Covered
<1>2. QED
  BY <1>1, NoneAssumption DEF OnDisk, Whole

\* At any time best.pt is this run's own and at least as good as every checkpoint of a
\* step that the run has saved, but for what a kill between the two files of a step can
\* cost: however many blocks save the same step, resumed from whatever checkpoint, and
\* whatever earlier, killed trainings left (train.py:132-191).
THEOREM BestIsTheLowest == Spec => []BestIsLowest
<1>1. Init => RunInv /\ BestInv /\ DiskInv
  BY DEF Init, RunInv, BestInv, DiskInv, Before, After, Stored, Pending, OnDisk, AllCovered, Mine
<1>2. TypeOK /\ DiskInv => BestIsLowest
  <2> SUFFICES ASSUME TypeOK, DiskInv PROVE BestIsLowest
    OBVIOUS
  <2>1. \A name \in Saved : Mine(name, ckpts[name])
    BY DEF Saved, Mine, OnDisk, TypeOK, Whole
  <2>2. AllCovered => BestCovers(Saved)
    BY <2>1, CoversIs DEF AllCovered
  <2>3. ASSUME NEW k \in Nat, CoveredBefore(k) PROVE BestCovers(BeforeLast(Saved))
    <3>1. ASSUME NEW name \in BeforeLast(Saved) PROVE Covered(ckpts[name])
      <4>1. PICK later \in Saved : name \in Saved /\ later[2] > name[2]
        BY <3>1 DEF BeforeLast
      <4>2. later[2] \in Nat /\ name[2] \in Nat
        BY <4>1 DEF Saved, TypeOK, CheckpointNames
      <4>3. later[2] <= k
        BY <2>1, <2>3, <4>1 DEF CoveredBefore
      <4>4. name[2] < k
        BY <4>1, <4>2, <4>3
      <4>5. QED
        BY <2>1, <2>3, <4>1, <4>4 DEF CoveredBefore
    <3>2. BeforeLast(Saved) \in SUBSET Saved
      BY DEF BeforeLast
    <3>3. QED
      BY <3>1, <3>2, CoversIs
  <2>4. BestDue <=> writing # <<>> /\ writing[1][1] = <<"ckpt", <<"best">>>>
    BY DEF BestDue
  <2>5. Stopped => Unfinished
    <3>1. SUFFICES ASSUME Stopped, <<"final">> \in DOMAIN ckpts, Whole(ckpts[<<"final">>]),
                          ckpts[<<"final">>].run = runs
                   PROVE  FALSE
      BY DEF Unfinished, Stopped
    <3>2. ckpts[<<"final">>] \in Checkpoints
      BY <3>1 DEF TypeOK, Whole
    <3>3. QED
      BY <3>1, <3>2 DEF Stopped, NoFinal, Stored, OnDisk
  <2>6. step \in Nat
    BY DEF TypeOK
  <2>7. QED
    BY <2>2, <2>3, <2>4, <2>5, <2>6 DEF DiskInv, BestIsLowest, Stopped, TornBest
<1>3. QED
  BY <1>1, <1>2, NextRunInv, NextBestInv, NextDiskInv, TypeCorrect, PTL DEF Spec

-----------------------------------------------------------------------------
(* What is exported                                                        *)

\* A file of this run is overwritten only by one of this run.
LEMMA OursKept ==
  ASSUME TypeOK, RunInv, UNCHANGED runs, NEW name, Ours(name),
         \/ Write
         \/ /\ \A n, c : OnDisk(n, c)' <=> OnDisk(n, c)
            /\ \A n, c : ~Pending(n, c)
         \/ /\ \A n, c : OnDisk(n, c)' <=> OnDisk(n, c)
            /\ \A n, c : Pending(n, c)' <=> Pending(n, c)
  PROVE  Ours(name)'
<1>1. PICK c : Stored(name, c) /\ c.run = runs
  BY DEF Ours
<1>2. CASE Write
  <2>1. CASE Pending(name, c)
    <3>1. Stored(name, c)'
      BY <1>2, <2>1, WriteStores DEF Stored
    <3>2. QED
      BY <1>1, <3>1 DEF Ours
  <2>2. CASE OnDisk(name, c)
    <3>1. CASE OnDisk(name, c)'
      BY <1>1, <3>1 DEF Ours, Stored
    <3>2. CASE ~OnDisk(name, c)'
      <4>1. PICK d : Pending(name, d)
        BY <1>2, <2>2, <3>2, WriteStores
      <4>2. d.run = runs
        BY <4>1 DEF RunInv
      <4>3. Stored(name, d)'
        BY <1>2, <4>1, WriteStores DEF Stored
      <4>4. QED
        BY <4>2, <4>3 DEF Ours
    <3>3. QED
      BY <3>1, <3>2
  <2>3. QED
    BY <1>1, <2>1, <2>2 DEF Stored
<1>3. CASE /\ \A n, d : OnDisk(n, d)' <=> OnDisk(n, d)
           /\ \A n, d : ~Pending(n, d)
  <2>1. Stored(name, c)'
    BY <1>1, <1>3 DEF Stored
  <2>2. QED
    BY <1>1, <2>1 DEF Ours
<1>4. CASE /\ \A n, d : OnDisk(n, d)' <=> OnDisk(n, d)
           /\ \A n, d : Pending(n, d)' <=> Pending(n, d)
  <2>1. Stored(name, c)'
    BY <1>1, <1>4 DEF Stored
  <2>2. QED
    BY <1>1, <2>1 DEF Ours
<1>5. QED
  BY <1>2, <1>3, <1>4

\* ExportInv in parts.
Training == epoch # None /\ Both => epoch <= Epochs /\ (epoch # 0 => Ours(<<"epoch", epoch>>))
TrainedAll == pc = "export" /\ Both => Ours(<<"final">>) /\ Ours(<<"epoch", Epochs>>)
ModelWritten(m) == \E i \in DOMAIN writing : writing[i] = <<<<"out", "model">>, m>>
ModelDone == \A i \in DOMAIN writing : writing[i][1] # <<"out", "model">>
ExportedModel ==
  \/ Exported(models["model"]) /\ ModelDone
  \/ \E m : ModelWritten(m) /\ Exported(m)
OnlyOuts == \A i \in DOMAIN writing : writing[i][1][1] = "out"

LEMMA ExportInvIs ==
  ASSUME TypeOK
  PROVE  ExportInv <=> /\ Training /\ TrainedAll
                       /\ pc = "validate" /\ Both => ExportedModel /\ OnlyOuts
<1>1. \A i \in DOMAIN writing : writing[i] = <<writing[i][1], writing[i][2]>>
  <2>1. SUFFICES ASSUME NEW i \in DOMAIN writing PROVE writing[i] = <<writing[i][1], writing[i][2]>>
    OBVIOUS
  <2>2. writing \in Seq(Files)
    BY DEF TypeOK
  <2>3. i \in 1..Len(writing)
    BY <2>2, LenProperties
  <2>4. writing[i] \in Files
    BY <2>2, <2>3, ElementOfSeq
  <2>5. QED
    BY <2>4 DEF Files
<1>2. (\E i \in DOMAIN writing : writing[i][1] = <<"out", "model">> /\ Exported(writing[i][2]))
      <=> \E m : ModelWritten(m) /\ Exported(m)
  <2>1. ASSUME NEW i \in DOMAIN writing, writing[i][1] = <<"out", "model">>, Exported(writing[i][2])
        PROVE  \E m : ModelWritten(m) /\ Exported(m)
    <3>1. writing[i] = <<<<"out", "model">>, writing[i][2]>>
      BY <1>1, <2>1
    <3>2. QED
      BY <2>1, <3>1 DEF ModelWritten
  <2>2. ASSUME NEW m, ModelWritten(m), Exported(m)
        PROVE  \E i \in DOMAIN writing : writing[i][1] = <<"out", "model">> /\ Exported(writing[i][2])
    <3>1. PICK i \in DOMAIN writing : writing[i] = <<<<"out", "model">>, m>>
      BY <2>2 DEF ModelWritten
    <3>2. writing[i][1] = <<"out", "model">> /\ writing[i][2] = m
      BY <3>1
    <3>3. QED
      BY <2>2, <3>2
  <2>3. QED
    BY <2>1, <2>2
<1>3. QED
  BY <1>2 DEF ExportInv, Training, TrainedAll, ExportedModel, ModelDone, OnlyOuts

LEMMA ExportedKept ==
  ASSUME UNCHANGED <<ckpts, runs>>
  PROVE  \A m : Exported(m)' <=> Exported(m)
BY DEF Exported

\* The exported model is on disk once it has been written, and stays there.
LEMMA WriteExport ==
  ASSUME TypeOK, Write, ExportedModel, OnlyOuts
  PROVE  ExportedModel' /\ OnlyOuts'
<1>1. writing # <<>> /\ Save(writing[1][1], writing[1][2]) /\ writing' = Tail(writing)
      /\ UNCHANGED runs
  BY DEF Write
<1>2. /\ Len(writing) \in 1..2 /\ DOMAIN writing = 1..Len(writing)
      /\ DOMAIN writing' = 1..(Len(writing) - 1)
      /\ \A i \in DOMAIN writing' : i + 1 \in DOMAIN writing /\ writing'[i] = writing[i + 1]
  BY <1>1, FirstFile, TailFiles
<1>3. 1 \in DOMAIN writing
  BY <1>2
<1>4. writing[1][1][1] = "out"
  BY <1>3 DEF OnlyOuts
<1>5. PICK f \in {"model", "named"} :
        /\ writing[1][1] = <<"out", f>>
        /\ models' = [models EXCEPT ![f] = writing[1][2]] /\ UNCHANGED <<traces, ckpts>>
  <2>1. PICK v : v = writing[1][2]
    OBVIOUS
  <2>2. Save(writing[1][1], v)
    BY <1>1, <2>1
  <2>3. \/ \E p \in Prompts : writing[1][1] = <<"trace", p>>
        \/ \E n \in CheckpointNames : writing[1][1] = <<"ckpt", n>>
        \/ \E f \in {"model", "named"} :
             /\ writing[1][1] = <<"out", f>>
             /\ models' = [models EXCEPT ![f] = v] /\ UNCHANGED <<traces, ckpts>>
    BY <1>1, <2>2, SaveIs
  <2>4. QED
    BY <1>4, <2>1, <2>3
<1>6. models \in [{"model", "named"} -> Exports \cup {None, Torn}]
  BY DEF TypeOK
<1>7. \A m : Exported(m)' <=> Exported(m)
  BY <1>1, <1>5, ExportedKept
<1>8. OnlyOuts'
  BY <1>2 DEF OnlyOuts
<1>9. CASE ModelDone /\ Exported(models["model"])
  <2>1. f # "model"
    BY <1>3, <1>5, <1>9 DEF ModelDone
  <2>2. models'["model"] = models["model"]
    BY <1>5, <1>6, <2>1
  <2>3. ModelDone'
    BY <1>2, <1>9 DEF ModelDone
  <2>4. Exported(models["model"])'
    <3>1. PICK m : m = models["model"]
      OBVIOUS
    <3>2. Exported(m)' /\ m = models'["model"]
      BY <1>7, <1>9, <2>2, <3>1
    <3>3. QED
      BY <3>2 DEF Exported
  <2>5. QED
    BY <1>8, <2>3, <2>4 DEF ExportedModel
<1>10. CASE \E m : ModelWritten(m) /\ Exported(m)
  <2>1. PICK m : ModelWritten(m) /\ Exported(m)
    BY <1>10
  <2>2. PICK i \in DOMAIN writing : writing[i] = <<<<"out", "model">>, m>>
    BY <2>1 DEF ModelWritten
  <2>3. Exported(m)'
    BY <1>7, <2>1
  <2>4. CASE i = 1
    <3>1. writing[1][1] = <<"out", "model">> /\ writing[1][2] = m
      BY <2>2, <2>4
    <3>2. f = "model"
      BY <1>5, <3>1
    <3>3. models'["model"] = m
      BY <1>5, <1>6, <3>1, <3>2
    <3>4. ModelDone'
      <4>1. ASSUME NEW j \in DOMAIN writing' PROVE writing'[j][1] # <<"out", "model">>
        <5>1. j + 1 \in DOMAIN writing /\ writing'[j] = writing[j + 1] /\ j + 1 # 1
          BY <1>2, <4>1
        <5>2. writing[j + 1][1] = writing[1][1] => j + 1 = 1
          BY <1>3, <5>1 DEF TypeOK
        <5>3. QED
          BY <3>1, <5>1, <5>2
      <4>2. QED
        BY <4>1 DEF ModelDone
    <3>5. Exported(models["model"])'
      BY <2>3, <3>3 DEF Exported
    <3>6. QED
      BY <1>8, <3>4, <3>5 DEF ExportedModel
  <2>5. CASE i # 1
    <3>1. i - 1 \in DOMAIN writing' /\ (i - 1) + 1 = i
      BY <1>2, <2>2, <2>5
    <3>2. writing'[i - 1] = <<<<"out", "model">>, m>>
      BY <1>2, <2>2, <3>1
    <3>3. ModelWritten(m)'
      BY <3>1, <3>2 DEF ModelWritten
    <3>4. QED
      BY <1>8, <2>3, <3>3 DEF ExportedModel
  <2>6. QED
    BY <2>4, <2>5
<1>11. QED
  BY <1>9, <1>10 DEF ExportedModel

\* export_model takes best.pt only if it is of this run, or if this run saved no best at
\* all; otherwise the last epoch's checkpoint is there, of this run.
LEMMA ExportFresh ==
  ASSUME TypeOK, BestInv, ExportInv, Export, Both, pc' = "validate"
  PROVE  ExportedModel' /\ OnlyOuts'
<1>1. pc = "export" /\ writing = <<>> /\ UNCHANGED <<disk, runs, plan>>
  BY ExportIs
<1>2. \A name, c : ~Pending(name, c)
  BY <1>1 DEF Pending
<1>3. Ours(<<"epoch", Epochs>>)
  BY <1>1, ExportInvIs DEF TrainedAll
<1>4. PICK d : OnDisk(<<"epoch", Epochs>>, d) /\ d.run = runs
  BY <1>2, <1>3 DEF Ours, Stored
<1>5. /\ Candidates[1] = <<"best">> /\ Candidates[2] = <<"epoch", Epochs>>
      /\ Candidates[3] = <<"final">>
  BY DEF Candidates
<1>6. Candidates[2] \in DOMAIN ckpts /\ d = ckpts[Candidates[2]]
  BY <1>4, <1>5 DEF OnDisk
<1>7. ~Enter("idle")
  BY DEF Enter
<1>8. 2 \in 1..3
  OBVIOUS
<1>9. PICK i \in 1..3, c \in Checkpoints :
        /\ OnDisk(Candidates[i], c) /\ Candidates[i] \in CheckpointNames
        /\ \A j \in 1..3 : j < i => Candidates[j] \notin DOMAIN ckpts
        /\ writing' = << <<<<"out", "model">>, ExportOf(Candidates[i], c)>>,
                         <<<<"out", "named">>, ExportOf(Candidates[i], c)>> >>
  BY <1>6, <1>7, <1>8, ExportIs
<1>10. PICK m : m = ExportOf(Candidates[i], c)
  OBVIOUS
<1>11. m \in Exports /\ m.by = "export" /\ m.ckpt = c /\ m.name = Candidates[i]
  BY <1>9, <1>10 DEF ExportOf, Exports
<1>12. Exported(m)
  <2>1. i \in {1, 2}
    BY <1>6, <1>9
  <2>2. CASE i = 2
    <3>1. c = d
      BY <1>6, <1>9, <2>2 DEF OnDisk
    <3>2. QED
      BY <1>4, <1>11, <3>1 DEF Exported
  <2>3. CASE i = 1 /\ c.run # runs
    <3>1. OnDisk(<<"best">>, c) /\ m.name = <<"best">>
      BY <1>5, <1>9, <1>11, <2>3
    <3>2. BestKnown /\ BestLow
      BY <1>1, BestInvIs DEF After, Both
    <3>3. ASSUME NEW name \in DOMAIN ckpts, name[1] = "step", Whole(ckpts[name]),
                 ckpts[name].avg < Inf, ckpts[name].run = runs
          PROVE  FALSE
      <4>1. ckpts[name] \in Checkpoints
        BY <3>3 DEF TypeOK, Whole
      <4>2. Stored(name, ckpts[name])
        BY <4>1 DEF Stored, OnDisk
      <4>3. best # Inf
        <5>1. best <= ckpts[name].avg
          BY <3>2, <3>3, <4>2 DEF BestLow
        <5>2. best \in Nat /\ ckpts[name].avg \in Nat /\ Inf \in Nat
          BY <4>1, LossAssumption DEF TypeOK, Checkpoints
        <5>3. QED
          BY <3>3, <5>1, <5>2
      <4>4. PICK b : BestIs(b) /\ b.run = runs
        BY <3>2, <4>3 DEF BestKnown
      <4>5. OnDisk(<<"best">>, b)
        BY <1>2, <4>4 DEF BestIs
      <4>6. b = c
        BY <3>1, <4>5 DEF OnDisk
      <4>7. QED
        BY <2>3, <4>4, <4>6
    <3>4. QED
      BY <1>11, <3>1, <3>3 DEF Exported
  <2>4. QED
    BY <1>11, <2>1, <2>2, <2>3 DEF Exported
<1>13. Exported(m)'
  BY <1>1, <1>12, ExportedKept DEF disk
<1>14. writing' = << <<<<"out", "model">>, m>>, <<<<"out", "named">>, m>> >>
  BY <1>9, <1>10
<1>15. DOMAIN writing' = {1, 2} /\ writing'[1] = <<<<"out", "model">>, m>>
       /\ writing'[2] = <<<<"out", "named">>, m>>
  BY <1>14
<1>16. ModelWritten(m)'
  BY <1>15 DEF ModelWritten
<1>17. OnlyOuts'
  BY <1>15 DEF OnlyOuts
<1>18. QED
  BY <1>13, <1>16, <1>17 DEF ExportedModel

LEMMA NextExportInv ==
  TypeOK /\ RunInv /\ BestInv /\ ExportInv /\ [Next]_vars /\ TypeOK' => ExportInv'
<1> SUFFICES ASSUME TypeOK, RunInv, BestInv, ExportInv, [Next]_vars, TypeOK' PROVE ExportInv'
  OBVIOUS
<1>1. Training /\ TrainedAll /\ (pc = "validate" /\ Both => ExportedModel /\ OnlyOuts)
  BY ExportInvIs
<1>2. Training'
  <2> SUFFICES ASSUME (epoch # None /\ Both)'
               PROVE  epoch' <= Epochs /\ (epoch' # 0 => Ours(<<"epoch", epoch>>)')
    BY DEF Training
  <2>1. CASE StartTraining
    <3>1. PlanOK /\ UNCHANGED plan /\ epoch = None
      BY <2>1, StartIs
    <3>2. plan.resume = None
      BY <3>1 DEF PlanOK, Both
    <3>3. epoch' = 0
      BY <2>1, <3>2, StartIs DEF Enter
    <3>4. QED
      BY <3>3, SizesAssumption
  <2>2. CASE Batch
    <3>1. UNCHANGED <<runs, plan, epoch>> /\ epoch # None
      BY <2>2, BatchIs
    <3>2. PICK e : e = epoch
      OBVIOUS
    <3>3. epoch <= Epochs /\ (epoch # 0 => Ours(<<"epoch", e>>))
      BY <1>1, <3>1, <3>2 DEF Training, Both
    <3>4. Ours(<<"epoch", e>>) => Ours(<<"epoch", e>>)'
      BY <2>2, <3>1, BatchStores, OursKept
    <3>5. QED
      BY <3>1, <3>2, <3>3, <3>4
  <2>3. CASE EndEpoch
    <3>1. UNCHANGED <<runs, plan, pc>> /\ epoch \in Nat /\ epoch < Epochs /\ pc = "train"
      BY <2>3, EndEpochIs
    <3>2. plan.max_steps = 0
      BY <3>1 DEF TypeOK, PlanOK, Both
    <3>3. epoch' = epoch + 1
      BY <2>3, <3>2, EndEpochIs DEF Enough
    <3>4. PICK e, k : e = epoch + 1 /\ k = Contents(net', epoch + 1, step, 0)
      OBVIOUS
    <3>5. Pending(<<"epoch", e>>, k)' /\ k.run = runs
      BY <2>3, <3>4, EndEpochStores, ContentsRun
    <3>6. Ours(<<"epoch", e>>)'
      BY <3>1, <3>5 DEF Ours, Stored
    <3>7. QED
      BY <3>1, <3>3, <3>4, <3>6, SizesAssumption
  <2>4. CASE epoch # None /\ Write /\ UNCHANGED <<plan, best, epoch>>
    <3>1. UNCHANGED <<runs, plan, epoch>> /\ epoch # None
      BY <2>4 DEF Write
    <3>2. PICK e : e = epoch
      OBVIOUS
    <3>3. epoch <= Epochs /\ (epoch # 0 => Ours(<<"epoch", e>>))
      BY <1>1, <3>1, <3>2 DEF Training, Both
    <3>4. Ours(<<"epoch", e>>) => Ours(<<"epoch", e>>)'
      BY <2>4, <3>1, OursKept
    <3>5. QED
      BY <3>1, <3>2, <3>3, <3>4
  <2>5. CASE epoch # None /\ UNCHANGED vars
    <3>1. UNCHANGED <<runs, plan, epoch>> /\ epoch # None /\ UNCHANGED writing
      BY <2>5 DEF vars, locals
    <3>2. PICK e : e = epoch
      OBVIOUS
    <3>3. epoch <= Epochs /\ (epoch # 0 => Ours(<<"epoch", e>>))
      BY <1>1, <3>1, <3>2 DEF Training, Both
    <3>4. Ours(<<"epoch", e>>) => Ours(<<"epoch", e>>)'
      BY <2>5, <3>1, OthersStore, OursKept
    <3>5. QED
      BY <3>1, <3>2, <3>3, <3>4
  <2>6. QED
    BY <2>1, <2>2, <2>3, <2>4, <2>5, BeforeAfter
<1>3. TrainedAll'
  <2> SUFFICES ASSUME (pc = "export" /\ Both)'
               PROVE  Ours(<<"final">>)' /\ Ours(<<"epoch", Epochs>>)'
    BY DEF TrainedAll
  <2>1. After'
    BY DEF After, Both
  <2>2. CASE Finish
    <3>1. /\ UNCHANGED <<runs, plan>> /\ epoch # None /\ epoch \in Nat /\ epoch >= Epochs
          /\ writing = <<>>
      BY <2>2, FinishIs
    <3>2. epoch <= Epochs /\ (epoch # 0 => Ours(<<"epoch", epoch>>))
      BY <1>1, <3>1 DEF Training, Both
    <3>3. Epochs \in Nat \ {0}
      BY SizesAssumption
    <3>4. Ours(<<"epoch", Epochs>>)
      BY <3>1, <3>2, <3>3
    <3>5. Ours(<<"epoch", Epochs>>)'
      BY <2>2, <3>1, <3>4, FinishStores, OursKept
    <3>6. PICK k : k = Contents(net, Epochs, step, 0)
      OBVIOUS
    <3>7. Pending(<<"final">>, k)' /\ k.run = runs
      BY <2>2, <3>6, FinishStores, ContentsRun
    <3>8. QED
      BY <3>1, <3>5, <3>7 DEF Ours, Stored
  <2>3. CASE After /\ ~Batch /\ ~EndEpoch /\ ~Invoke /\ ~Calibrate /\ UNCHANGED <<plan, best>> /\ ~Finish
    <3>1. UNCHANGED runs
      BY <2>3, RunsCount
    <3>2. pc \in {"export", "validate"}
      BY <2>3 DEF After
    <3>3. ~GenerateTrace /\ ~EndTraces /\ ~StartTraining
      BY <3>2 DEF GenerateTrace, EndTraces, StartTraining, At
    <3>4. ~Kill /\ ~Validate
      BY DEF Kill, Validate, Enter
    <3>5. ~Export
      <4>1. SUFFICES ASSUME Export PROVE FALSE
        OBVIOUS
      <4>2. pc = "export" /\ pc' \in {"idle", Following("export")}
        BY <4>1, ExportIs DEF Enter
      <4>3. plan.stages \subseteq Stages
        BY <4>2 DEF TypeOK, PlanOK
      <4>4. QED
        BY <4>2, <4>3, NextStage
    <3>6. Write \/ UNCHANGED vars
      BY <2>3, <3>3, <3>4, <3>5 DEF Next, Done
    <3>7. UNCHANGED pc
      BY <3>6 DEF Write, vars
    <3>8. Ours(<<"final">>) /\ Ours(<<"epoch", Epochs>>)
      BY <1>1, <2>3, <3>7 DEF TrainedAll, Both
    <3>9. UNCHANGED vars =>
            /\ \A n, c : OnDisk(n, c)' <=> OnDisk(n, c)
            /\ \A n, c : Pending(n, c)' <=> Pending(n, c)
      BY OthersStore DEF vars
    <3>10. QED
      BY <3>1, <3>6, <3>8, <3>9, OursKept
  <2>4. QED
    BY <2>1, <2>2, <2>3, BeforeAfter
<1>4. (pc = "validate" /\ Both)' => ExportedModel' /\ OnlyOuts'
  <2> SUFFICES ASSUME (pc = "validate" /\ Both)' PROVE ExportedModel' /\ OnlyOuts'
    OBVIOUS
  <2>1. After'
    BY DEF After, Both
  <2>2. ~Finish
    <3>1. SUFFICES ASSUME Finish PROVE FALSE
      OBVIOUS
    <3>2. pc = "train" /\ UNCHANGED plan /\ pc' = Following("train")
      BY <3>1, FinishIs DEF Enter
    <3>3. plan.stages \subseteq Stages /\ "export" \in plan.stages
      BY <3>2 DEF TypeOK, PlanOK, Both
    <3>4. QED
      BY <3>2, <3>3, NextStage
  <2>3. After /\ ~Batch /\ ~EndEpoch /\ ~Invoke /\ ~Calibrate /\ UNCHANGED <<plan, best>>
    BY <2>1, <2>2, BeforeAfter
  <2>4. pc \in {"export", "validate"}
    BY <2>3 DEF After
  <2>5. ~GenerateTrace /\ ~EndTraces /\ ~StartTraining
    BY <2>4 DEF GenerateTrace, EndTraces, StartTraining, At
  <2>6. ~Kill /\ ~Validate
    BY DEF Kill, Validate, Enter
  <2>7. CASE Export
    BY <2>3, <2>7, ExportFresh DEF Both
  <2>8. CASE Write
    <3>1. UNCHANGED pc
      BY <2>8 DEF Write
    <3>2. ExportedModel /\ OnlyOuts
      BY <1>1, <2>3, <3>1 DEF Both
    <3>3. QED
      BY <2>8, <3>2, WriteExport
  <2>9. CASE UNCHANGED vars
    <3>1. UNCHANGED <<pc, ckpts, models, writing, runs>>
      BY <2>9 DEF vars, disk
    <3>2. ExportedModel /\ OnlyOuts
      BY <1>1, <2>3, <3>1 DEF Both
    <3>3. QED
      BY <3>1, <3>2 DEF ExportedModel, OnlyOuts, ModelDone, ModelWritten, Exported
  <2>10. QED
    BY <2>2, <2>3, <2>5, <2>6, <2>7, <2>8, <2>9 DEF Next, Done
<1>5. (ExportInv <=> /\ Training /\ TrainedAll
                     /\ pc = "validate" /\ Both => ExportedModel /\ OnlyOuts)'
  BY ExportInvIs, PTL
<1>6. QED
  BY <1>2, <1>3, <1>4, <1>5

\* What a pipeline trains it exports (pipeline.py:153-208): when it comes to validation,
\* the model file is an export of a checkpoint of this very run, or of an older best.pt
\* while this run has saved no checkpoint of its steps; whatever earlier invocations,
\* killed at any point, left in the two directories.
THEOREM ExportIsFresh == Spec => []FreshExport
<1>1. Init => ExportInv
  <2> SUFFICES ASSUME Init PROVE ExportInv
    OBVIOUS
  <2>1. pc = "idle" /\ epoch = None
    BY DEF Init
  <2>2. QED
    BY <2>1 DEF ExportInv
<1>2. Init => RunInv /\ BestInv
  BY DEF Init, RunInv, BestInv, Before, After, Stored, Pending, OnDisk
<1>3. TypeOK /\ ExportInv => FreshExport
  <2> SUFFICES ASSUME TypeOK, ExportInv, pc = "validate", writing = <<>>,
                      {"train", "export"} \subseteq plan.stages
               PROVE  LET m == models["model"]
                      IN  /\ Whole(m) /\ m.by = "export"
                          /\ \/ m.ckpt.run = runs
                             \/ /\ m.name = <<"best">>
                                /\ \A name \in DOMAIN ckpts :
                                     name[1] = "step" /\ Whole(ckpts[name])
                                       /\ ckpts[name].avg < Inf
                                       => ckpts[name].run # runs
    BY DEF FreshExport
  <2>1. Exported(models["model"])
    BY DEF ExportInv, Both
  <2>2. PICK m : m = models["model"]
    OBVIOUS
  <2>3. Whole(m)
    BY <2>1, <2>2, NoneAssumption DEF Exported, Whole
  <2>4. QED
    BY <2>1, <2>2, <2>3 DEF Exported
<1>4. QED
  BY <1>1, <1>2, <1>3, NextRunInv, NextBestInv, NextExportInv, TypeCorrect, PTL DEF Spec

-----------------------------------------------------------------------------
(* The dataset                                                             *)

LEMMA MinExists ==
  ASSUME NEW T, T \subseteq Nat, T # {}
  PROVE  \E x \in T : \A y \in T : x <= y
<1>1. PICK x \in T : \A y \in T : <<y, x>> \notin OpToRel(<, Nat)
  BY NatLessThanWellFounded, WFMin, Zenon
<1>2. \A y \in T : ~(y < x)
  BY <1>1, Zenon DEF OpToRel
<1>3. \A y \in T : x <= y
  BY <1>2
<1>4. QED
  BY <1>3

\* The workers' shares, for n paths and per of them each.
From(per, w) == w * per
To(per, n, w) == IF w < Workers - 1 THEN (w + 1) * per ELSE n

LEMMA SliceIs ==
  ASSUME NEW paths
  PROVE  \A w : Slice(paths, w) =
           (From(Len(paths) \div Workers, w) + 1)..To(Len(paths) \div Workers, Len(paths), w)
BY DEF Slice, From, To

\* A share begins where the one before it ends, or later.
LEMMA SharesAscend ==
  ASSUME NEW per \in Nat, NEW n \in Nat, NEW v \in Nat, NEW w \in Nat, v < w, w < Workers
  PROVE  To(per, n, v) <= From(per, w)
<1>1. Workers \in Nat
  BY SizesAssumption
<1>2. PICK d \in Nat : w = v + 1 + d
  <2>1. w - v - 1 \in Nat /\ w = v + 1 + (w - v - 1)
    OBVIOUS
  <2>2. QED
    BY <2>1
<1>3. w * per = (v + 1) * per + d * per
  BY <1>2
<1>4. d * per \in Nat /\ (v + 1) * per \in Nat
  BY <1>2
<1>5. (v + 1) * per <= w * per
  <2>1. PICK a, b, c \in Nat : w * per = a /\ (v + 1) * per = b /\ d * per = c
    BY <1>4
  <2>2. a = b + c
    BY <1>3, <2>1
  <2>3. b <= a
    BY <2>2
  <2>4. QED
    BY <2>1, <2>3
<1>6. v < Workers - 1
  BY <1>1
<1>7. QED
  BY <1>5, <1>6 DEF From, To

\* Every path is in the share of exactly one worker.
LEMMA OneWorker ==
  ASSUME NEW paths, Len(paths) \in Nat, NEW i \in 1..Len(paths)
  PROVE  \E w \in 0..(Workers - 1) :
           /\ i \in Slice(paths, w)
           /\ \A v \in 0..(Workers - 1) : i \in Slice(paths, v) => v = w
<1> DEFINE per == Len(paths) \div Workers
           from(w) == From(per, w)
           to(w) == To(per, Len(paths), w)
           enough == {w \in 0..(Workers - 1) : i <= to(w)}
<1>1. Workers \in Nat /\ Workers > 0
  BY SizesAssumption
<1>2. per \in Nat
  BY <1>1
<1>a. \A w : Slice(paths, w) = (from(w) + 1)..to(w)
  BY SliceIs
<1> HIDE DEF per
<1>3. \A w \in 0..(Workers - 1) : from(w) \in Nat /\ to(w) \in Nat
  <2> SUFFICES ASSUME NEW w \in 0..(Workers - 1) PROVE from(w) \in Nat /\ to(w) \in Nat
    OBVIOUS
  <2>1. w \in Nat /\ w + 1 \in Nat
    BY <1>1
  <2>2. w * per \in Nat /\ (w + 1) * per \in Nat
    BY <1>2, <2>1
  <2>3. QED
    BY <2>2 DEF From, To
<1>4. to(Workers - 1) = Len(paths)
  BY <1>1 DEF To
<1>5. \A v, w \in 0..(Workers - 1) : v < w => to(v) <= from(w)
  <2> SUFFICES ASSUME NEW v \in 0..(Workers - 1), NEW w \in 0..(Workers - 1), v < w
               PROVE  to(v) <= from(w)
    OBVIOUS
  <2>1. v \in Nat /\ w \in Nat /\ w < Workers
    BY <1>1
  <2>2. QED
    BY <1>2, <2>1, SharesAscend
<1>6. \A w \in 0..(Workers - 1) : w > 0 => w - 1 \in 0..(Workers - 1) /\ from(w) = to(w - 1)
  <2> SUFFICES ASSUME NEW w \in 0..(Workers - 1), w > 0
               PROVE  w - 1 \in 0..(Workers - 1) /\ from(w) = to(w - 1)
    OBVIOUS
  <2>1. w - 1 \in 0..(Workers - 1) /\ w - 1 < Workers - 1 /\ (w - 1) + 1 = w
    BY <1>1
  <2>2. QED
    BY <2>1 DEF From, To
<1>7. from(0) = 0
  BY <1>2 DEF From
<1> HIDE DEF from, to
<1>8. enough # {} /\ enough \subseteq Nat
  <2>1. Workers - 1 \in 0..(Workers - 1) /\ i <= to(Workers - 1)
    BY <1>1, <1>4
  <2>2. QED
    BY <1>1, <2>1
<1>9. PICK w \in enough : \A v \in enough : w <= v
  BY <1>8, MinExists
<1>10. w \in 0..(Workers - 1) /\ i <= to(w)
  BY <1>9
<1>11. from(w) < i
  <2>1. CASE w = 0
    BY <1>7, <2>1
  <2>2. CASE w # 0
    <3>1. w \in Nat /\ w > 0
      BY <1>1, <1>10, <2>2
    <3>2. w - 1 \in 0..(Workers - 1) /\ from(w) = to(w - 1)
      BY <1>6, <1>10, <3>1
    <3>3. w - 1 \notin enough
      BY <1>9, <3>1
    <3>4. to(w - 1) \in Nat /\ ~(i <= to(w - 1))
      BY <1>3, <3>2, <3>3
    <3>5. QED
      BY <3>2, <3>4
  <2>3. QED
    BY <2>1, <2>2
<1>12. i \in Slice(paths, w)
  <2>1. from(w) \in Nat /\ to(w) \in Nat
    BY <1>3, <1>10
  <2>2. i \in (from(w) + 1)..to(w)
    BY <1>10, <1>11, <2>1
  <2>3. QED
    BY <1>a, <2>2
<1>13. ASSUME NEW v \in 0..(Workers - 1), i \in Slice(paths, v) PROVE v = w
  <2>1. from(v) \in Nat /\ to(v) \in Nat /\ from(w) \in Nat /\ to(w) \in Nat
    BY <1>3, <1>10
  <2>2. i \in (from(v) + 1)..to(v)
    BY <1>a, <1>13
  <2>3. from(v) < i /\ i <= to(v)
    BY <2>1, <2>2
  <2>4. ~(v < w)
    <3>1. v < w => to(v) <= from(w)
      BY <1>5, <1>10
    <3>2. QED
      BY <1>11, <2>1, <2>3, <3>1
  <2>5. ~(w < v)
    <3>1. w < v => to(w) <= from(v)
      BY <1>5, <1>10
    <3>2. QED
      BY <1>10, <2>1, <2>3, <3>1
  <2>6. v \in Int /\ w \in Int
    BY <1>1, <1>10
  <2>7. QED
    BY <2>4, <2>5, <2>6
<1>14. QED
  BY <1>10, <1>12, <1>13

LEMMA GlobsAre == IsFiniteSet(Globs) /\ Cardinality(Globs) = 2
<1>1. IsFiniteSet({"trace_*.pt"}) /\ Cardinality({"trace_*.pt"}) = 1
  BY FS_Singleton
<1>2. Globs = {"trace_*.pt"} \cup {"trace_*"} /\ "trace_*" \notin {"trace_*.pt"}
  BY DEF Globs
<1>3. QED
  BY <1>1, <1>2, FS_AddElement

\* A trace has at most AnchorsPerTrace blocks, and none unless its file can be read.
LEMMA BlocksOfIs ==
  ASSUME NEW p \in Prompts, TypeOK
  PROVE  /\ IsFiniteSet(BlocksOf(p)) /\ Cardinality(BlocksOf(p)) \in Nat
         /\ \A a \in BlocksOf(p) : a \in 1..AnchorsPerTrace /\ traces[p] # None
<1>1. PICK n \in 0..AnchorsPerTrace : BlocksOf(p) = 1..n /\ (n # 0 => traces[p] # None)
  <2>1. CASE ~Whole(traces[p])
    <3>1. 0 \in 0..AnchorsPerTrace
      BY SizesAssumption
    <3>2. QED
      BY <2>1, <3>1 DEF BlocksOf
  <2>2. CASE Whole(traces[p])
    <3>1. traces[p] \in Nat /\ BlockSize \in Nat /\ AnchorsPerTrace \in Nat /\ traces[p] # None
      BY <2>2, SizesAssumption DEF TypeOK, Whole
    <3>2. PICK n : n = Anchors(traces[p])
      OBVIOUS
    <3>3. n \in 0..AnchorsPerTrace
      <4>1. CASE traces[p] <= BlockSize
        BY <3>1, <3>2, <4>1 DEF Anchors
      <4>2. CASE ~(traces[p] <= BlockSize)
        <5>1. PICK m \in Nat : m = traces[p] - BlockSize
          BY <3>1, <4>2
        <5>2. n = Min({AnchorsPerTrace, m})
          BY <3>2, <4>2, <5>1 DEF Anchors
        <5>3. CASE m <= AnchorsPerTrace
          BY <3>1, <5>2, <5>3, MinIs
        <5>4. CASE AnchorsPerTrace <= m
          BY <3>1, <5>2, <5>4, MinIs
        <5>5. QED
          BY <3>1, <5>3, <5>4
      <4>3. QED
        BY <4>1, <4>2
    <3>4. BlocksOf(p) = 1..n
      BY <2>2, <3>2 DEF BlocksOf
    <3>5. QED
      BY <3>1, <3>3, <3>4
  <2>3. QED
    BY <2>1, <2>2
<1>2. 1 \in Int /\ n \in Int /\ AnchorsPerTrace \in Nat
  BY SizesAssumption
<1>3. IsFiniteSet(1..n)
  BY <1>2, FS_Interval
<1>4. Cardinality(1..n) \in Nat
  BY <1>3, FS_CardinalityType
<1>5. \A a \in 1..n : a \in 1..AnchorsPerTrace /\ n # 0
  BY <1>2
<1>6. QED
  BY <1>1, <1>3, <1>4, <1>5

\* The paths are the matches, each at one index.
LEMMA PathsAre ==
  /\ Cardinality(Matches) \in Nat
  /\ TracePaths \in [1..Cardinality(Matches) -> Matches]
  /\ DOMAIN TracePaths = 1..Cardinality(Matches) /\ Len(TracePaths) = Cardinality(Matches)
  /\ \A i, j \in DOMAIN TracePaths : TracePaths[i] = TracePaths[j] => i = j
  /\ \A x \in Matches : \E i \in DOMAIN TracePaths : TracePaths[i] = x
<1> DEFINE n == Cardinality(Matches)
<1>1. IsFiniteSet(Globs) /\ Cardinality(Globs) = 2
  BY GlobsAre
<1>2. IsFiniteSet(Prompts \X Globs)
  <2>1. 1 \in Int /\ NumPrompts \in Int
    BY SizesAssumption
  <2>2. IsFiniteSet(Prompts)
    BY <2>1, FS_Interval DEF Prompts
  <2>3. QED
    BY <1>1, <2>2, FS_Product
<1>3. Matches \in SUBSET (Prompts \X Globs)
  BY DEF Matches
<1>4. IsFiniteSet(Matches)
  BY <1>2, <1>3, FS_Subset
<1>5. n \in Nat
  BY <1>4, FS_CardinalityType
<1>6. TracePaths \in Bijection(1..n, Matches)
  BY <1>3, ShuffleAssumption DEF TracePaths
<1> HIDE DEF n
<1>7. TracePaths \in [1..n -> Matches]
  BY <1>6 DEF Bijection, Injection
<1>8. \A i, j \in 1..n : TracePaths[i] = TracePaths[j] => i = j
  BY <1>6 DEF Bijection, Injection, IsInjective
<1>9. \A x \in Matches : \E i \in 1..n : TracePaths[i] = x
  BY <1>6 DEF Bijection, Surjection
<1>10. Len(TracePaths) = n
  <2>1. TracePaths \in Seq(Matches)
    BY <1>5, <1>7, SeqDef
  <2>2. Len(TracePaths) \in Nat /\ 1..Len(TracePaths) = 1..n
    BY <1>7, <2>1, LenProperties
  <2>3. QED
    BY <1>5, <2>2
<1>11. QED
  BY <1>5, <1>7, <1>8, <1>9, <1>10 DEF n

\* A trace's blocks of an epoch: each of them once for each of its matches.
LEMMA BlocksCount ==
  ASSUME TypeOK, NEW p \in Prompts
  PROVE  Cardinality({block \in Blocks : TracePaths[block[2]][1] = p})
           = 2 * Cardinality(BlocksOf(p))
<1> DEFINE S == {block \in Blocks : TracePaths[block[2]][1] = p}
           T == Globs \X BlocksOf(p)
           f == [block \in S |-> <<TracePaths[block[2]][2], block[3]>>]
<1>1. \A block : block \in S <=>
        /\ block \in (0..(Workers - 1)) \X (DOMAIN TracePaths) \X (1..AnchorsPerTrace)
        /\ block[2] \in Slice(TracePaths, block[1])
        /\ block[3] \in BlocksOf(p) /\ TracePaths[block[2]][1] = p
  BY DEF Blocks
<1>2. IsFiniteSet(BlocksOf(p)) /\ Cardinality(BlocksOf(p)) \in Nat
  BY BlocksOfIs
<1>3. IsFiniteSet(T) /\ Cardinality(T) = 2 * Cardinality(BlocksOf(p))
  BY <1>2, GlobsAre, FS_Product
<1>4. \A x \in Matches : x \in Prompts \X Globs
  BY DEF Matches
<1>5. f \in [S -> T]
  <2> SUFFICES ASSUME NEW block \in S PROVE <<TracePaths[block[2]][2], block[3]>> \in T
    OBVIOUS
  <2>1. block[2] \in DOMAIN TracePaths /\ block[3] \in BlocksOf(p)
    BY <1>1
  <2>2. TracePaths[block[2]] \in Prompts \X Globs
    BY <1>4, <2>1, PathsAre
  <2>3. QED
    BY <2>1, <2>2
<1>6. \A b, c \in S : f[b] = f[c] => b = c
  <2> SUFFICES ASSUME NEW b \in S, NEW c \in S, f[b] = f[c] PROVE b = c
    OBVIOUS
  <2>1. TracePaths[b[2]][2] = TracePaths[c[2]][2] /\ b[3] = c[3]
    OBVIOUS
  <2>2. /\ b \in (0..(Workers - 1)) \X (DOMAIN TracePaths) \X (1..AnchorsPerTrace)
        /\ c \in (0..(Workers - 1)) \X (DOMAIN TracePaths) \X (1..AnchorsPerTrace)
        /\ b[2] \in Slice(TracePaths, b[1]) /\ c[2] \in Slice(TracePaths, c[1])
        /\ TracePaths[b[2]][1] = p /\ TracePaths[c[2]][1] = p
    BY <1>1
  <2> HIDE DEF S, f
  <2>3. TracePaths[b[2]] \in Prompts \X Globs /\ TracePaths[c[2]] \in Prompts \X Globs
    BY <1>4, <2>2, PathsAre
  <2>4. TracePaths[b[2]] = TracePaths[c[2]]
    BY <2>1, <2>2, <2>3
  <2>5. b[2] = c[2]
    BY <2>2, <2>4, PathsAre
  <2>6. b[1] = c[1]
    <3>1. Len(TracePaths) \in Nat /\ b[2] \in 1..Len(TracePaths)
      BY <2>2, PathsAre
    <3>2. b[1] \in 0..(Workers - 1) /\ c[1] \in 0..(Workers - 1)
      BY <2>2
    <3>3. QED
      BY <2>2, <2>5, <3>1, <3>2, OneWorker
  <2>7. QED
    BY <2>1, <2>2, <2>5, <2>6
<1>7. \A x \in T : \E b \in S : f[b] = x
  <2> SUFFICES ASSUME NEW x \in T PROVE \E b \in S : f[b] = x
    OBVIOUS
  <2>0. PICK g \in Globs, a \in BlocksOf(p) : x = <<g, a>>
    OBVIOUS
  <2>1. a \in 1..AnchorsPerTrace /\ traces[p] # None
    BY BlocksOfIs
  <2>2. <<p, g>> \in Matches
    BY <2>1 DEF Matches
  <2>3. PICK i \in DOMAIN TracePaths : TracePaths[i] = <<p, g>>
    BY <2>2, PathsAre
  <2>4. Len(TracePaths) \in Nat /\ i \in 1..Len(TracePaths)
    BY <2>3, PathsAre
  <2>5. PICK w \in 0..(Workers - 1) : i \in Slice(TracePaths, w)
    BY <2>4, OneWorker
  <2>6. TracePaths[i][1] = p /\ TracePaths[i][2] = g
    BY <2>3
  <2>7. <<w, i, a>> \in S
    BY <1>1, <2>1, <2>3, <2>5, <2>6
  <2>8. f[<<w, i, a>>] = <<g, a>>
    BY <2>6, <2>7
  <2>9. QED
    BY <2>0, <2>7, <2>8
<1>8. f \in Bijection(S, T)
  BY <1>5, <1>6, <1>7 DEF Bijection, Injection, Surjection, IsInjective
<1>9. f \in Injection(S, T) /\ f \in Surjection(S, T)
  BY <1>8 DEF Bijection
<1>10. Cardinality(S) = Cardinality(T)
  BY <1>3, <1>9, FS_Injection
<1>11. QED
  BY <1>3, <1>10

\* While training no trace is being written, and an epoch begins with all its blocks.
QueueInv ==
  /\ pc # "traces" => \A i \in DOMAIN writing : writing[i][1][1] # "trace"
  /\ epoch # None /\ batches = 0 => queue = Blocks

LEMMA BlocksKept == UNCHANGED traces => UNCHANGED Blocks
<1>1. UNCHANGED traces => UNCHANGED Matches
  BY DEF Matches
<1>2. UNCHANGED traces => UNCHANGED TracePaths
  BY <1>1 DEF TracePaths
<1>3. UNCHANGED traces => \A p : UNCHANGED BlocksOf(p)
  BY DEF BlocksOf
<1>4. QED
  BY <1>2, <1>3 DEF Blocks

\* No trace is among the files to be written.
NoTrace(files) == \A i \in DOMAIN files : files[i][1][1] # "trace"

LEMMA NoTraceWritten ==
  ASSUME TypeOK, [Next]_vars, NoTrace(writing) \/ pc = "traces"
  PROVE  NoTrace(writing') \/ pc' = "traces"
<1> USE DEF NoTrace
<1>1. CASE Invoke \/ EndTraces \/ StartTraining \/ Validate \/ Done \/ UNCHANGED vars
  <2>1. UNCHANGED writing /\ (writing = <<>> \/ UNCHANGED pc)
    BY <1>1 DEF Invoke, EndTraces, StartTraining, Validate, Done, At, vars
  <2>2. QED
    BY <2>1
<1>2. CASE Kill
  BY <1>2 DEF Kill
<1>3. CASE Write
  <2>1. writing # <<>> /\ UNCHANGED pc /\ writing' = Tail(writing)
    BY <1>3 DEF Write
  <2>2. Len(writing) \in Nat /\ Len(writing) # 0 /\ DOMAIN writing = 1..Len(writing)
    BY <2>1, FirstFile
  <2>3. /\ DOMAIN Tail(writing) = 1..(Len(writing) - 1)
        /\ \A i \in 1..(Len(writing) - 1) : Tail(writing)[i] = writing[i + 1]
    BY <2>1, <2>2, HeadTailProperties DEF TypeOK
  <2>4. \A i \in DOMAIN Tail(writing) : i + 1 \in DOMAIN writing /\ Tail(writing)[i] = writing[i + 1]
    BY <2>2, <2>3
  <2>5. QED
    BY <2>1, <2>4
<1>4. CASE GenerateTrace
  BY <1>4 DEF GenerateTrace, At
<1>5. CASE Batch
  <2>1. \/ writing' = <<>>
        \/ \E c : \E name : writing' = << <<<<"ckpt", name>>, c>> >>
        \/ \E c : \E m, n : writing' = << <<<<"ckpt", m>>, c>>, <<<<"ckpt", n>>, c>> >>
    BY <1>5, BatchIs DEF Checkpoint
  <2>2. QED
    BY <2>1
<1>6. CASE EndEpoch
  BY <1>6, EndEpochIs DEF Checkpoint
<1>7. CASE Finish
  BY <1>7, FinishIs DEF Checkpoint
<1>8. CASE Export
  BY <1>8, ExportIs
<1>9. CASE Calibrate
  BY <1>9 DEF Calibrate
<1>10. QED
  BY <1>1, <1>2, <1>3, <1>4, <1>5, <1>6, <1>7, <1>8, <1>9 DEF Next

\* A trace changes on disk only while one is being written.
LEMMA TracesKept ==
  ASSUME TypeOK, [Next]_vars, NoTrace(writing)
  PROVE  UNCHANGED traces
<1>1. CASE Write \/ Kill
  <2>1. CASE writing = <<>>
    BY <1>1, <2>1 DEF Write, Kill, disk
  <2>2. CASE writing # <<>>
    <3>1. writing[1][1][1] # "trace"
      BY <2>2, FirstFile DEF NoTrace
    <3>2. QED
      BY <1>1, <2>2, <3>1 DEF Write, Kill, Save, disk
  <2>3. QED
    BY <2>1, <2>2
<1>2. CASE ~(Write \/ Kill)
  BY <1>2 DEF Next, Invoke, GenerateTrace, EndTraces, StartTraining, Batch, EndEpoch, Finish,
              Export, Validate, Calibrate, Done, vars, disk
<1>3. QED
  BY <1>1, <1>2

\* An epoch that has just begun did so in this step, or was there before.
LEMMA EpochBegins ==
  ASSUME TypeOK, [Next]_vars, (epoch # None /\ batches = 0)'
  PROVE  /\ pc = "train"
         /\ queue' = Blocks \/ (epoch # None /\ batches = 0 /\ UNCHANGED queue)
<1>1. CASE Batch
  <2>1. batches \in Nat /\ batches' = batches + 1
    BY <1>1 DEF Batch, TypeOK
  <2>2. QED
    BY <2>1
<1>2. CASE StartTraining \/ EndEpoch
  BY <1>2 DEF StartTraining, EndEpoch, Enter, InEpoch, At
<1>3. CASE Invoke \/ Kill \/ EndTraces \/ Finish \/ Export \/ Validate
  BY <1>3 DEF Invoke, Kill, EndTraces, Finish, Export, Validate, Enter
<1>4. CASE Write \/ GenerateTrace \/ Calibrate \/ Done \/ UNCHANGED vars
  BY <1>4 DEF Write, GenerateTrace, Calibrate, Done, vars, locals, TypeOK
<1>5. QED
  BY <1>1, <1>2, <1>3, <1>4 DEF Next

LEMMA NextQueueInv == TypeOK /\ QueueInv /\ [Next]_vars => QueueInv'
<1> SUFFICES ASSUME TypeOK, QueueInv, [Next]_vars PROVE QueueInv'
  OBVIOUS
<1>1. NoTrace(writing) \/ pc = "traces"
  BY DEF QueueInv, NoTrace
<1>2. NoTrace(writing') \/ pc' = "traces"
  BY <1>1, NoTraceWritten
<1>3. ASSUME (epoch # None /\ batches = 0)' PROVE queue' = Blocks'
  <2>1. pc = "train" /\ (queue' = Blocks \/ (epoch # None /\ batches = 0 /\ UNCHANGED queue))
    BY <1>3, EpochBegins
  <2>2. queue' = Blocks
    BY <2>1 DEF QueueInv
  <2>3. UNCHANGED Blocks
    BY <1>1, <2>1, TracesKept, BlocksKept
  <2>4. QED
    BY <2>2, <2>3
<1>4. QED
  BY <1>2, <1>3 DEF QueueInv, NoTrace

\* An epoch has every block of every trace that can be read, twice over, whatever the
\* number of workers, traces and their lengths and however the paths are shuffled: the
\* division among the workers loses none and repeats none (dataset.py:42-85).
THEOREM EpochsCover == Spec => []EpochCoversTraces
<1>1. Init => QueueInv
  BY DEF Init, QueueInv
<1>2. TypeOK /\ QueueInv => EpochCoversTraces
  <2> SUFFICES ASSUME TypeOK, QueueInv, InEpoch, batches = 0, NEW p \in Prompts
               PROVE  Cardinality({block \in queue : TracePaths[block[2]][1] = p})
                        = 2 * Cardinality(BlocksOf(p))
    BY DEF EpochCoversTraces
  <2>1. queue = Blocks
    BY DEF QueueInv, InEpoch
  <2>2. QED
    BY <2>1, BlocksCount
<1>3. QED
  BY <1>1, <1>2, NextQueueInv, TypeCorrect, PTL DEF Spec

-----------------------------------------------------------------------------
(* The tensors of the exported files                                       *)

LEMMA NormShapes == Shape(<<"norm">>) = Shape(<<"out_norm">>)
<1>1. Last(<<"norm">>) = "norm" /\ Last(<<"out_norm">>) = "out_norm"
  BY DEF Last
<1>2. QED
  BY <1>1 DEF Shape

\* What export.py writes is what the loader asks for, under the module's own names.
LEMMA ExportLoads ==
  LET file == export_to_safetensors(DFlashDraftModel("trained"))
      own(n) == IF n = <<"norm">> THEN <<"out_norm">> ELSE n
  IN  load_draft_safetensors(file) /\ \A n \in DOMAIN file : file[n].from = <<"trained", own(n)>>
<1> DEFINE state == DFlashDraftModel("trained")
           file == export_to_safetensors(state)
           own(n) == IF n = <<"norm">> THEN <<"out_norm">> ELSE n
<1>1. \A n \in Names(Layers, "norm") : own(n) \in Names(Layers, "out_norm")
  BY DEF Names
<1>2. \A n \in Names(Layers, "out_norm") : state[n] = Tensor(n, "trained")
  BY DEF DFlashDraftModel
<1> HIDE DEF state
<1>3. /\ DOMAIN file = Names(Layers, "norm")
      /\ \A n \in Names(Layers, "norm") : file[n] = state[own(n)]
  BY DEF export_to_safetensors
<1>4. \A n \in Names(Layers, "norm") : file[n] = Tensor(own(n), "trained")
  BY <1>1, <1>2, <1>3
<1> HIDE DEF file
<1>5. \A n : Shape(own(n)) = Shape(n)
  BY NormShapes
<1>6. \A n \in Names(Layers, "norm") :
        file[n].shape = Shape(n) /\ file[n].from = <<"trained", own(n)>>
  <2> SUFFICES ASSUME NEW n \in Names(Layers, "norm")
               PROVE  file[n].shape = Shape(n) /\ file[n].from = <<"trained", own(n)>>
    OBVIOUS
  <2>1. PICK o : o = own(n)
    OBVIOUS
  <2>2. file[n] = Tensor(o, "trained") /\ Shape(o) = Shape(n)
    BY <1>4, <1>5, <2>1
  <2>3. QED
    BY <2>1, <2>2 DEF Tensor
<1>7. Layers \in 1..(2 * Layers)
  BY LayersAssumption
<1>8. load_draft_safetensors(file)
  BY <1>3, <1>6, <1>7 DEF load_draft_safetensors
<1>9. QED
  BY <1>3, <1>6, <1>8 DEF file, state

\* fc the wrong way round has not the shape of fc, and twice turned has.
LEMMA FcShapes ==
  /\ Reverse(Shape(FC)) # Shape(FC)
  /\ Reverse(Reverse(Shape(FC))) = Shape(FC)
<1>1. Last(FC) = "fc"
  BY DEF Last, FC
<1>2. Shape(FC) = <<"hidden", "features">>
  BY <1>1 DEF Shape
<1>3. Reverse(<<"hidden", "features">>) = <<"features", "hidden">>
  BY DEF Reverse
<1>4. Reverse(<<"features", "hidden">>) = <<"hidden", "features">>
  BY DEF Reverse
<1>5. <<"features", "hidden">> # <<"hidden", "features">>
  OBVIOUS
<1>6. QED
  BY <1>2, <1>3, <1>4, <1>5

\* What an upstream release has is mapped from the tensor of the same name, and
\* fits its place unless it is Lost.
LEMMA Mapped ==
  ASSUME NEW up \in Upstreams, NEW n \in Names(Layers, "out_norm")
  PROVE  /\ n \in DOMAIN _map_weights(up) <=> n \in DOMAIN up
         /\ n \in DOMAIN up =>
              /\ _map_weights(up)[n].from = <<"upstream", n>>
              /\ _map_weights(up)[n].shape = Shape(n) <=> n \notin Lost(up)
<1>1. PICK last \in {"norm", "out_norm"}, t \in BOOLEAN : up = Upstream(UpstreamLayers, last, t)
  BY DEF Upstreams
<1>2. n \in DOMAIN _map_weights(up) <=> n \in DOMAIN up
  BY DEF _map_weights
<1>3. CASE n \in DOMAIN up /\ n # FC
  <2>1. up[n] = Tensor(n, "upstream")
    BY <1>1, <1>3 DEF Upstream
  <2>2. _map_weights(up)[n] = up[n]
    BY <1>3 DEF _map_weights
  <2>3. n \notin Lost(up)
    BY <1>3 DEF Lost
  <2>4. QED
    BY <1>2, <2>1, <2>2, <2>3 DEF Tensor
<1>4. CASE n \in DOMAIN up /\ n = FC
  <2> DEFINE own == Tensor(FC, "upstream")
  <2>1. own.shape = Shape(FC) /\ own.from = <<"upstream", FC>>
    BY DEF Tensor
  <2>2. up[FC] = IF t THEN Transposed(own) ELSE own
    BY <1>1, <1>4 DEF Upstream
  <2>3. _map_weights(up)[FC] = Transposed(up[FC])
    BY <1>4 DEF _map_weights
  <2>4. FC \in Lost(up) <=> up[FC].shape = Shape(FC)
    BY <1>4 DEF Lost
  <2>5. own = [shape |-> Shape(FC), from |-> <<"upstream", FC>>]
    BY DEF Tensor
  <2> HIDE DEF own
  <2>6. /\ Transposed(own).shape = Reverse(Shape(FC)) /\ Transposed(own).from = <<"upstream", FC>>
        /\ Transposed(Transposed(own)).shape = Reverse(Reverse(Shape(FC)))
        /\ Transposed(Transposed(own)).from = <<"upstream", FC>>
    BY <2>5 DEF Transposed
  <2>7. QED
    BY <1>2, <1>4, <2>1, <2>2, <2>3, <2>4, <2>6, FcShapes
<1>5. QED
  BY <1>2, <1>3, <1>4

\* produce.py and calibrate.py: every tensor is upstream's, of the same name, or
\* Lost; the name of the last norm is one the loader does not ask for.
LEMMA UpstreamTensors ==
  ASSUME NEW up \in Upstreams,
         NEW file, \/ file = calibrate_draft(up)
                   \/ CanLoadUpstream(up) /\ file = load_upstream_draft(up)
  PROVE  /\ ~load_draft_safetensors(file)
         /\ DOMAIN file = Names(Layers, "out_norm")
         /\ \A n \in DOMAIN file :
              file[n].from = <<IF n \in Lost(up) THEN "init" ELSE "upstream", n>>
<1>1. DOMAIN file = Names(Layers, "out_norm")
  BY DEF calibrate_draft, load_upstream_draft
<1>2. ~load_draft_safetensors(file)
  <2>1. <<"norm">> \notin Names(Layers, "out_norm")
    BY DEF Names, FC
  <2>2. \A n : <<"norm">> \in Names(n, "norm")
    BY DEF Names
  <2>3. QED
    BY <1>1, <2>1, <2>2 DEF load_draft_safetensors
<1>3. ASSUME NEW n \in Names(Layers, "out_norm")
      PROVE  file[n].from = <<IF n \in Lost(up) THEN "init" ELSE "upstream", n>>
  <2>1. PICK mapped : mapped = _map_weights(up)
    OBVIOUS
  <2>2. /\ n \in DOMAIN mapped <=> n \in DOMAIN up
        /\ n \in DOMAIN up => /\ mapped[n].from = <<"upstream", n>>
                             /\ (mapped[n].shape = Shape(n) <=> n \notin Lost(up))
    BY <2>1, Mapped
  <2>3. n \notin DOMAIN up => n \in Lost(up)
    BY DEF Lost
  <2>4. n \in Fits(mapped) <=> n \notin Lost(up)
    <3>1. n \in Fits(mapped) <=> n \in DOMAIN mapped /\ mapped[n].shape = Shape(n)
      BY DEF Fits
    <3>2. CASE n \in DOMAIN up
      <4>1. n \in DOMAIN mapped /\ (mapped[n].shape = Shape(n) <=> n \notin Lost(up))
        BY <2>2, <3>2
      <4>2. QED
        BY <3>1, <4>1
    <3>3. CASE n \notin DOMAIN up
      BY <2>2, <2>3, <3>1, <3>3
    <3>4. QED
      BY <3>2, <3>3
  <2>5. Tensor(n, "init").from = <<"init", n>>
    BY DEF Tensor
  <2>6. CASE file = calibrate_draft(up)
    <3>1. PICK t : t = IF n \in Fits(mapped) THEN mapped[n] ELSE Tensor(n, "init")
      OBVIOUS
    <3>2. file[n] = IF n = FC THEN Transposed(t) ELSE t
      BY <2>1, <2>6, <3>1 DEF calibrate_draft
    <3>3. Transposed(t).from = t.from
      BY DEF Transposed
    <3>4. QED
      BY <2>2, <2>3, <2>4, <2>5, <3>1, <3>2, <3>3
  <2>7. CASE CanLoadUpstream(up) /\ file = load_upstream_draft(up)
    <3>1. Fits(mapped) = DOMAIN mapped
      BY <2>1, <2>7 DEF CanLoadUpstream
    <3>2. file[n] = IF n \in DOMAIN mapped THEN mapped[n] ELSE Tensor(n, "init")
      BY <2>1, <2>7 DEF load_upstream_draft
    <3>3. QED
      BY <2>2, <2>3, <2>4, <2>5, <3>1, <3>2
  <2>8. QED
    BY <2>6, <2>7
<1>4. QED
  BY <1>1, <1>2, <1>3

\* Every tensor of every model file is accounted for: export.py stores the trained
\* module as the loader wants it; produce.py and calibrate.py store upstream's
\* tensors, fc and norms included, but for those the code loses, and the loader
\* refuses their files; however many layers upstream has.
THEOREM TensorsAreAccounted == Spec => []TensorsAccounted
<1>1. TypeOK => TensorsAccounted
  <2> SUFFICES ASSUME TypeOK, NEW f \in DOMAIN models, Whole(models[f])
               PROVE  LET m == models[f]
                          file == Tensors(m)
                          own(n) == IF n = <<"norm">> THEN <<"out_norm">> ELSE n
                          source(n) == IF n \in Lost(m.upstream) THEN "init" ELSE "upstream"
                      IN  /\ load_draft_safetensors(file) <=> m.by = "export"
                          /\ IF m.by = "export"
                             THEN \A n \in DOMAIN file : file[n].from = <<"trained", own(n)>>
                             ELSE /\ DOMAIN file = Names(Layers, "out_norm")
                                  /\ \A n \in DOMAIN file : file[n].from = <<source(n), n>>
    BY DEF TensorsAccounted
  <2>1. PICK m : m = models[f]
    OBVIOUS
  <2>2. m \in Exports
    BY <2>1 DEF TypeOK, Whole
  <2>3. CASE m.by = "export"
    <3>1. Tensors(m) = export_to_safetensors(DFlashDraftModel("trained"))
      BY <2>3 DEF Tensors
    <3>2. QED
      BY <2>1, <2>3, <3>1, ExportLoads
  <2>4. CASE m.by # "export"
    <3>1. /\ m.by \in {"produce", "calibrate"} /\ m.upstream \in Upstreams
          /\ m.by = "calibrate" => CanLoadUpstream(m.upstream)
      BY <2>2, <2>4 DEF Exports
    <3>2. PICK up, file : up = m.upstream /\ file = Tensors(m)
      OBVIOUS
    <3>3. \/ file = calibrate_draft(up)
          \/ CanLoadUpstream(up) /\ file = load_upstream_draft(up)
      BY <3>1, <3>2 DEF Tensors
    <3>4. /\ ~load_draft_safetensors(file)
          /\ DOMAIN file = Names(Layers, "out_norm")
          /\ \A n \in DOMAIN file :
               file[n].from = <<IF n \in Lost(up) THEN "init" ELSE "upstream", n>>
      BY <3>1, <3>2, <3>3, UpstreamTensors
    <3>5. QED
      BY <2>1, <2>4, <3>2, <3>4
  <2>5. QED
    BY <2>3, <2>4
<1>2. QED
  BY <1>1, TypeCorrect, PTL

=============================================================================
