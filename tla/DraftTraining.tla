--------------------------- MODULE DraftTraining ---------------------------
(***************************************************************************)
(* The draft training jobs of training/: pipeline.py and the programs it   *)
(* runs or shares files with.  A sequence of invocations works on three    *)
(* directories that outlive them: traces, checkpoints and exported models. *)
(* Any invocation may be killed; a file being written is then torn.        *)
(*                                                                         *)
(* Losses are arbitrary; the learning rate schedule is left out.  A model  *)
(* is the invocation it was created in and the optimizer steps and epochs  *)
(* it has been through.                                                    *)
(***************************************************************************)
EXTENDS DraftWeights, Integers, FiniteSetsExt

CONSTANTS
  NumPrompts,      \* lines of the prompts file
  Lengths,         \* n_steps of a trace: what generation may give
  BlockSize, AnchorsPerTrace, Workers, Epochs, GradAccum, SaveInterval,
  Losses,          \* average losses
  Shuffle,         \* paths in the order the seed gives, by the set of them
  UpstreamLayers,  \* layers of the upstream draft
  MaxInvocations,  \* bound on the number of invocations
  Torn,            \* contents of a file whose writing was cut short
  None

Prompts == 1..NumPrompts
ASSUME SizesAssumption ==
  /\ {NumPrompts, BlockSize, AnchorsPerTrace, Workers, Epochs, GradAccum, SaveInterval,
      MaxInvocations} \subseteq Nat \ {0}
  /\ Lengths \subseteq Nat /\ Losses \subseteq Nat

\* The patterns that match a trace's file: it is listed once for each.
Globs == {"trace_*.pt", "trace_*"}
ASSUME ShuffleAssumption ==
  \A paths \in SUBSET (Prompts \X Globs) :
    Shuffle[paths] \in Bijection(1..Cardinality(paths), paths)

\* float("inf"), and NaN as an average: nothing is greater, or less than either.
Inf == Max(Losses \cup {0}) + 1
ASSUME LossAssumption == Inf \in Nat /\ \A avg \in Losses : avg < Inf

VARIABLES
  traces,     \* trace_dir: length of each prompt's trace, Torn or None
  ckpts,      \* checkpoint_dir: names to checkpoints or Torn
  models,     \* output_dir: "model" and "named" to exports, Torn or None
  runs,       \* invocations so far
  plan,       \* what this one was asked to do
  pc,         \* stage it is in, "idle" when none runs
  writing,    \* files the last step is writing, in order: <<name, contents>>
  prompt,     \* loop index of trace generation
  net,        \* the model being trained
  epoch, batches, queue, step, best  \* locals of train.py: epoch, batch_idx, the
                                     \* blocks to come, global_step, best_loss

disk == <<traces, ckpts, models>>
locals == <<prompt, net, epoch, batches, queue, step, best>>
vars == <<disk, runs, plan, pc, writing, locals>>

Whole(f) == f \notin {None, Torn}

-----------------------------------------------------------------------------
(* The dataset                                                             *)

\* The matches of the globs for the traces on disk.
Matches == {p \in Prompts : traces[p] # None} \X Globs

\* Sorted, then shuffled with a fixed seed.
TracePaths == Shuffle[Matches]

\* Mutant: a slice ends one path too late.
SliceOverlaps(paths, w) ==
  LET per == Len(paths) \div Workers
  IN  (w * per + 1)..Min({(w + 1) * per + 1, Len(paths)})

\* The indices of the share of worker w; the last takes what the division leaves.
Slice(paths, w) ==
  LET per == Len(paths) \div Workers
  IN  (w * per + 1)..(IF w < Workers - 1 THEN (w + 1) * per ELSE Len(paths))

\* How many anchors _process_trace samples, from 0..(n_steps - BlockSize - 1).
Anchors(n) == IF n <= BlockSize THEN 0 ELSE Min({AnchorsPerTrace, n - BlockSize})

\* The blocks of a trace, by number; a file that cannot be loaded is skipped.
BlocksOf(p) == 1..(IF Whole(traces[p]) THEN Anchors(traces[p]) ELSE 0)

\* The blocks of an epoch: by which worker, of which path and which of its blocks.
Blocks ==
  {b \in (0..(Workers - 1)) \X (DOMAIN TracePaths) \X (1..AnchorsPerTrace) :
     b[2] \in Slice(TracePaths, b[1]) /\ b[3] \in BlocksOf(TracePaths[b[2]][1])}

-----------------------------------------------------------------------------
(* Invocations                                                             *)

\* main of pipeline.py, with its --skip options; of trace_generator.py and
\* generate_traces; of train.py with --resume or --max-steps.
Plans ==
  LET pipeline ==
        [stages : {s \in SUBSET {"traces", "train", "export", "validate"} : s # {}},
         skip : {TRUE}, resume : {None}, max_steps : {0}]
      generator == [stages : {{"traces"}}, skip : BOOLEAN, resume : {None}, max_steps : {0}]
      train == [stages : {{"train"}}, skip : {TRUE}, resume : DOMAIN ckpts \cup {None},
                max_steps : {0, 1}]
  IN  pipeline \cup generator \cup train

Order == <<"traces", "train", "export", "validate">>
Following(stage) ==
  LET left == {j \in DOMAIN Order : Order[j] \in plan.stages /\
                 \E i \in DOMAIN Order : Order[i] = stage /\ i < j}
  IN  IF left = {} THEN "idle" ELSE Order[Min(left)]

\* Every program starts with fresh locals.
Enter(stage) ==
  /\ pc' = stage
  /\ prompt' = 1 /\ epoch' = None /\ net' = None
  /\ batches' = 0 /\ queue' = {} /\ step' = 0
  /\ UNCHANGED best

Invoke ==
  /\ pc = "idle" /\ writing = <<>> /\ runs < MaxInvocations
  /\ runs' = runs + 1
  /\ plan' \in Plans
  /\ Enter(Order[Min({i \in DOMAIN Order : Order[i] \in plan'.stages})])
  /\ UNCHANGED <<disk, writing>>

\* The file of this name now holds this.
Save(name, contents) ==
  /\ traces' = IF name[1] = "trace" THEN [traces EXCEPT ![name[2]] = contents] ELSE traces
  /\ ckpts' = IF name[1] = "ckpt"
              THEN [n \in DOMAIN ckpts \cup {name[2]} |->
                      IF n = name[2] THEN contents ELSE ckpts[n]]
              ELSE ckpts
  /\ models' = IF name[1] = "out" THEN [models EXCEPT ![name[2]] = contents] ELSE models

\* One file is complete.
Write ==
  /\ writing # <<>>
  /\ Save(writing[1][1], writing[1][2])
  /\ writing' = Tail(writing)
  /\ UNCHANGED <<runs, plan, pc, locals>>

\* Killed, between two steps, before a file is touched or in the middle of it.
Kill ==
  /\ pc # "idle" \/ writing # <<>>
  /\ Enter("idle")
  /\ writing' = <<>>
  /\ \/ UNCHANGED disk
     \/ writing # <<>> /\ Save(writing[1][1], Torn)
  /\ UNCHANGED <<runs, plan>>

At(stage) == pc = stage /\ writing = <<>>

-----------------------------------------------------------------------------
(* Traces                                                                  *)

\* One turn of the loop: a trace on disk is left alone unless the generator runs
\* without --resume; generation may fail, or be too short to keep.  Saving may
\* fail, too: the file is torn, the error is caught and the loop goes on.
GenerateTrace ==
  /\ At("traces") /\ prompt \in Prompts
  /\ \/ UNCHANGED writing
     \/ /\ ~(plan.skip /\ traces[prompt] # None)
        /\ \E n \in Lengths \cup {Torn} : writing' = << <<<<"trace", prompt>>, n>> >>
  /\ prompt' = prompt + 1
  /\ UNCHANGED <<disk, runs, plan, pc, net, epoch, batches, queue, step, best>>

EndTraces ==
  /\ At("traces") /\ prompt \notin Prompts
  /\ Enter(Following("traces"))
  /\ UNCHANGED <<disk, runs, plan, writing>>

-----------------------------------------------------------------------------
(* Training                                                                *)

\* Mutant: best_loss outlives the program.
StartTrainingKeepsBest ==
  /\ At("train") /\ epoch = None
  /\ UNCHANGED best
  /\ batches' = 0 /\ queue' = Blocks
  /\ net' = [born |-> runs, steps |-> 0, passes |-> 0, cut |-> FALSE]
  /\ epoch' = 0 /\ step' = 0
  /\ UNCHANGED <<disk, runs, plan, pc, writing, prompt>>

\* Mutant: the epoch of a checkpoint counts as done.
StartTrainingAfter ==
  /\ At("train") /\ epoch = None
  /\ best' = Inf
  /\ batches' = 0 /\ queue' = Blocks
  /\ IF plan.resume # None /\ ckpts[plan.resume] # Torn
     THEN LET c == ckpts[plan.resume]
          IN  net' = c.net /\ epoch' = c.epoch + 1 /\ step' = c.step
     ELSE /\ net' = [born |-> runs, steps |-> 0, passes |-> 0, cut |-> FALSE]
          /\ epoch' = 0 /\ step' = 0
  /\ UNCHANGED <<disk, runs, plan, pc, writing, prompt>>

\* A new model, or that of --resume with its epoch and step; best_loss starts
\* anew, and so does the epoch.  A torn checkpoint cannot be loaded.
StartTraining ==
  /\ At("train") /\ epoch = None
  /\ IF plan.resume # None /\ ckpts[plan.resume] = Torn
     THEN Enter("idle")
     ELSE /\ IF plan.resume # None
             THEN LET c == ckpts[plan.resume]
                  IN  net' = c.net /\ epoch' = c.epoch /\ step' = c.step
             ELSE /\ net' = [born |-> runs, steps |-> 0, passes |-> 0, cut |-> FALSE]
                  /\ epoch' = 0 /\ step' = 0
          /\ best' = Inf
          /\ batches' = 0 /\ queue' = Blocks
          /\ UNCHANGED <<pc, prompt>>
  /\ UNCHANGED <<disk, runs, plan, writing>>

\* Names of checkpoints; what they hold, a loaded model included.
CheckpointNames == {<<"best">>, <<"final">>} \cup ({"step", "epoch"} \X Nat)
Models == [born : Nat, steps : Nat, passes : Nat, cut : BOOLEAN]
Checkpoints == [net : Models, epoch : Nat, step : Nat, run : Nat, avg : Nat]

\* save_checkpoint: what it stores, who stored it and at what average loss.
Checkpoint(name, n, e, s, avg) ==
  <<<<"ckpt", name>>, [net |-> n, epoch |-> e, step |-> s, run |-> runs, avg |-> avg]>>

\* The check of max_steps comes after a block.
Enough == plan.max_steps # 0 /\ step >= plan.max_steps
InEpoch == At("train") /\ epoch # None /\ epoch < Epochs
EpochOver == queue = {} \/ (batches > 0 /\ Enough)

\* Mutant: best_loss is not updated.
BestForgotten(avg) == best

\* best_loss after a save at average loss avg.
BestAfter(avg) == Min({best, avg})

\* A block, in the DataLoader's order; every GradAccum-th steps.  As long as the
\* step count stays a multiple of SaveInterval each block saves, first step_N,
\* then perhaps best.
Batch ==
  /\ InEpoch /\ ~EpochOver
  /\ \E block \in queue : queue' = queue \ {block}
  /\ batches' = batches + 1
  /\ LET stepped == IF (batches + 1) % GradAccum = 0 THEN 1 ELSE 0
     IN  step' = step + stepped /\ net' = [net EXCEPT !.steps = @ + stepped]
  /\ IF step' > 0 /\ step' % SaveInterval = 0
     THEN \E avg \in Losses \cup {Inf} :
            /\ best' = BestAfter(avg)
            /\ writing' = <<Checkpoint(<<"step", step'>>, net', epoch, step', avg)>> \o
                 (IF avg < best
                  THEN <<Checkpoint(<<"best">>, net', epoch, step', avg)>> ELSE <<>>)
     ELSE UNCHANGED <<best, writing>>
  /\ UNCHANGED <<disk, runs, plan, pc, prompt, epoch>>

\* The epoch's checkpoint counts the epoch as done, also when max_steps cut it.
\* Its average is not compared with best_loss (avg is 0, as in final.pt), and the
\* gradients of blocks after the last step are dropped, though they were seen.
EndEpoch ==
  /\ InEpoch /\ EpochOver
  /\ net' = IF queue = {} THEN [net EXCEPT !.passes = @ + 1] ELSE [net EXCEPT !.cut = TRUE]
  /\ writing' = <<Checkpoint(<<"epoch", epoch + 1>>, net', epoch + 1, step, 0)>>
  /\ epoch' = IF Enough THEN Epochs ELSE epoch + 1
  /\ batches' = 0
  /\ queue' = Blocks
  /\ UNCHANGED <<disk, runs, plan, pc, prompt, step, best>>

Finish ==
  /\ At("train") /\ epoch # None /\ epoch >= Epochs
  /\ writing' = <<Checkpoint(<<"final">>, net, Epochs, step, 0)>>
  /\ Enter(Following("train"))
  /\ UNCHANGED <<disk, runs, plan>>

-----------------------------------------------------------------------------
(* Export, calibration and validation                                      *)

\* The first that exists is exported.
Candidates == << <<"best">>, <<"epoch", Epochs>>, <<"final">> >>

\* export_model: without a checkpoint it returns False, and main goes on; a torn
\* one makes export.py fail.
Export ==
  /\ At("export")
  /\ LET found == {i \in DOMAIN Candidates : Candidates[i] \in DOMAIN ckpts}
         name == Candidates[Min(found)]
         file == [by |-> "export", upstream |-> None, name |-> name, ckpt |-> ckpts[name]]
     IN  IF found # {} /\ ckpts[name] = Torn
         THEN Enter("idle") /\ UNCHANGED writing
         ELSE /\ Enter(Following("export"))
              /\ writing' = IF found = {} THEN <<>>
                            ELSE << <<<<"out", "model">>, file>>, <<<<"out", "named">>, file>> >>
  /\ UNCHANGED <<disk, runs, plan>>

\* validate_draft runs the runtime on whatever file there is; main ignores its
\* verdict.
Validate ==
  /\ At("validate")
  /\ Enter("idle")
  /\ UNCHANGED <<disk, runs, plan, writing>>

Upstreams ==
  {Upstream(UpstreamLayers, last, t) : last \in {"norm", "out_norm"}, t \in BOOLEAN}

\* What a model file holds: who wrote it and from what.
Exports ==
  [by : {"export"}, upstream : {None}, name : CheckpointNames, ckpt : Checkpoints] \cup
  [by : {"produce"}, upstream : Upstreams, name : {None}, ckpt : {None}] \cup
  [by : {"calibrate"}, upstream : {up \in Upstreams : CanLoadUpstream(up)},
   name : {None}, ckpt : {None}]

\* None, and what a torn file holds, are nothing that a program stores.
ASSUME NoneAssumption ==
  /\ Torn # None
  /\ \A v \in {None, Torn} : v \notin Nat /\ v \notin Checkpoints /\ v \notin Exports

\* produce.py and calibrate.py write to the same directory.
Calibrate ==
  /\ pc = "idle" /\ writing = <<>> /\ runs < MaxInvocations
  /\ runs' = runs + 1
  /\ \E up \in Upstreams :
       LET file(by) == [by |-> by, upstream |-> up, name |-> None, ckpt |-> None]
       IN  \/ writing' = << <<<<"out", "model">>, file("produce")>> >>
           \/ /\ CanLoadUpstream(up)
              /\ writing' = << <<<<"out", "named">>, file("calibrate")>> >>
  /\ UNCHANGED <<disk, plan, pc, locals>>

\* The tensors of an exported file.
Tensors(m) ==
  CASE m.by = "export" -> export_to_safetensors(DFlashDraftModel("trained"))
    [] m.by = "produce" -> calibrate_draft(m.upstream)
    [] m.by = "calibrate" -> load_upstream_draft(m.upstream)

-----------------------------------------------------------------------------
Init ==
  /\ traces = [p \in Prompts |-> None]
  /\ ckpts = <<>>
  /\ models = [f \in {"model", "named"} |-> None]
  /\ runs = 0
  /\ plan = None
  /\ pc = "idle"
  /\ writing = <<>>
  /\ prompt = 1 /\ net = None /\ epoch = None
  /\ batches = 0 /\ queue = {} /\ step = 0 /\ best = Inf

Done == runs = MaxInvocations /\ pc = "idle" /\ writing = <<>> /\ UNCHANGED vars

Next ==
  \/ Invoke \/ Write \/ Kill \/ GenerateTrace \/ EndTraces
  \/ StartTraining \/ Batch \/ EndEpoch \/ Finish
  \/ Export \/ Validate \/ Calibrate \/ Done

Spec == Init /\ [][Next]_vars

-----------------------------------------------------------------------------
(* Properties                                                              *)

\* An epoch has every block of every trace that can be read, twice over, and
\* the division among the workers loses none: torn files are passed over.
EpochCoversTraces ==
  InEpoch /\ batches = 0 =>
    \A p \in Prompts :
      Cardinality({block \in queue : TracePaths[block[2]][1] = p})
        = 2 * Cardinality(BlocksOf(p))

\* epoch_k.pt holds a model that has seen all of the data k times, however often
\* training was killed and resumed, unless max_steps cut an epoch short.
EpochsTrained ==
  \A name \in DOMAIN ckpts :
    name[1] = "epoch" /\ Whole(ckpts[name]) /\ ~ckpts[name].net.cut
      => ckpts[name].net.passes >= name[2]

\* The step checkpoints of this invocation that have an average to compare.
Saved ==
  {name \in DOMAIN ckpts :
     /\ name[1] = "step" /\ Whole(ckpts[name])
     /\ ckpts[name].run = runs /\ ckpts[name].avg < Inf}
BeforeLast(names) == {name \in names : \E later \in names : later[2] > name[2]}

\* best.pt is of this invocation and as good as each of these.
BestCovers(names) ==
  names # {} =>
    /\ <<"best">> \in DOMAIN ckpts /\ Whole(ckpts[<<"best">>])
    /\ ckpts[<<"best">>].run = runs
    /\ \A name \in names : ckpts[<<"best">>].avg <= ckpts[name].avg

\* Its training was stopped: final.pt is not there, or not its own.
Unfinished ==
  pc = "idle" /\ ~(/\ <<"final">> \in DOMAIN ckpts /\ Whole(ckpts[<<"final">>])
                  /\ ckpts[<<"final">>].run = runs)

\* best.pt is at least as good as every step checkpoint that the invocation
\* saved, whether pipeline.py runs train.py or it runs alone, anew or resumed.
\* A kill while best.pt is due, or torn, can cost the last of them, or best.pt.
\* (epoch_k.pt and final.pt are not compared and may be better.)
BestIsLowest ==
  \/ BestCovers(Saved)
  \/ /\ Unfinished \/ (writing # <<>> /\ writing[1][1] = <<"ckpt", <<"best">>>>)
     /\ \/ BestCovers(BeforeLast(Saved))
        \/ <<"best">> \in DOMAIN ckpts /\ ckpts[<<"best">>] = Torn

\* What a pipeline trains it exports; an older best.pt is taken instead only if
\* this training saved none: it was too short, or no average was a number.
FreshExport ==
  pc = "validate" /\ writing = <<>> /\ {"train", "export"} \subseteq plan.stages =>
    LET m == models["model"]
    IN  /\ Whole(m) /\ m.by = "export"
        /\ \/ m.ckpt.run = runs
           \/ /\ m.name = <<"best">>
              /\ \A name \in DOMAIN ckpts :
                   name[1] = "step" /\ Whole(ckpts[name]) /\ ckpts[name].avg < Inf
                     => ckpts[name].run # runs

\* Tensors of a file of produce.py or calibrate.py that keep their initial
\* values: what upstream does not have under this name, a final norm that is
\* called norm among them, and an fc that is stored outputs first.
Lost(upstream) ==
  {n \in Names(Layers, "out_norm") :
     n \notin DOMAIN upstream \/ (n = FC /\ upstream[n].shape = Shape(n))}

\* Where each tensor of a model file comes from.  export.py stores all of the
\* trained module, and the loader takes the file.  produce.py and calibrate.py
\* store the upstream tensor of the same name and layer for all but the Lost,
\* fc and norms included, and the loader refuses their files.
TensorsAccounted ==
  \A f \in {g \in DOMAIN models : Whole(models[g])} :
    LET m == models[f]
        file == Tensors(m)
        own(n) == IF n = <<"norm">> THEN <<"out_norm">> ELSE n
        source(n) == IF n \in Lost(m.upstream) THEN "init" ELSE "upstream"
    IN  /\ load_draft_safetensors(file) <=> m.by = "export"
        /\ IF m.by = "export"
           THEN \A n \in DOMAIN file : file[n].from = <<"trained", own(n)>>
           ELSE /\ DOMAIN file = Names(Layers, "out_norm")
                /\ \A n \in DOMAIN file : file[n].from = <<source(n), n>>
=============================================================================
