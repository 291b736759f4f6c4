---------------------------- MODULE DraftWeights ----------------------------
(***************************************************************************)
(* The tensors of a draft model on their way between PyTorch modules and   *)
(* safetensors files: training/export.py, produce.py and calibrate.py,     *)
(* which write them, and safetensors_draft.cpp, which reads them.  A state *)
(* dict is a function from names to tensors, a tensor its shape and where  *)
(* its values come from; a dimension is a name.                            *)
(***************************************************************************)
EXTENDS Integers, Sequences, SequencesExt

CONSTANT Layers  \* num_draft_layers

ASSUME LayersAssumption == Layers \in Nat \ {0}

FC == <<"fc">>

\* Parameters of one decoder layer.
Parts == {"input_layernorm", "post_attention_layernorm", "q_proj", "k_proj", "v_proj",
          "o_proj", "q_norm", "k_norm", "gate_proj", "up_proj", "down_proj"}

\* Names in a model of n layers; the last norm is called differently in a
\* PyTorch module (out_norm) and in the file the loader reads (norm).
Names(n, last) ==
  {FC, <<"hidden_norm">>, <<last>>} \cup {<<"layers", i, p>> : i \in 0..(n - 1), p \in Parts}

\* Shapes as nn.Linear has them: outputs first.
Shape(name) ==
  LET p == Last(name)
  IN  CASE p = "fc" -> <<"hidden", "features">>
        [] p \in {"q_proj"} -> <<"q_dim", "hidden">>
        [] p \in {"k_proj", "v_proj"} -> <<"kv_dim", "hidden">>
        [] p = "o_proj" -> <<"hidden", "q_dim">>
        [] p \in {"q_norm", "k_norm"} -> <<"head_dim">>
        [] p \in {"gate_proj", "up_proj"} -> <<"intermediate", "hidden">>
        [] p = "down_proj" -> <<"hidden", "intermediate">>
        [] OTHER -> <<"hidden">>

Tensor(name, source) == [shape |-> Shape(name), from |-> <<source, name>>]
Transposed(t) == [t EXCEPT !.shape = Reverse(@)]

\* DFlashDraftModel: its state_dict, all of it from one source.
DFlashDraftModel(source) == [n \in Names(Layers, "out_norm") |-> Tensor(n, source)]

-----------------------------------------------------------------------------
\* export.py: out_norm becomes norm, nothing is transposed.
export_to_safetensors(state) ==
  [n \in Names(Layers, "norm") |->
     IF n = <<"norm">> THEN state[<<"out_norm">>] ELSE state[n]]

\* Mutant: the last layers are taken, not the first.
mapLastLayers(upstream) ==
  [n \in Names(Layers, "out_norm") \cap DOMAIN upstream |->
     CASE n = FC -> Transposed(upstream[n])
       [] n[1] = "layers" /\ <<"layers", n[2] + 1, n[3]>> \in DOMAIN upstream
            -> upstream[<<"layers", n[2] + 1, n[3]>>]
       [] OTHER -> upstream[n]]

\* produce.py, and the like in calibrate.py: the upstream tensors the draft has a
\* place for; fc is taken to be stored inputs first.
_map_weights(upstream) ==
  [n \in Names(Layers, "out_norm") \cap DOMAIN upstream |->
     IF n = FC THEN Transposed(upstream[n]) ELSE upstream[n]]

Fits(mapped) == {n \in DOMAIN mapped : mapped[n].shape = Shape(n)}

\* produce.py: what does not fit keeps its initial values, then fc is transposed.
calibrate_draft(upstream) ==
  LET mapped == _map_weights(upstream)
      loaded == [n \in Names(Layers, "out_norm") |->
                   IF n \in Fits(mapped) THEN mapped[n] ELSE Tensor(n, "init")]
  IN  [loaded EXCEPT ![FC] = Transposed(@)]

\* calibrate.py: load_state_dict raises on a shape that does not fit; the steps
\* that follow change nothing.
CanLoadUpstream(upstream) ==
  LET mapped == _map_weights(upstream) IN Fits(mapped) = DOMAIN mapped
load_upstream_draft(upstream) ==
  LET mapped == _map_weights(upstream)
  IN  [n \in Names(Layers, "out_norm") |->
         IF n \in DOMAIN mapped THEN mapped[n] ELSE Tensor(n, "init")]

\* safetensors_draft.cpp: every tensor under the name and with the shape it asks
\* for, as many layers as the file numbers.  It takes BF16 only (260), which is
\* what the three programs write unless export.py is given another --dtype.
load_draft_safetensors(file) ==
  \E n \in 1..(2 * Layers) :
    /\ \E last \in {"norm", "out_norm"} : DOMAIN file = Names(n, last)
    /\ \A name \in Names(n, "norm") : name \in DOMAIN file /\ file[name].shape = Shape(name)

\* An upstream release of n layers, fc stored outputs or inputs first.
Upstream(n, last, transposed) ==
  [name \in Names(n, last) |->
     IF name = FC /\ transposed THEN Transposed(Tensor(name, "upstream"))
     ELSE Tensor(name, "upstream")]
=============================================================================
