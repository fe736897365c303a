------------------------------- MODULE MCCache -------------------------------
(***************************************************************************)
(* What randomx_init_cache goes through, in one run: the streaming of the  *)
(* messages it hashes, what becomes of the key by way of digests, the      *)
(* filling of the memory by Argon2d and the generation of a program of     *)
(* SuperscalarHash.  The instance has four parts.  A behaviour is one of   *)
(* them, and the others stay as they started.                              *)
(***************************************************************************)
EXTENDS Argon2Fill, Blake2Stream, CacheSeed, Superscalar

\* Shorter than what the generator takes, as long and longer; two that differ in a
\* zero at their end.
SomeKeys == {<<>>, <<1>>, <<1, 0>>, <<1, 2, 3, 4>>, <<1, 2, 3, 4, 5>>}

SomeParameters == <<2, 0, 8, 3>>
SomeSalt == <<9, 9>>

VARIABLE part

Parts == {"stream", "seed", "fill", "generator"}

MCInit ==
    /\ part \in Parts
    /\ Init
    /\ StreamInit
    /\ SeedInit
    /\ GeneratorInit
    \* Only the part at work has more than one way to start.
    /\ part # "fill" => impl = "ref"
    /\ part # "stream" => outlen = 1
    /\ (part = "seed") = (blockSize # 0)
MCNext ==
    /\ part' = part
    /\ \/ part = "stream" /\ StreamNext /\ UNCHANGED <<vars, seedVars, generatorVars>>
       \/ part = "seed" /\ SeedNext /\ UNCHANGED <<vars, streamVars, generatorVars>>
       \/ part = "fill" /\ Next /\ UNCHANGED <<streamVars, seedVars, generatorVars>>
       \/ part = "generator" /\ GeneratorNext /\ UNCHANGED <<vars, streamVars, seedVars>>
MCSpec == MCInit /\ [][MCNext]_<<part, vars, streamVars, seedVars, generatorVars>>
=============================================================================
