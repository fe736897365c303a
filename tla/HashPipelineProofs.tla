-------------------------- MODULE HashPipelineProofs --------------------------
(***************************************************************************)
(* Proofs about HashPipeline: for any number of threads, machines and      *)
(* programs per hash, the calls deliver the hashes that HashSequence       *)
(* promises.  A hash is a recursive function of the number of programs;    *)
(* what is proved about it by induction rests on the least element of a    *)
(* set of numbers.  The second half is about the mining threads, which use *)
(* the pipeline, for any number of threads, nonces and words.              *)
(***************************************************************************)
EXTENDS HashPipeline, Mining, FiniteSetTheorems, WellFoundedInduction, TLAPS

-----------------------------------------------------------------------------
(* Induction, and the executions that make up a hash.                      *)

\* The order of the numbers is well-founded: every set of them has a least one.
Less == {p \in Nat \X Nat : p[1] < p[2]}

LEMMA Least ==
    ASSUME NEW S \in SUBSET Nat, S # {}
    PROVE  \E n \in S : \A m \in S : n <= m
<1>1. OpToRel(<, Nat) = Less
  BY DEF OpToRel, Less
<1>2. PICK n \in S : \A m \in S : <<m, n>> \notin Less
  BY <1>1, NatLessThanWellFounded, WFMin
<1>3. ASSUME NEW m \in S PROVE n <= m
  <2>1. ~(m < n)
    BY <1>2 DEF Less
  <2>2. QED
    BY <2>1
<1>4. QED
  BY <1>2, <1>3

\* The recursion of Chain, one equation for each number of programs.
FirstRun(config, x) == Execution(Advanced(Blake(x)), Fill(Blake(x)), Nearest, config)
NextRun(config, e) == Execution(Blake(Registers(e)), ScratchpadAfter(e), CfRound(e), config)

IsRun(n, config, x, f) ==
   f = [i \in 0 .. n - 1 |-> IF i = 0 THEN FirstRun(config, x) ELSE NextRun(config, f[i - 1])]

\* Of functions that satisfy it there is one for every number of programs, so that
\* Chain is one.
LEMMA RunsExist == \A config, x : \A n \in Nat : \E f : IsRun(n, config, x, f)
<1> SUFFICES ASSUME NEW config, NEW x PROVE \A n \in Nat : \E f : IsRun(n, config, x, f)
  OBVIOUS
<1> DEFINE S == {n \in Nat : ~ \E f : IsRun(n, config, x, f)}
<1>1. SUFFICES ASSUME S # {} PROVE FALSE
  OBVIOUS
<1>2. PICK n \in S : \A m \in S : n <= m
  BY <1>1, Least
<1>3. CASE n = 0
  <2>1. IsRun(0, config, x, [i \in 0 .. 0 - 1 |-> 0])
    BY DEF IsRun
  <2>2. QED
    BY <1>2, <1>3, <2>1
<1>4. CASE n > 0
  <2>1. n - 1 \in Nat /\ n - 1 \notin S
    BY <1>2, <1>4
  <2>2. PICK f : IsRun(n - 1, config, x, f)
    BY <2>1
  <2> DEFINE g == [i \in 0 .. n - 1 |-> IF i = 0 THEN FirstRun(config, x) ELSE NextRun(config, f[i - 1])]
  <2>3. ASSUME NEW i \in 0 .. n - 1, i > 0 PROVE g[i - 1] = f[i - 1]
    BY <1>2, <1>4, <2>2, <2>3 DEF IsRun
  <2>4. PICK h : h = g
    OBVIOUS
  <2>5. ASSUME NEW i \in 0 .. n - 1
        PROVE  h[i] = IF i = 0 THEN FirstRun(config, x) ELSE NextRun(config, h[i - 1])
    <3>1. CASE i = 0
      BY <2>4, <3>1
    <3>2. CASE i > 0
      <4>1. h[i - 1] = f[i - 1]
        BY <2>3, <2>4, <3>2
      <4>2. h[i] = NextRun(config, f[i - 1])
        BY <2>4, <3>2
      <4>3. QED
        BY <3>2, <4>1, <4>2
    <3>3. QED
      BY <3>1, <3>2
  <2>6. h = [i \in 0 .. n - 1 |-> h[i]]
    BY <2>4
  <2>7. h = [i \in 0 .. n - 1 |-> IF i = 0 THEN FirstRun(config, x) ELSE NextRun(config, h[i - 1])]
    BY <2>5, <2>6
  <2>8. IsRun(n, config, x, h)
    BY <2>7 DEF IsRun
  <2>9. QED
    BY <1>2, <2>8
<1>5. QED
  BY <1>2, <1>3, <1>4

LEMMA ChainRuns == \A config, x : IsRun(ProgramCount, config, x, Chain(config, x))
<1> SUFFICES ASSUME NEW config, NEW x PROVE IsRun(ProgramCount, config, x, Chain(config, x))
  OBVIOUS
<1>1. PICK f : IsRun(ProgramCount, config, x, f)
  BY RunsExist, ProgramCountAssumption
<1>2. QED
  BY <1>1 DEF Chain, IsRun, FirstRun, NextRun

-----------------------------------------------------------------------------
(* A hash determines its input and its configuration.                      *)

LEMMA ChainStarts == \A config, x : Chain(config, x)[0] = FirstRun(config, x)
<1> SUFFICES ASSUME NEW config, NEW x PROVE Chain(config, x)[0] = FirstRun(config, x)
  OBVIOUS
<1>1. IsRun(ProgramCount, config, x, Chain(config, x))
  BY ChainRuns
<1>2. 0 \in 0 .. ProgramCount - 1
  BY ProgramCountAssumption
<1>3. QED
  BY <1>1, <1>2 DEF IsRun

LEMMA ChainGoesOn ==
    \A config, x : \A i \in 1 .. ProgramCount - 1 :
        Chain(config, x)[i] = NextRun(config, Chain(config, x)[i - 1])
<1> SUFFICES ASSUME NEW config, NEW x, NEW i \in 1 .. ProgramCount - 1
             PROVE  Chain(config, x)[i] = NextRun(config, Chain(config, x)[i - 1])
  OBVIOUS
<1>1. IsRun(ProgramCount, config, x, Chain(config, x))
  BY ChainRuns
<1>2. i \in 0 .. ProgramCount - 1 /\ i # 0
  BY ProgramCountAssumption
<1>3. QED
  BY <1>1, <1>2 DEF IsRun

LEMMA SameExecution ==
    ASSUME NEW e, NEW f, ScratchpadAfter(e) = ScratchpadAfter(f)
    PROVE  e = f
<1>1. 1 \in 1 .. BlockCount
  BY BlockCountAssumption
<1>2. ScratchpadAfter(e)[1] = ScratchpadAfter(f)[1]
  OBVIOUS
<1>3. [scratchpadOf |-> e, block |-> 1] = [scratchpadOf |-> f, block |-> 1]
  BY <1>1, <1>2 DEF ScratchpadAfter
<1>4. QED
  BY <1>3

LEMMA SameStep ==
    ASSUME NEW k, NEW e, NEW l, NEW f, NextRun(k, e) = NextRun(l, f)
    PROVE  k = l /\ e = f
<1>1. k = l /\ ScratchpadAfter(e) = ScratchpadAfter(f)
  BY DEF NextRun, Execution
<1>2. QED
  BY <1>1, SameExecution

LEMMA SameStart ==
    ASSUME NEW k, NEW x, NEW l, NEW y, FirstRun(k, x) = FirstRun(l, y)
    PROVE  k = l /\ x = y
<1>1. k = l /\ Advanced(Blake(x)) = Advanced(Blake(y))
  BY DEF FirstRun, Execution
<1>2. Blake(x) = Blake(y)
  BY <1>1 DEF Advanced, FillState
<1>3. QED
  BY <1>1, <1>2 DEF Blake

LEMMA HashDetermines ==
    ASSUME NEW k, NEW x, NEW l, NEW y, RandomXHash(k, x) = RandomXHash(l, y)
    PROVE  k = l /\ x = y
<1> DEFINE S == {i \in 0 .. ProgramCount - 1 : Chain(k, x)[i] = Chain(l, y)[i]}
<1>1. ProgramCount - 1 \in S
  <2>1. ScratchpadAfter(Chain(k, x)[ProgramCount - 1]) = ScratchpadAfter(Chain(l, y)[ProgramCount - 1])
    BY DEF RandomXHash, FinalResult
  <2>2. Chain(k, x)[ProgramCount - 1] = Chain(l, y)[ProgramCount - 1]
    BY <2>1, SameExecution
  <2>3. QED
    BY <2>2, ProgramCountAssumption
<1>2. S \subseteq Nat
  BY ProgramCountAssumption
<1>3. PICK n \in S : \A m \in S : n <= m
  BY <1>1, <1>2, Least
<1>4. n = 0
  <2>1. SUFFICES ASSUME n # 0 PROVE FALSE
    OBVIOUS
  <2>2. n \in 1 .. ProgramCount - 1 /\ n - 1 \in 0 .. ProgramCount - 1
    BY <2>1, ProgramCountAssumption
  <2>3. NextRun(k, Chain(k, x)[n - 1]) = NextRun(l, Chain(l, y)[n - 1])
    BY <2>2, ChainGoesOn
  <2>4. Chain(k, x)[n - 1] = Chain(l, y)[n - 1]
    BY <2>3, SameStep
  <2>5. n - 1 \in S
    BY <2>2, <2>4
  <2>6. QED
    BY <1>3, <2>2, <2>5
<1>5. Chain(k, x)[0] = Chain(l, y)[0]
  BY <1>4
<1>6. FirstRun(k, x) = FirstRun(l, y)
  BY <1>5, ChainStarts
<1>7. QED
  BY <1>6, SameStart

LEMMA HashIsShown ==
    ASSUME NEW k \in Configs, NEW x \in Inputs
    PROVE  Shown(RandomXHash(k, x)) = <<k, x>>
<1>1. PICK o : o = RandomXHash(k, x)
  OBVIOUS
<1>2. o # None
  BY <1>1, HashAssumption
<1>3. \E l \in Configs, y \in Inputs : o = RandomXHash(l, y)
  BY <1>1
<1>4. \A p \in Configs \X Inputs : o = RandomXHash(p[1], p[2]) => p = <<k, x>>
  <2>1. SUFFICES ASSUME NEW p \in Configs \X Inputs, o = RandomXHash(p[1], p[2])
                 PROVE  p = <<k, x>>
    OBVIOUS
  <2>2. PICK l, y : p = <<l, y>> /\ l = p[1] /\ y = p[2]
    OBVIOUS
  <2>3. RandomXHash(l, y) = RandomXHash(k, x)
    BY <1>1, <2>1, <2>2
  <2>4. QED
    BY <2>2, <2>3, HashDetermines
<1>5. <<k, x>> \in Configs \X Inputs /\ o = RandomXHash(<<k, x>>[1], <<k, x>>[2])
  BY <1>1
<1>6. (CHOOSE p \in Configs \X Inputs : o = RandomXHash(p[1], p[2])) = <<k, x>>
  BY <1>4, <1>5
<1>7. QED
  BY <1>1, <1>2, <1>3, <1>6 DEF Shown


-----------------------------------------------------------------------------
(* The invariant.                                                          *)

LEMMA IdleIsNoCall ==
    ASSUME NEW c, IsCall(c)
    PROVE  /\ c # Idle /\ c.vm \in VMs /\ c.vm # None /\ c.op \in {"hash", "next", "last"}
           /\ c.chain \in 0 .. ProgramCount /\ c.input \in Inputs \cup {None}
           /\ c.did \in 0 .. 3 /\ c.pass \in 0 .. 2
BY NoneAssumption DEF IsCall, Idle

\* A call with other values in some of its local variables.
Local(c, did, chain, pass, seed, saved, hashed) ==
    [op |-> c.op, vm |-> c.vm, input |-> c.input, did |-> did, chain |-> chain, pass |-> pass,
     seed |-> seed, saved |-> saved, hashed |-> hashed, entered |-> c.entered]

\* A call goes on with other values in its local variables.
GoesOnWith(t, did, chain, pass, seed, saved, hashed) ==
    /\ \A u \in Threads : u # t => call'[u] = call[u]
    /\ Over(Threads, call')
    /\ \A u \in Threads : call'[u] = Idle \/ IsCall(call'[u])
    /\ IsCall(call'[t])
    /\ call'[t].op = call[t].op /\ call'[t].vm = call[t].vm /\ call'[t].input = call[t].input
    /\ call'[t].did = did /\ call'[t].chain = chain /\ call'[t].pass = pass
    /\ call'[t].seed = seed /\ call'[t].saved = saved /\ call'[t].hashed = hashed
    /\ call'[t].entered = call[t].entered

LEMMA CallGoesOn ==
    ASSUME Shapes, NEW t \in Threads, IsCall(call[t]),
           NEW did \in 0 .. 3, NEW chain \in 0 .. ProgramCount, NEW pass \in 0 .. 2,
           NEW seed, NEW saved, NEW hashed,
           call' = [call EXCEPT ![t] = Local(call[t], did, chain, pass, seed, saved, hashed)]
    PROVE  GoesOnWith(t, did, chain, pass, seed, saved, hashed)
<1>1. PICK c : c = Local(call[t], did, chain, pass, seed, saved, hashed)
  OBVIOUS
<1>2. Over(Threads, call)
  BY DEF Shapes
<1>3. /\ call'[t] = c /\ Over(Threads, call')
      /\ \A u \in Threads : u # t => call'[u] = call[u]
  BY <1>1, <1>2 DEF Over
<1>4. call[t].op \in {"hash", "next", "last"} /\ call[t].vm \in VMs /\ call[t].input \in Inputs \cup {None}
  BY IdleIsNoCall
<1>5. IsCall(c)
  BY <1>1, <1>4 DEF IsCall, Local
<1>6. \A u \in Threads : call'[u] = Idle \/ IsCall(call'[u])
  BY <1>3, <1>5 DEF Shapes
<1>7. /\ c.op = call[t].op /\ c.vm = call[t].vm /\ c.input = call[t].input
      /\ c.did = did /\ c.chain = chain /\ c.pass = pass
      /\ c.seed = seed /\ c.saved = saved /\ c.hashed = hashed /\ c.entered = call[t].entered
  BY <1>1 DEF Local
<1>8. QED
  BY <1>3, <1>5, <1>6, <1>7 DEF GoesOnWith

\* The local variables that the actions change.
LEMMA DidChanges ==
    ASSUME Shapes, NEW t \in Threads, IsCall(call[t]), NEW did \in 0 .. 3,
           call' = [call EXCEPT ![t].did = did]
    PROVE  GoesOnWith(t, did, call[t].chain, call[t].pass, call[t].seed, call[t].saved, call[t].hashed)
<1>1. PICK c : c = call[t]
  OBVIOUS
<1>2. PICK op0, vm0, input0, did0, chain0, pass0, seed0, saved0, hashed0, entered0 :
         c = [op |-> op0, vm |-> vm0, input |-> input0, did |-> did0, chain |-> chain0, pass |-> pass0,
              seed |-> seed0, saved |-> saved0, hashed |-> hashed0, entered |-> entered0]
  BY <1>1 DEF IsCall
<1>3. PICK d : d = [c EXCEPT !.did = did]
  OBVIOUS
<1>4. call' = [call EXCEPT ![t] = d]
  BY <1>1, <1>3 DEF Shapes, Over
<1>5. d = [op |-> op0, vm |-> vm0, input |-> input0, did |-> did, chain |-> chain0, pass |-> pass0,
           seed |-> seed0, saved |-> saved0, hashed |-> hashed0, entered |-> entered0]
  BY <1>2, <1>3
<1>6. d = Local(call[t], did, call[t].chain, call[t].pass, call[t].seed, call[t].saved, call[t].hashed)
  BY <1>1, <1>2, <1>5 DEF Local
<1>7. c.did \in 0 .. 3 /\ c.chain \in 0 .. ProgramCount /\ c.pass \in 0 .. 2
  BY <1>1, IdleIsNoCall
<1>8. QED
  BY <1>1, <1>4, <1>6, <1>7, CallGoesOn

LEMMA SavedChanges ==
    ASSUME Shapes, NEW t \in Threads, IsCall(call[t]), NEW did \in 0 .. 3, NEW saved,
           call' = [call EXCEPT ![t].did = did, ![t].saved = saved]
    PROVE  GoesOnWith(t, did, call[t].chain, call[t].pass, call[t].seed, saved, call[t].hashed)
<1>1. PICK c : c = call[t]
  OBVIOUS
<1>2. PICK op0, vm0, input0, did0, chain0, pass0, seed0, saved0, hashed0, entered0 :
         c = [op |-> op0, vm |-> vm0, input |-> input0, did |-> did0, chain |-> chain0, pass |-> pass0,
              seed |-> seed0, saved |-> saved0, hashed |-> hashed0, entered |-> entered0]
  BY <1>1 DEF IsCall
<1>3. PICK d : d = [c EXCEPT !.did = did, !.saved = saved]
  OBVIOUS
<1>4. call' = [call EXCEPT ![t] = d]
  BY <1>1, <1>3 DEF Shapes, Over
<1>5. d = [op |-> op0, vm |-> vm0, input |-> input0, did |-> did, chain |-> chain0, pass |-> pass0,
           seed |-> seed0, saved |-> saved, hashed |-> hashed0, entered |-> entered0]
  BY <1>2, <1>3
<1>6. d = Local(call[t], did, call[t].chain, call[t].pass, call[t].seed, saved, call[t].hashed)
  BY <1>1, <1>2, <1>5 DEF Local
<1>7. c.did \in 0 .. 3 /\ c.chain \in 0 .. ProgramCount /\ c.pass \in 0 .. 2
  BY <1>1, IdleIsNoCall
<1>8. QED
  BY <1>1, <1>4, <1>6, <1>7, CallGoesOn

LEMMA SeedChanges ==
    ASSUME Shapes, NEW t \in Threads, IsCall(call[t]), NEW did \in 0 .. 3, NEW seed,
           call' = [call EXCEPT ![t].did = did, ![t].seed = seed]
    PROVE  GoesOnWith(t, did, call[t].chain, call[t].pass, seed, call[t].saved, call[t].hashed)
<1>1. PICK c : c = call[t]
  OBVIOUS
<1>2. PICK op0, vm0, input0, did0, chain0, pass0, seed0, saved0, hashed0, entered0 :
         c = [op |-> op0, vm |-> vm0, input |-> input0, did |-> did0, chain |-> chain0, pass |-> pass0,
              seed |-> seed0, saved |-> saved0, hashed |-> hashed0, entered |-> entered0]
  BY <1>1 DEF IsCall
<1>3. PICK d : d = [c EXCEPT !.did = did, !.seed = seed]
  OBVIOUS
<1>4. call' = [call EXCEPT ![t] = d]
  BY <1>1, <1>3 DEF Shapes, Over
<1>5. d = [op |-> op0, vm |-> vm0, input |-> input0, did |-> did, chain |-> chain0, pass |-> pass0,
           seed |-> seed, saved |-> saved0, hashed |-> hashed0, entered |-> entered0]
  BY <1>2, <1>3
<1>6. d = Local(call[t], did, call[t].chain, call[t].pass, seed, call[t].saved, call[t].hashed)
  BY <1>1, <1>2, <1>5 DEF Local
<1>7. c.did \in 0 .. 3 /\ c.chain \in 0 .. ProgramCount /\ c.pass \in 0 .. 2
  BY <1>1, IdleIsNoCall
<1>8. QED
  BY <1>1, <1>4, <1>6, <1>7, CallGoesOn

LEMMA ChainChanges ==
    ASSUME Shapes, NEW t \in Threads, IsCall(call[t]), NEW chain \in 0 .. ProgramCount, NEW seed,
           call' = [call EXCEPT ![t].chain = chain, ![t].seed = seed]
    PROVE  GoesOnWith(t, call[t].did, chain, call[t].pass, seed, call[t].saved, call[t].hashed)
<1>1. PICK c : c = call[t]
  OBVIOUS
<1>2. PICK op0, vm0, input0, did0, chain0, pass0, seed0, saved0, hashed0, entered0 :
         c = [op |-> op0, vm |-> vm0, input |-> input0, did |-> did0, chain |-> chain0, pass |-> pass0,
              seed |-> seed0, saved |-> saved0, hashed |-> hashed0, entered |-> entered0]
  BY <1>1 DEF IsCall
<1>3. PICK d : d = [c EXCEPT !.chain = chain, !.seed = seed]
  OBVIOUS
<1>4. call' = [call EXCEPT ![t] = d]
  BY <1>1, <1>3 DEF Shapes, Over
<1>5. d = [op |-> op0, vm |-> vm0, input |-> input0, did |-> did0, chain |-> chain, pass |-> pass0,
           seed |-> seed, saved |-> saved0, hashed |-> hashed0, entered |-> entered0]
  BY <1>2, <1>3
<1>6. d = Local(call[t], call[t].did, chain, call[t].pass, seed, call[t].saved, call[t].hashed)
  BY <1>1, <1>2, <1>5 DEF Local
<1>7. c.did \in 0 .. 3 /\ c.chain \in 0 .. ProgramCount /\ c.pass \in 0 .. 2
  BY <1>1, IdleIsNoCall
<1>8. QED
  BY <1>1, <1>4, <1>6, <1>7, CallGoesOn

LEMMA PassChanges ==
    ASSUME Shapes, NEW t \in Threads, IsCall(call[t]), NEW pass \in 0 .. 2,
           call' = [call EXCEPT ![t].pass = pass]
    PROVE  GoesOnWith(t, call[t].did, call[t].chain, pass, call[t].seed, call[t].saved, call[t].hashed)
<1>1. PICK c : c = call[t]
  OBVIOUS
<1>2. PICK op0, vm0, input0, did0, chain0, pass0, seed0, saved0, hashed0, entered0 :
         c = [op |-> op0, vm |-> vm0, input |-> input0, did |-> did0, chain |-> chain0, pass |-> pass0,
              seed |-> seed0, saved |-> saved0, hashed |-> hashed0, entered |-> entered0]
  BY <1>1 DEF IsCall
<1>3. PICK d : d = [c EXCEPT !.pass = pass]
  OBVIOUS
<1>4. call' = [call EXCEPT ![t] = d]
  BY <1>1, <1>3 DEF Shapes, Over
<1>5. d = [op |-> op0, vm |-> vm0, input |-> input0, did |-> did0, chain |-> chain0, pass |-> pass,
           seed |-> seed0, saved |-> saved0, hashed |-> hashed0, entered |-> entered0]
  BY <1>2, <1>3
<1>6. d = Local(call[t], call[t].did, call[t].chain, pass, call[t].seed, call[t].saved, call[t].hashed)
  BY <1>1, <1>2, <1>5 DEF Local
<1>7. c.did \in 0 .. 3 /\ c.chain \in 0 .. ProgramCount /\ c.pass \in 0 .. 2
  BY <1>1, IdleIsNoCall
<1>8. QED
  BY <1>1, <1>4, <1>6, <1>7, CallGoesOn

LEMMA HashedChanges ==
    ASSUME Shapes, NEW t \in Threads, IsCall(call[t]), NEW hashed,
           call' = [call EXCEPT ![t].hashed = hashed]
    PROVE  GoesOnWith(t, call[t].did, call[t].chain, call[t].pass, call[t].seed, call[t].saved, hashed)
<1>1. PICK c : c = call[t]
  OBVIOUS
<1>2. PICK op0, vm0, input0, did0, chain0, pass0, seed0, saved0, hashed0, entered0 :
         c = [op |-> op0, vm |-> vm0, input |-> input0, did |-> did0, chain |-> chain0, pass |-> pass0,
              seed |-> seed0, saved |-> saved0, hashed |-> hashed0, entered |-> entered0]
  BY <1>1 DEF IsCall
<1>3. PICK d : d = [c EXCEPT !.hashed = hashed]
  OBVIOUS
<1>4. call' = [call EXCEPT ![t] = d]
  BY <1>1, <1>3 DEF Shapes, Over
<1>5. d = [op |-> op0, vm |-> vm0, input |-> input0, did |-> did0, chain |-> chain0, pass |-> pass0,
           seed |-> seed0, saved |-> saved0, hashed |-> hashed, entered |-> entered0]
  BY <1>2, <1>3
<1>6. d = Local(call[t], call[t].did, call[t].chain, call[t].pass, call[t].seed, call[t].saved, hashed)
  BY <1>1, <1>2, <1>5 DEF Local
<1>7. c.did \in 0 .. 3 /\ c.chain \in 0 .. ProgramCount /\ c.pass \in 0 .. 2
  BY <1>1, IdleIsNoCall
<1>8. QED
  BY <1>1, <1>4, <1>6, <1>7, CallGoesOn

\* A step changes some of the local variables of a call.
Changes(t) ==
    \/ \E did : call' = [call EXCEPT ![t].did = did]
    \/ \E did, saved : call' = [call EXCEPT ![t].did = did, ![t].saved = saved]
    \/ \E did, seed : call' = [call EXCEPT ![t].did = did, ![t].seed = seed]
    \/ \E chain, seed : call' = [call EXCEPT ![t].chain = chain, ![t].seed = seed]
    \/ \E pass : call' = [call EXCEPT ![t].pass = pass]
    \/ \E hashed : call' = [call EXCEPT ![t].hashed = hashed]

\* Whatever it changes, a call stays on its machine.
LEMMA SameMachine ==
    ASSUME Shapes, NEW t \in Threads, IsCall(call[t]), Changes(t)
    PROVE  call'[t].vm = call[t].vm /\ \A u \in Threads : u # t => call'[u] = call[u]
<1>1. PICK c : c = call[t]
  OBVIOUS
<1>2. PICK op0, vm0, input0, did0, chain0, pass0, seed0, saved0, hashed0, entered0 :
         c = [op |-> op0, vm |-> vm0, input |-> input0, did |-> did0, chain |-> chain0, pass |-> pass0,
              seed |-> seed0, saved |-> saved0, hashed |-> hashed0, entered |-> entered0]
  BY <1>1 DEF IsCall
<1>3. ASSUME NEW d, d.vm = c.vm, call' = [call EXCEPT ![t] = d]
      PROVE  call'[t].vm = call[t].vm /\ \A u \in Threads : u # t => call'[u] = call[u]
  BY <1>1, <1>3 DEF Shapes, Over
<1>4. ASSUME NEW did, call' = [call EXCEPT ![t].did = did]
      PROVE  call'[t].vm = call[t].vm /\ \A u \in Threads : u # t => call'[u] = call[u]
  <2>1. PICK d : d = [c EXCEPT !.did = did]
    OBVIOUS
  <2>2. d.vm = c.vm /\ call' = [call EXCEPT ![t] = d]
    BY <1>1, <1>2, <1>4, <2>1 DEF Shapes, Over
  <2>3. QED
    BY <1>3, <2>2
<1>5. ASSUME NEW did, NEW saved, call' = [call EXCEPT ![t].did = did, ![t].saved = saved]
      PROVE  call'[t].vm = call[t].vm /\ \A u \in Threads : u # t => call'[u] = call[u]
  <2>1. PICK d : d = [c EXCEPT !.did = did, !.saved = saved]
    OBVIOUS
  <2>2. d.vm = c.vm /\ call' = [call EXCEPT ![t] = d]
    BY <1>1, <1>2, <1>5, <2>1 DEF Shapes, Over
  <2>3. QED
    BY <1>3, <2>2
<1>6. ASSUME NEW did, NEW seed, call' = [call EXCEPT ![t].did = did, ![t].seed = seed]
      PROVE  call'[t].vm = call[t].vm /\ \A u \in Threads : u # t => call'[u] = call[u]
  <2>1. PICK d : d = [c EXCEPT !.did = did, !.seed = seed]
    OBVIOUS
  <2>2. d.vm = c.vm /\ call' = [call EXCEPT ![t] = d]
    BY <1>1, <1>2, <1>6, <2>1 DEF Shapes, Over
  <2>3. QED
    BY <1>3, <2>2
<1>7. ASSUME NEW chain, NEW seed, call' = [call EXCEPT ![t].chain = chain, ![t].seed = seed]
      PROVE  call'[t].vm = call[t].vm /\ \A u \in Threads : u # t => call'[u] = call[u]
  <2>1. PICK d : d = [c EXCEPT !.chain = chain, !.seed = seed]
    OBVIOUS
  <2>2. d.vm = c.vm /\ call' = [call EXCEPT ![t] = d]
    BY <1>1, <1>2, <1>7, <2>1 DEF Shapes, Over
  <2>3. QED
    BY <1>3, <2>2
<1>8. ASSUME NEW pass, call' = [call EXCEPT ![t].pass = pass]
      PROVE  call'[t].vm = call[t].vm /\ \A u \in Threads : u # t => call'[u] = call[u]
  <2>1. PICK d : d = [c EXCEPT !.pass = pass]
    OBVIOUS
  <2>2. d.vm = c.vm /\ call' = [call EXCEPT ![t] = d]
    BY <1>1, <1>2, <1>8, <2>1 DEF Shapes, Over
  <2>3. QED
    BY <1>3, <2>2
<1>9. ASSUME NEW hashed, call' = [call EXCEPT ![t].hashed = hashed]
      PROVE  call'[t].vm = call[t].vm /\ \A u \in Threads : u # t => call'[u] = call[u]
  <2>1. PICK d : d = [c EXCEPT !.hashed = hashed]
    OBVIOUS
  <2>2. d.vm = c.vm /\ call' = [call EXCEPT ![t] = d]
    BY <1>1, <1>2, <1>9, <2>1 DEF Shapes, Over
  <2>3. QED
    BY <1>3, <2>2
<1>10. QED
  BY <1>4, <1>5, <1>6, <1>7, <1>8, <1>9 DEF Changes

\* Where a call is before its first program.
LEMMA Stages ==
    ASSUME NEW t \in Threads, IsCall(call[t])
    PROVE  /\ Before(t, "save") <=> call[t].op = "hash" /\ call[t].did = 0
           /\ Before(t, "fill") <=> call[t].op = "hash" /\ call[t].did = 1
           /\ Before(t, "reset") <=>
                 (call[t].op = "hash" /\ call[t].did = 2) \/ (call[t].op # "hash" /\ call[t].did = 0)
           /\ Ready(t) <=> call[t].did = IF call[t].op = "hash" THEN 3 ELSE 1
<1>1. call[t] # Idle /\ call[t].did \in 0 .. 3
  BY IdleIsNoCall
<1>2. CASE call[t].op = "hash"
  BY <1>1, <1>2 DEF Before, Ready, Prologue
<1>3. CASE call[t].op # "hash"
  BY <1>1, <1>3 DEF Before, Ready, Prologue
<1>4. QED
  BY <1>2, <1>3

LEMMA InitPipeline == Init => PipelineInv
<1> SUFFICES ASSUME Init PROVE PipelineInv
  OBVIOUS
<1>1. Shapes
  BY DEF Init, Shapes, Over
<1>2. OneCallEach
  BY DEF Init, OneCallEach
<1>3. \A v \in VMs : begun[v] = None
  BY DEF Init
<1>4. BegunKept
  BY <1>3 DEF BegunKept
<1>5. \A t \in Threads : call[t] = Idle
  BY DEF Init
<1>6. QED
  BY <1>1, <1>2, <1>4, <1>5 DEF PipelineInv

\* Calls of other threads on other machines go on as they were.
LEMMA OthersGoOn ==
    ASSUME PipelineInv, NEW v, NEW u \in Threads, call[u] # Idle, call[u].vm # v,
           call'[u] = call[u], round'[u] = round[u],
           \A w \in VMs : w # v =>
              /\ attached'[w] = attached[w] /\ begun'[w] = begun[w] /\ tempHash'[w] = tempHash[w]
              /\ scratchpad'[w] = scratchpad[w] /\ regFile'[w] = regFile[w]
    PROVE  ChainRight(u)' /\ EnvironmentRight(u)'
<1>1. call[u].vm \in VMs
  BY IdleIsNoCall DEF PipelineInv, Shapes
<1>2. ChainRight(u) /\ EnvironmentRight(u)
  BY DEF PipelineInv
<1>3. Underway(u)' = Underway(u) /\ Seed(u)' = Seed(u)
  BY <1>1 DEF Underway, Seed, OwnSeed
<1>4. Runs(u)' = Runs(u)
  BY <1>1, <1>3 DEF Runs
<1>5. (Ready(u)' <=> Ready(u)) /\ (Filled(u)' <=> Filled(u))
  BY DEF Ready, Filled
<1>6. PICK last : last = ScratchpadAfter(Runs(u)[ProgramCount - 1])
  OBVIOUS
<1>7. ScratchpadAfter(Runs(u)[ProgramCount - 1])' = last
  BY <1>4, <1>6 DEF ScratchpadAfter
<1>8. Position(u)' = Position(u)
  BY DEF Position
<1>9. ASSUME call[u].chain = ProgramCount PROVE BlocksRight(u, ScratchpadAfter(Runs(u)[ProgramCount - 1]))'
  <2>1. BlocksRight(u, last)
    BY <1>2, <1>6, <1>9 DEF ChainRight
  <2>2. /\ Position(u) \in 0 .. BlockCount
        /\ call[u].pass = 0 => Position(u) = 0
        /\ call[u].hashed = Leading(Position(u), last)
        /\ scratchpad[call[u].vm] = Overwritten(Position(u), tempHash[call[u].vm], last)
    BY <2>1 DEF BlocksRight
  <2>3. call'[u].vm = call[u].vm /\ scratchpad'[call[u].vm] = scratchpad[call[u].vm]
        /\ tempHash'[call[u].vm] = tempHash[call[u].vm]
        /\ call'[u].pass = call[u].pass /\ call'[u].hashed = call[u].hashed
    BY <1>1
  <2>4. QED
    BY <1>7, <1>8, <2>2, <2>3 DEF BlocksRight
<1>10. ChainRight(u)'
  BY <1>1, <1>2, <1>3, <1>4, <1>5, <1>9 DEF ChainRight
<1>11. QED
  BY <1>2, <1>10 DEF EnvironmentRight

\* A step of one thread on one machine.
Elsewhere(t, v) ==
    /\ \A u \in Threads : u # t => call'[u] = call[u] /\ round'[u] = round[u]
    /\ \A w \in VMs : w # v =>
          /\ attached'[w] = attached[w] /\ begun'[w] = begun[w] /\ tempHash'[w] = tempHash[w]
          /\ scratchpad'[w] = scratchpad[w] /\ regFile'[w] = regFile[w]

LEMMA StepOnOneMachine ==
    ASSUME PipelineInv, NEW t \in Threads, NEW v \in VMs, Shapes', Elsewhere(t, v),
           \A u \in Threads : u # t => call[u].vm # v,
           call[t] = Idle \/ call[t].vm = v,
           call'[t] = Idle \/ call'[t].vm = v,
           call'[t] # Idle => ChainRight(t)' /\ EnvironmentRight(t)',
           call'[t] = Idle /\ begun'[v] # None =>
              tempHash'[v] = InitSeed(begun'[v]) /\ scratchpad'[v] = Fill(Blake(begun'[v]))
    PROVE  PipelineInv'
<1>1. Idle.vm = None /\ \A w \in VMs : w # None
  BY NoneAssumption DEF Idle
<1>2. \A u \in Threads : call[u] # Idle => call[u].vm \in VMs
  BY IdleIsNoCall DEF PipelineInv, Shapes
<1>3. OneCallEach'
  <2>1. SUFFICES ASSUME NEW a \in Threads, NEW b \in Threads, a # b, call'[a] # Idle
                 PROVE  call'[a].vm # call'[b].vm
    BY DEF OneCallEach
  <2>2. CASE a = t
    <3>1. call'[b] = call[b] /\ call[b].vm # v
      BY <2>1, <2>2 DEF Elsewhere
    <3>2. QED
      BY <2>1, <2>2, <3>1
  <2>3. CASE a # t
    <3>1. call'[a] = call[a] /\ call[a].vm # v /\ call[a].vm \in VMs
      BY <1>2, <2>1, <2>3 DEF Elsewhere
    <3>2. CASE b = t
      BY <1>1, <3>1, <3>2
    <3>3. CASE b # t
      <4>1. call'[b] = call[b]
        BY <3>3 DEF Elsewhere
      <4>2. QED
        BY <2>1, <3>1, <4>1 DEF PipelineInv, OneCallEach
    <3>4. QED
      BY <3>2, <3>3
  <2>4. QED
    BY <2>2, <2>3
<1>4. BegunKept'
  <2>1. SUFFICES ASSUME NEW w \in VMs, \A u \in Threads : call'[u].vm # w, begun'[w] # None
                 PROVE  tempHash'[w] = InitSeed(begun'[w]) /\ scratchpad'[w] = Fill(Blake(begun'[w]))
    BY DEF BegunKept, Free, InitSeed, Advanced, Blake, Fill
  <2>2. CASE w = v
    BY <2>1, <2>2
  <2>3. CASE w # v
    <3>1. ASSUME NEW u \in Threads PROVE call[u].vm # w
      <4>1. CASE u = t
        BY <1>1, <2>3, <4>1
      <4>2. CASE u # t
        BY <2>1, <4>2 DEF Elsewhere
      <4>3. QED
        BY <4>1, <4>2
    <3>2. tempHash'[w] = tempHash[w] /\ begun'[w] = begun[w] /\ scratchpad'[w] = scratchpad[w]
      BY <2>3 DEF Elsewhere
    <3>3. QED
      BY <2>1, <3>1, <3>2 DEF PipelineInv, BegunKept, Free
  <2>4. QED
    BY <2>2, <2>3
<1>5. ASSUME NEW u \in Threads, call'[u] # Idle PROVE ChainRight(u)' /\ EnvironmentRight(u)'
  <2>1. CASE u = t
    BY <1>5, <2>1
  <2>2. CASE u # t
    <3>1. call'[u] = call[u] /\ round'[u] = round[u] /\ call[u].vm # v
      BY <2>2 DEF Elsewhere
    <3>2. call[u] # Idle
      BY <1>5, <3>1
    <3>3. \A w \in VMs : w # v =>
             /\ attached'[w] = attached[w] /\ begun'[w] = begun[w] /\ tempHash'[w] = tempHash[w]
             /\ scratchpad'[w] = scratchpad[w] /\ regFile'[w] = regFile[w]
      BY DEF Elsewhere
    <3>4. QED
      BY <3>1, <3>2, <3>3, OthersGoOn
  <2>3. QED
    BY <2>1, <2>2
<1>6. QED
  BY <1>3, <1>4, <1>5 DEF PipelineInv


LEMMA FreeIsElsewhere ==
    ASSUME PipelineInv, NEW t \in Threads, NEW v \in VMs, Free(v)
    PROVE  \A u \in Threads : u # t => call[u].vm # v
BY DEF Free

LEMMA BusyIsElsewhere ==
    ASSUME PipelineInv, NEW t \in Threads, call[t] # Idle
    PROVE  /\ call[t].vm \in VMs
           /\ \A u \in Threads : u # t => call[u].vm # call[t].vm
<1>1. IsCall(call[t]) /\ OneCallEach
  BY DEF PipelineInv, Shapes
<1>2. QED
  BY <1>1, IdleIsNoCall DEF OneCallEach

LEMMA ExecutionStarts ==
    \A k, x : Execution(InitSeed(x), Fill(Blake(x)), Nearest, k) = Chain(k, x)[0]
BY ChainStarts DEF FirstRun, InitSeed

\* Entering a call keeps the shapes.
LEMMA Entered ==
    ASSUME Shapes, NEW t \in Threads, NEW op \in {"hash", "next", "last"}, NEW v \in VMs,
           NEW x \in Inputs \cup {None}, Enter(t, op, v, x)
    PROVE  /\ Over(Threads, call')
           /\ \A u \in Threads : u # t => call'[u] = call[u]
           /\ IsCall(call'[t])
           /\ call'[t].op = op /\ call'[t].vm = v /\ call'[t].input = x
           /\ call'[t].did = 0 /\ call'[t].chain = 0 /\ call'[t].pass = 0
           /\ call'[t].hashed = <<>> /\ call'[t].entered = round[t]
           /\ \A u \in Threads : call'[u] = Idle \/ IsCall(call'[u])
<1>1. PICK c : c = [op |-> op, vm |-> v, input |-> x, did |-> 0, chain |-> 0, pass |-> 0,
                    seed |-> None, saved |-> None, hashed |-> <<>>, entered |-> round[t]]
  OBVIOUS
<1>2. call' = [call EXCEPT ![t] = c] /\ Over(Threads, call)
  BY <1>1 DEF Enter, Shapes
<1>3. Over(Threads, call') /\ call'[t] = c /\ \A u \in Threads : u # t => call'[u] = call[u]
  BY <1>2 DEF Over
<1>4. 0 \in 0 .. ProgramCount
  BY ProgramCountAssumption
<1>5. IsCall(c)
  <2>1. 0 \in 0 .. 3 /\ 0 \in 0 .. 2
    OBVIOUS
  <2>2. PICK i \in 0 .. ProgramCount, did \in 0 .. 3, pass \in 0 .. 2 : i = 0 /\ did = 0 /\ pass = 0
    BY <1>4, <2>1
  <2>3. PICK seed, saved, hashed, entered :
           seed = None /\ saved = None /\ hashed = <<>> /\ entered = round[t]
    OBVIOUS
  <2>4. c = [op |-> op, vm |-> v, input |-> x, did |-> did, chain |-> i, pass |-> pass,
             seed |-> seed, saved |-> saved, hashed |-> hashed, entered |-> entered]
    BY <1>1, <2>2, <2>3
  <2>5. QED
    BY <2>4 DEF IsCall
<1>6. /\ c.op = op /\ c.vm = v /\ c.input = x /\ c.did = 0 /\ c.chain = 0 /\ c.pass = 0
      /\ c.hashed = <<>> /\ c.entered = round[t]
  BY <1>1
<1>7. \A u \in Threads : call'[u] = Idle \/ IsCall(call'[u])
  BY <1>3, <1>5 DEF Shapes
<1>8. QED
  BY <1>3, <1>5, <1>6, <1>7

LEMMA HashBegins ==
    ASSUME PipelineInv, NEW t \in Threads, NEW v \in VMs, NEW x \in Inputs, HashBegin(t, v, x)
    PROVE  PipelineInv'
<1>1. Shapes /\ call[t] = Idle /\ Free(v)
  BY DEF PipelineInv, HashBegin
<1>2. /\ begun' = [begun EXCEPT ![v] = None]
      /\ UNCHANGED <<attached, tempHash, scratchpad, regFile, round, output>>
      /\ Enter(t, "hash", v, x)
  BY DEF HashBegin
<1>3. /\ Over(Threads, call')
      /\ \A u \in Threads : u # t => call'[u] = call[u]
      /\ IsCall(call'[t])
      /\ call'[t].op = "hash" /\ call'[t].vm = v /\ call'[t].input = x
      /\ call'[t].did = 0 /\ call'[t].chain = 0 /\ call'[t].pass = 0
      /\ call'[t].hashed = <<>> /\ call'[t].entered = round[t]
      /\ \A u \in Threads : call'[u] = Idle \/ IsCall(call'[u])
  BY <1>1, <1>2, Entered
<1>4. /\ begun' \in [VMs -> Inputs \cup {None}] /\ begun'[v] = None
      /\ \A w \in VMs : w # v => begun'[w] = begun[w]
  BY <1>1, <1>2 DEF Shapes
<1>5. Shapes'
  BY <1>1, <1>2, <1>3, <1>4 DEF Shapes
<1>6. Elsewhere(t, v)
  BY <1>2, <1>3, <1>4 DEF Elsewhere
<1>7. ChainRight(t)' /\ EnvironmentRight(t)'
  <2>1. Underway(t)' = x /\ ~Filled(t)' /\ ~Ready(t)'
    BY <1>3 DEF Underway, OwnSeed, Filled, Ready, Prologue
  <2>2. call'[t].chain < ProgramCount
    BY <1>3, ProgramCountAssumption
  <2>3. ChainRight(t)'
    BY <1>3, <1>4, <2>1, <2>2 DEF ChainRight
  <2>4. EnvironmentRight(t)'
    BY <1>2, <1>3 DEF EnvironmentRight
  <2>5. QED
    BY <2>3, <2>4
<1>8. call'[t].vm = v /\ call'[t] # Idle
  BY <1>3, IdleIsNoCall
<1>9. QED
  BY <1>1, <1>4, <1>5, <1>6, <1>7, <1>8, FreeIsElsewhere, StepOnOneMachine

\* A call goes on on its own machine.
LEMMA CallStep ==
    ASSUME PipelineInv, NEW t \in Threads, call[t] # Idle,
           NEW did, NEW chain, NEW pass, NEW seed, NEW saved, NEW hashed,
           GoesOnWith(t, did, chain, pass, seed, saved, hashed),
           UNCHANGED <<attached, begun, output>>,
           Over(Threads, round'), Over(VMs, tempHash'), Over(VMs, scratchpad'), Over(VMs, regFile'),
           \A u \in Threads : u # t => round'[u] = round[u],
           \A w \in VMs : w # call[t].vm =>
              tempHash'[w] = tempHash[w] /\ scratchpad'[w] = scratchpad[w] /\ regFile'[w] = regFile[w],
           ChainRight(t)', EnvironmentRight(t)'
    PROVE  PipelineInv'
<1>1. Shapes
  BY DEF PipelineInv
<1>2. Shapes'
  BY <1>1 DEF Shapes, GoesOnWith
<1>3. PICK v \in VMs : v = call[t].vm
  BY <1>1, IdleIsNoCall DEF Shapes
<1>4. Elsewhere(t, v)
  BY <1>3 DEF Elsewhere, GoesOnWith
<1>5. call'[t].vm = v /\ call'[t] # Idle
  BY <1>3, IdleIsNoCall DEF GoesOnWith
<1>6. QED
  BY <1>2, <1>3, <1>4, <1>5, BusyIsElsewhere, StepOnOneMachine

\* The call is not yet at its programs, then or after the step.
LEMMA BeforePrograms ==
    ASSUME PipelineInv, NEW t \in Threads, call[t] # Idle, ~Ready(t)
    PROVE  /\ Shapes /\ IsCall(call[t]) /\ ChainRight(t) /\ EnvironmentRight(t)
           /\ call[t].vm \in VMs /\ call[t].did \in 0 .. 3
           /\ call[t].chain = 0 /\ 0 \in 0 .. ProgramCount /\ 0 < ProgramCount
           /\ call[t].pass = 0 /\ call[t].hashed = <<>>
<1>1. Shapes /\ IsCall(call[t]) /\ ChainRight(t) /\ EnvironmentRight(t)
  BY DEF PipelineInv, Shapes
<1>2. call[t].vm \in VMs /\ call[t].did \in 0 .. 3
  BY <1>1, IdleIsNoCall
<1>3. call[t].chain = 0
  BY <1>1 DEF ChainRight
<1>4. 0 \in 0 .. ProgramCount /\ 0 < ProgramCount
  BY ProgramCountAssumption
<1>5. call[t].pass = 0 /\ call[t].hashed = <<>>
  BY <1>1, <1>3, <1>4 DEF ChainRight
<1>6. QED
  BY <1>1, <1>2, <1>3, <1>4, <1>5

LEMMA Saves ==
    ASSUME PipelineInv, NEW t \in Threads, Save(t)
    PROVE  PipelineInv'
<1>1. call[t] # Idle /\ IsCall(call[t])
  BY DEF PipelineInv, Shapes, Save, Before
<1>2. call[t].op = "hash" /\ call[t].did = 0 /\ ~Ready(t)
  BY <1>1, Stages DEF Save
<1>3. /\ Shapes /\ ChainRight(t) /\ EnvironmentRight(t) /\ call[t].vm \in VMs
      /\ call[t].chain = 0 /\ 0 \in 0 .. ProgramCount /\ 0 < ProgramCount
      /\ call[t].pass = 0 /\ call[t].hashed = <<>>
  BY <1>1, <1>2, BeforePrograms
<1>4. /\ call' = [call EXCEPT ![t].did = @ + 1, ![t].saved = round[t]]
      /\ UNCHANGED <<attached, tempHash, scratchpad, regFile, round, output, begun>>
  BY DEF Save
<1>5. PICK did \in 0 .. 3 : did = call[t].did + 1 /\ did = 1
  BY <1>2
<1>6. PICK saved : saved = round[t]
  OBVIOUS
<1>7. call' = [call EXCEPT ![t].did = did, ![t].saved = saved]
  BY <1>4, <1>5, <1>6
<1>8. GoesOnWith(t, did, 0, 0, call[t].seed, saved, <<>>)
  BY <1>1, <1>3, <1>7, SavedChanges
<1>9. ChainRight(t)'
  <2>1. Underway(t)' = Underway(t) /\ ~Filled(t)'
    BY <1>2, <1>4, <1>5, <1>6, <1>8 DEF Underway, OwnSeed, Filled, GoesOnWith
  <2>2. IsCall(call'[t])
    BY <1>8 DEF GoesOnWith
  <2>3. ~Ready(t)'
    BY <1>2, <1>5, <1>6, <1>8 DEF Ready, Prologue, GoesOnWith
  <2>4. QED
    BY <1>2, <1>3, <1>4, <1>8, <2>1, <2>3 DEF ChainRight, GoesOnWith
<1>10. EnvironmentRight(t)'
  BY <1>2, <1>3, <1>5, <1>6, <1>8 DEF EnvironmentRight, GoesOnWith
<1>11. QED
  BY <1>1, <1>3, <1>4, <1>8, <1>9, <1>10, CallStep DEF Shapes

LEMMA Fills ==
    ASSUME PipelineInv, NEW t \in Threads, InitScratchpad(t)
    PROVE  PipelineInv'
<1>1. call[t] # Idle /\ IsCall(call[t])
  BY DEF PipelineInv, Shapes, InitScratchpad, Before
<1>2. call[t].op = "hash" /\ call[t].did = 1 /\ ~Ready(t)
  BY <1>1, Stages DEF InitScratchpad
<1>3. /\ Shapes /\ ChainRight(t) /\ EnvironmentRight(t)
      /\ call[t].chain = 0 /\ 0 \in 0 .. ProgramCount /\ 0 < ProgramCount
      /\ call[t].pass = 0 /\ call[t].hashed = <<>>
  BY <1>1, <1>2, BeforePrograms
<1>4. PICK v \in VMs : v = call[t].vm
  BY <1>1, IdleIsNoCall
<1>5. PICK x : x = call[t].input
  OBVIOUS
<1>6. /\ scratchpad' = [scratchpad EXCEPT ![v] = Fill(Blake(x))]
      /\ call' = [call EXCEPT ![t].did = @ + 1, ![t].seed = InitSeed(x)]
      /\ UNCHANGED <<attached, tempHash, regFile, round, output, begun>>
  BY <1>4, <1>5 DEF InitScratchpad
<1>7. PICK did \in 0 .. 3 : did = call[t].did + 1 /\ did = 2
  BY <1>2
<1>8. PICK seed : seed = InitSeed(x)
  OBVIOUS
<1>9. call' = [call EXCEPT ![t].did = did, ![t].seed = seed]
  BY <1>6, <1>7, <1>8
<1>10. GoesOnWith(t, did, 0, 0, seed, call[t].saved, <<>>)
  BY <1>1, <1>3, <1>9, SeedChanges
<1>11. /\ Over(VMs, scratchpad') /\ scratchpad'[v] = Fill(Blake(x))
      /\ \A w \in VMs : w # v => scratchpad'[w] = scratchpad[w]
  BY <1>3, <1>6 DEF Shapes, Over
<1>12. ChainRight(t)'
  <2>1. Underway(t)' = x /\ Underway(t) = x /\ Seed(t)' = InitSeed(x)
    BY <1>2, <1>4, <1>5, <1>7, <1>8, <1>10 DEF Underway, Seed, OwnSeed, GoesOnWith
  <2>2. ~Ready(t)'
    BY <1>2, <1>7, <1>8, <1>10 DEF Ready, Prologue, GoesOnWith
  <2>3. call'[t].vm = v /\ call'[t].op = "hash" /\ call'[t].chain = 0
        /\ call'[t].pass = 0 /\ call'[t].hashed = <<>>
    BY <1>2, <1>4, <1>5, <1>10 DEF GoesOnWith
  <2>4. x \in Inputs /\ begun'[v] = None
    BY <1>2, <1>3, <1>4, <1>5, <1>6, <2>1 DEF ChainRight
  <2>5. QED
    BY <1>3, <1>11, <2>1, <2>2, <2>3, <2>4 DEF ChainRight
<1>13. EnvironmentRight(t)'
  BY <1>2, <1>3, <1>7, <1>8, <1>10 DEF EnvironmentRight, GoesOnWith
<1>14. QED
  BY <1>1, <1>3, <1>4, <1>5, <1>6, <1>10, <1>11, <1>12, <1>13, CallStep DEF Shapes

LEMMA ResetsRound ==
    ASSUME PipelineInv, NEW t \in Threads, ResetRoundingMode(t)
    PROVE  PipelineInv'
<1>1. call[t] # Idle /\ IsCall(call[t])
  BY DEF PipelineInv, Shapes, ResetRoundingMode, Before
<1>2. /\ ~Ready(t)
      /\ (call[t].op = "hash" /\ call[t].did = 2) \/ (call[t].op # "hash" /\ call[t].did = 0)
  BY <1>1, Stages DEF ResetRoundingMode
<1>3. /\ Shapes /\ ChainRight(t) /\ EnvironmentRight(t)
      /\ call[t].chain = 0 /\ 0 \in 0 .. ProgramCount /\ 0 < ProgramCount
      /\ call[t].pass = 0 /\ call[t].hashed = <<>>
  BY <1>1, <1>2, BeforePrograms
<1>4. PICK v \in VMs : v = call[t].vm
  BY <1>1, IdleIsNoCall
<1>5. /\ round' = [round EXCEPT ![t] = Nearest]
      /\ call' = [call EXCEPT ![t].did = @ + 1]
      /\ UNCHANGED <<attached, tempHash, scratchpad, regFile, output, begun>>
  BY DEF ResetRoundingMode
<1>6. PICK did \in 0 .. 3 : did = call[t].did + 1
  BY <1>2
<1>7. call' = [call EXCEPT ![t].did = did]
  BY <1>3, <1>5, <1>6 DEF Shapes, Over
<1>8. GoesOnWith(t, did, 0, 0, call[t].seed, call[t].saved, <<>>)
  BY <1>1, <1>3, <1>7, DidChanges
<1>9. /\ Over(Threads, round') /\ round'[t] = Nearest
      /\ \A u \in Threads : u # t => round'[u] = round[u]
  BY <1>3, <1>5 DEF Shapes, Over
<1>10. ChainRight(t)'
  <2>1. /\ Underway(t)' = Underway(t) /\ Seed(t)' = Seed(t) /\ Runs(t)' = Runs(t)
        /\ Runs(t) = Chain(attached[v], Underway(t))
    BY <1>4, <1>5, <1>8 DEF Underway, Seed, OwnSeed, Runs, GoesOnWith
  <2>2. /\ call'[t].vm = v /\ call'[t].op = call[t].op /\ call'[t].input = call[t].input
        /\ call'[t].chain = 0 /\ call'[t].pass = 0 /\ call'[t].hashed = <<>>
    BY <1>4, <1>8 DEF GoesOnWith
  <2>3. Ready(t)'
    BY <1>2, <1>6, <1>8, IdleIsNoCall DEF Ready, Prologue, GoesOnWith
  <2>4. Filled(t)
    BY <1>2 DEF Filled
  <2>5. Seed(t) = InitSeed(Underway(t)) /\ scratchpad[v] = Fill(Blake(Underway(t)))
    BY <1>2, <1>3, <1>4, <2>4 DEF ChainRight
  <2>6. Execution(Seed(t)', scratchpad'[v], round'[t], attached'[v]) = Runs(t)'[0]
    BY <1>5, <1>9, <2>1, <2>5, ExecutionStarts
  <2>7. Underway(t) \in Inputs /\ (call[t].op = "hash" => begun[v] = None)
        /\ (call[t].op = "next" => call[t].input \in Inputs)
    BY <1>3, <1>4 DEF ChainRight
  <2>8. QED
    BY <1>3, <1>5, <2>1, <2>2, <2>3, <2>6, <2>7 DEF ChainRight
<1>11. EnvironmentRight(t)'
  BY <1>2, <1>3, <1>6, <1>8 DEF EnvironmentRight, GoesOnWith
<1>12. QED
  BY <1>1, <1>3, <1>4, <1>5, <1>8, <1>9, <1>10, <1>11, CallStep DEF Shapes

LEMMA FirstBegins ==
    ASSUME PipelineInv, NEW t \in Threads, NEW v \in VMs, NEW x \in Inputs, First(t, v, x)
    PROVE  PipelineInv'
<1>1. Shapes /\ call[t] = Idle /\ Free(v)
  BY DEF PipelineInv, First
<1>2. /\ scratchpad' = [scratchpad EXCEPT ![v] = Fill(Blake(x))]
      /\ tempHash' = [tempHash EXCEPT ![v] = InitSeed(x)]
      /\ begun' = [begun EXCEPT ![v] = x]
      /\ UNCHANGED <<attached, regFile, round, call, output>>
  BY DEF First
<1>3. /\ Over(VMs, scratchpad') /\ scratchpad'[v] = Fill(Blake(x))
      /\ \A w \in VMs : w # v => scratchpad'[w] = scratchpad[w]
  BY <1>1, <1>2 DEF Shapes, Over
<1>4. /\ Over(VMs, tempHash') /\ tempHash'[v] = InitSeed(x)
      /\ \A w \in VMs : w # v => tempHash'[w] = tempHash[w]
  BY <1>1, <1>2 DEF Shapes, Over
<1>5. /\ begun' \in [VMs -> Inputs \cup {None}] /\ begun'[v] = x
      /\ \A w \in VMs : w # v => begun'[w] = begun[w]
  BY <1>1, <1>2 DEF Shapes
<1>6. Shapes'
  BY <1>1, <1>2, <1>3, <1>4, <1>5 DEF Shapes
<1>7. Elsewhere(t, v)
  BY <1>2, <1>3, <1>4, <1>5 DEF Elsewhere
<1>8. call'[t] = Idle
  BY <1>1, <1>2
<1>9. QED
  BY <1>1, <1>3, <1>4, <1>5, <1>6, <1>7, <1>8, FreeIsElsewhere, StepOnOneMachine

LEMMA PipelineBegins ==
    ASSUME PipelineInv, NEW t \in Threads, NEW v \in VMs, NEW op, NEW x,
           (op = "next" /\ x \in Inputs) \/ (op = "last" /\ x = None),
           PipelineBegin(t, op, v, x)
    PROVE  PipelineInv'
<1>1. Shapes /\ call[t] = Idle /\ Free(v) /\ begun[v] # None /\ begun[v] \in Inputs
  BY DEF PipelineInv, PipelineBegin, Shapes
<1>2. /\ UNCHANGED <<attached, tempHash, scratchpad, regFile, round, output, begun>>
      /\ Enter(t, op, v, x)
  BY DEF PipelineBegin
<1>3. op \in {"hash", "next", "last"} /\ x \in Inputs \cup {None}
  OBVIOUS
<1>4. /\ Over(Threads, call')
      /\ \A u \in Threads : u # t => call'[u] = call[u]
      /\ IsCall(call'[t])
      /\ call'[t].op = op /\ call'[t].vm = v /\ call'[t].input = x
      /\ call'[t].did = 0 /\ call'[t].chain = 0 /\ call'[t].pass = 0 /\ call'[t].hashed = <<>>
      /\ \A u \in Threads : call'[u] = Idle \/ IsCall(call'[u])
  BY <1>1, <1>2, <1>3, Entered
<1>5. Shapes'
  BY <1>1, <1>2, <1>4 DEF Shapes
<1>6. Elsewhere(t, v)
  BY <1>2, <1>4 DEF Elsewhere
<1>7. ChainRight(t)' /\ EnvironmentRight(t)'
  <2>1. op # "hash" /\ 0 < ProgramCount /\ 0 # ProgramCount
    BY ProgramCountAssumption
  <2>2. tempHash[v] = InitSeed(begun[v]) /\ scratchpad[v] = Fill(Blake(begun[v]))
    BY <1>1 DEF PipelineInv, BegunKept
  <2>3. ~Ready(t)' /\ Underway(t)' = begun[v] /\ Seed(t)' = InitSeed(begun[v])
    BY <1>2, <1>4, <2>1, <2>2 DEF Ready, Prologue, OwnSeed, Underway, Seed
  <2>4. ChainRight(t)'
    BY <1>1, <1>2, <1>4, <2>1, <2>2, <2>3 DEF ChainRight
  <2>5. EnvironmentRight(t)'
    BY <1>4, <2>1 DEF EnvironmentRight
  <2>6. QED
    BY <2>4, <2>5
<1>8. call'[t].vm = v /\ call'[t] # Idle
  BY <1>4, IdleIsNoCall
<1>9. QED
  BY <1>1, <1>5, <1>6, <1>7, <1>8, FreeIsElsewhere, StepOnOneMachine


\* A program runs: the one the hash goes on with.
LEMMA ProgramRuns ==
    ASSUME PipelineInv, NEW t \in Threads, Run(t)
    PROVE  PipelineInv'
<1>1. /\ Shapes /\ call[t] # Idle /\ Ready(t) /\ ~ChainOver(t) /\ IsCall(call[t])
      /\ ChainRight(t) /\ EnvironmentRight(t)
  BY DEF PipelineInv, Run, Ready, Shapes
<1>2. PICK v \in VMs : v = call[t].vm
  BY <1>1, IdleIsNoCall
<1>3. PICK i \in 0 .. ProgramCount - 1 : i = call[t].chain
  BY <1>1, IdleIsNoCall, ProgramCountAssumption DEF ChainOver
<1>4. PICK run : run = Runs(t)
  OBVIOUS
<1>5. PICK e : e = Execution(Seed(t), scratchpad[v], round[t], attached[v]) /\ e = run[i]
  BY <1>1, <1>2, <1>3, <1>4, ProgramCountAssumption DEF ChainRight
<1>6. PICK more \in BOOLEAN : more <=> i + 1 < ProgramCount
  <2>1. CASE i + 1 < ProgramCount
    BY <2>1, Zenon
  <2>2. CASE ~(i + 1 < ProgramCount)
    BY <2>2, Zenon
  <2>3. QED
    BY <2>1, <2>2
<1>7. /\ regFile' = [regFile EXCEPT ![v] = Registers(e)]
      /\ scratchpad' = [scratchpad EXCEPT ![v] = ScratchpadAfter(e)]
      /\ round' = [round EXCEPT ![t] = CfRound(e)]
      /\ tempHash' = [tempHash EXCEPT ![v] = IF more /\ ~OwnSeed(t) THEN Blake(Registers(e)) ELSE @]
      /\ call' = [call EXCEPT ![t].chain = @ + 1,
                              ![t].seed = IF more /\ OwnSeed(t) THEN Blake(Registers(e)) ELSE @]
      /\ UNCHANGED <<attached, output, begun>>
  BY <1>2, <1>3, <1>5, <1>6 DEF Run
<1>8. /\ Over(VMs, regFile') /\ regFile'[v] = Registers(e)
      /\ \A w \in VMs : w # v => regFile'[w] = regFile[w]
  BY <1>1, <1>7 DEF Shapes, Over
<1>9. /\ Over(VMs, scratchpad') /\ scratchpad'[v] = ScratchpadAfter(e)
      /\ \A w \in VMs : w # v => scratchpad'[w] = scratchpad[w]
  BY <1>1, <1>7 DEF Shapes, Over
<1>10. /\ Over(Threads, round') /\ round'[t] = CfRound(e)
       /\ \A u \in Threads : u # t => round'[u] = round[u]
  BY <1>1, <1>7 DEF Shapes, Over
<1>11. /\ Over(VMs, tempHash')
       /\ tempHash'[v] = IF more /\ ~OwnSeed(t) THEN Blake(Registers(e)) ELSE tempHash[v]
       /\ \A w \in VMs : w # v => tempHash'[w] = tempHash[w]
  BY <1>1, <1>7 DEF Shapes, Over
<1>12. PICK seed : seed = IF more /\ OwnSeed(t) THEN Blake(Registers(e)) ELSE call[t].seed
  OBVIOUS
<1>13. PICK chain \in 0 .. ProgramCount : chain = i + 1
  BY <1>3, ProgramCountAssumption
<1>14. call[t].did \in 0 .. 3 /\ call[t].pass = 0 /\ call[t].hashed = <<>> /\ 0 \in 0 .. 2
  BY <1>1, <1>3, IdleIsNoCall, ProgramCountAssumption DEF ChainRight
<1>15. GoesOnWith(t, call[t].did, chain, 0, seed, call[t].saved, <<>>)
  <2>1. call' = [call EXCEPT ![t].chain = chain, ![t].seed = seed]
    BY <1>1, <1>3, <1>7, <1>12, <1>13 DEF Shapes, Over
  <2>2. QED
    BY <1>1, <1>14, <2>1, ChainChanges
<1>16. ChainRight(t)'
  <2>1. /\ call'[t].vm = v /\ call'[t].chain = chain /\ call'[t].op = call[t].op
        /\ call'[t].input = call[t].input /\ call'[t].seed = seed /\ call'[t].did = call[t].did
        /\ call'[t].pass = 0 /\ call'[t].hashed = <<>> /\ call'[t] # Idle
    BY <1>2, <1>15, IdleIsNoCall DEF GoesOnWith
  <2>2. OwnSeed(t)' = OwnSeed(t) /\ Underway(t)' = Underway(t) /\ Runs(t)' = run /\ Ready(t)'
    BY <1>1, <1>2, <1>4, <1>7, <2>1 DEF OwnSeed, Underway, Runs, Ready
  <2>3. /\ Underway(t) \in Inputs
        /\ call[t].op = "hash" => begun[v] = None
        /\ call[t].op = "next" => call[t].input \in Inputs
    BY <1>1, <1>2 DEF ChainRight
  <2>4. ASSUME chain < ProgramCount
        PROVE  Execution(Seed(t)', scratchpad'[v], round'[t], attached'[v]) = run[chain]
    <3>1. Seed(t)' = Blake(Registers(e))
      BY <1>6, <1>11, <1>12, <1>13, <2>1, <2>2, <2>4 DEF Seed, OwnSeed
    <3>2. chain \in 1 .. ProgramCount - 1 /\ chain - 1 = i
      BY <1>3, <1>13, <2>4, ProgramCountAssumption
    <3>3. run[chain] = NextRun(attached[v], run[i])
      BY <1>2, <1>4, <3>2, ChainGoesOn DEF Runs
    <3>4. QED
      BY <1>5, <1>7, <1>9, <1>10, <3>1, <3>3 DEF NextRun
  <2>5. ASSUME chain = ProgramCount
        PROVE  /\ BlocksRight(t, ScratchpadAfter(Runs(t)[ProgramCount - 1]))'
               /\ regFile'[v] = Registers(run[ProgramCount - 1])
    <3>1. i = ProgramCount - 1
      BY <1>3, <1>13, <2>5, ProgramCountAssumption
    <3>2. PICK last : last = ScratchpadAfter(Runs(t)[ProgramCount - 1])'
      OBVIOUS
    <3>3. scratchpad'[v] = last /\ last = [b \in 1 .. BlockCount |-> last[b]]
      BY <1>5, <1>9, <2>2, <3>1, <3>2 DEF ScratchpadAfter
    <3>4. Position(t)' = 0 /\ 0 \in 0 .. BlockCount
      BY <2>1, BlockCountAssumption DEF Position
    <3>5. <<>> = Leading(0, last)
      BY DEF Leading
    <3>6. last = Overwritten(0, tempHash'[v], last)
      <4>1. \A b \in 1 .. BlockCount : ~(b <= 0)
        BY BlockCountAssumption
      <4>2. QED
        BY <3>3, <4>1 DEF Overwritten
    <3>7. BlocksRight(t, ScratchpadAfter(Runs(t)[ProgramCount - 1]))'
      BY <2>1, <3>2, <3>3, <3>4, <3>5, <3>6 DEF BlocksRight
    <3>8. QED
      BY <1>5, <1>8, <3>1, <3>7
  <2>6. QED
    BY <1>3, <1>7, <1>13, <2>1, <2>2, <2>3, <2>4, <2>5, ProgramCountAssumption DEF ChainRight
<1>17. EnvironmentRight(t)'
  <2>1. call[t].op = "hash" => call[t].did = 3
    BY <1>1, Stages
  <2>2. QED
    BY <1>1, <1>15, <2>1 DEF EnvironmentRight, GoesOnWith
<1>18. QED
  BY <1>1, <1>2, <1>7, <1>8, <1>9, <1>10, <1>11, <1>15, <1>16, <1>17, CallStep

\* The chain is over.
LEMMA AfterPrograms ==
    ASSUME PipelineInv, NEW t \in Threads, Ended(t)
    PROVE  /\ Shapes /\ call[t] # Idle /\ Ready(t) /\ IsCall(call[t])
           /\ ChainRight(t) /\ EnvironmentRight(t)
           /\ call[t].vm \in VMs /\ call[t].did \in 0 .. 3 /\ call[t].pass \in 0 .. 2
           /\ call[t].chain = ProgramCount /\ ProgramCount \in 0 .. ProgramCount
           /\ BlocksRight(t, ScratchpadAfter(Runs(t)[ProgramCount - 1]))
           /\ regFile[call[t].vm] = Registers(Runs(t)[ProgramCount - 1])
<1>1. /\ Shapes /\ call[t] # Idle /\ Ready(t) /\ IsCall(call[t])
      /\ ChainRight(t) /\ EnvironmentRight(t) /\ call[t].chain = ProgramCount
  BY DEF PipelineInv, Ended, Ready, ChainOver, Shapes
<1>2. call[t].vm \in VMs /\ call[t].did \in 0 .. 3 /\ call[t].pass \in 0 .. 2
  BY <1>1, IdleIsNoCall
<1>3. ProgramCount \in 0 .. ProgramCount
  BY ProgramCountAssumption
<1>4. QED
  BY <1>1, <1>2, <1>3 DEF ChainRight

\* While hashAndFill runs: what it has hashed and what it has overwritten.
LEMMA BlocksGoOn ==
    ASSUME PipelineInv, NEW t \in Threads, Ended(t), NEW v \in VMs, v = call[t].vm,
           call[t].op = "next", NEW pass \in 1 .. 2, NEW hashed,
           GoesOnWith(t, call[t].did, ProgramCount, pass, call[t].seed, call[t].saved, hashed),
           UNCHANGED <<attached, regFile, round, output, begun>>,
           Over(VMs, tempHash'), Over(VMs, scratchpad'),
           \A w \in VMs : w # v => tempHash'[w] = tempHash[w] /\ scratchpad'[w] = scratchpad[w],
           tempHash'[v] = Blake(call[t].input),
           NEW last, last = ScratchpadAfter(Runs(t)[ProgramCount - 1]),
           NEW n \in 0 .. BlockCount,
           hashed = Leading(n, last),
           scratchpad'[v] = Overwritten(n, tempHash'[v], last)
    PROVE  PipelineInv'
<1>1. /\ Shapes /\ call[t] # Idle /\ Ready(t) /\ ChainRight(t)
      /\ regFile[v] = Registers(Runs(t)[ProgramCount - 1])
  BY AfterPrograms
<1>2. /\ call'[t].vm = v /\ call'[t].chain = ProgramCount /\ call'[t].op = "next"
      /\ call'[t].input = call[t].input /\ call'[t].did = call[t].did
      /\ call'[t].pass = pass /\ call'[t].hashed = hashed /\ call'[t] # Idle
  BY IdleIsNoCall DEF GoesOnWith
<1>3. Underway(t)' = Underway(t) /\ Runs(t)' = Runs(t) /\ Ready(t)'
  BY <1>1, <1>2 DEF OwnSeed, Underway, Runs, Ready
<1>4. Position(t)' = n
  <2>1. n \in Nat
    BY BlockCountAssumption
  <2>2. QED
    BY <1>2, <2>1 DEF Position, Leading
<1>5. ScratchpadAfter(Runs(t)[ProgramCount - 1])' = last
  BY <1>3 DEF ScratchpadAfter
<1>6. /\ Position(t)' \in 0 .. BlockCount /\ call'[t].pass # 0
      /\ call'[t].hashed = Leading(Position(t)', last)
      /\ scratchpad'[call'[t].vm] = Overwritten(Position(t)', tempHash'[call'[t].vm], last)
  BY <1>2, <1>4
<1>7. BlocksRight(t, ScratchpadAfter(Runs(t)[ProgramCount - 1]))'
  BY <1>5, <1>6 DEF BlocksRight
<1>8. Underway(t) \in Inputs /\ call[t].input \in Inputs
  BY <1>1 DEF ChainRight
<1>9. ChainRight(t)'
  BY <1>1, <1>2, <1>3, <1>7, <1>8, ProgramCountAssumption DEF ChainRight
<1>10. EnvironmentRight(t)'
  BY <1>2 DEF EnvironmentRight
<1>11. QED
  BY <1>1, <1>9, <1>10, CallStep DEF Shapes

LEMMA HashAndFills ==
    ASSUME PipelineInv, NEW t \in Threads, HashAndFill(t)
    PROVE  PipelineInv'
<1>1. Ended(t) /\ call[t].op = "next" /\ call[t].pass = 0
  BY DEF HashAndFill
<1>2. /\ Shapes /\ IsCall(call[t]) /\ call[t].did \in 0 .. 3
      /\ call[t].chain = ProgramCount /\ ProgramCount \in 0 .. ProgramCount
  BY <1>1, AfterPrograms
<1>3. PICK v \in VMs : v = call[t].vm
  BY <1>1, AfterPrograms
<1>4. PICK last : last = ScratchpadAfter(Runs(t)[ProgramCount - 1])
  OBVIOUS
<1>5. BlocksRight(t, last)
  BY <1>1, <1>3, <1>4, AfterPrograms
<1>6. /\ tempHash' = [tempHash EXCEPT ![v] = Blake(call[t].input)]
      /\ call' = [call EXCEPT ![t].pass = 1]
      /\ UNCHANGED <<attached, scratchpad, regFile, round, output, begun>>
  BY <1>3, <1>4 DEF HashAndFill
<1>7. /\ Over(VMs, tempHash') /\ tempHash'[v] = Blake(call[t].input)
      /\ \A w \in VMs : w # v => tempHash'[w] = tempHash[w]
  BY <1>2, <1>6 DEF Shapes, Over
<1>8. PICK pass \in 1 .. 2 : pass = 1
  OBVIOUS
<1>9. call' = [call EXCEPT ![t].pass = pass]
  BY <1>2, <1>6, <1>8 DEF Shapes, Over
<1>10. GoesOnWith(t, call[t].did, ProgramCount, pass, call[t].seed, call[t].saved, call[t].hashed)
  <2>1. pass \in 0 .. 2
    OBVIOUS
  <2>2. GoesOnWith(t, call[t].did, call[t].chain, pass, call[t].seed, call[t].saved, call[t].hashed)
    BY <1>2, <1>9, <2>1, PassChanges
  <2>3. QED
    BY <1>2, <2>2
<1>11. PICK n : n = 0
  OBVIOUS
<1>12. call[t].hashed = Leading(n, last) /\ n \in 0 .. BlockCount
  BY <1>1, <1>5, <1>11 DEF BlocksRight
<1>13. scratchpad'[v] = Overwritten(n, tempHash'[v], last)
  <2>1. \A i \in 1 .. BlockCount : ~(i <= n)
    BY <1>11, BlockCountAssumption
  <2>2. scratchpad[v] = Overwritten(n, tempHash[v], last)
    BY <1>1, <1>3, <1>4, <1>5, <1>11 DEF BlocksRight
  <2>3. QED
    BY <1>6, <2>1, <2>2 DEF Overwritten
<1>14. /\ Over(VMs, scratchpad') /\ \A w \in VMs : w # v => scratchpad'[w] = scratchpad[w]
       /\ UNCHANGED <<attached, regFile, round, output, begun>>
  BY <1>2, <1>6 DEF Shapes
<1>15. PICK hashed : hashed = call[t].hashed
  OBVIOUS
<1>16. GoesOnWith(t, call[t].did, ProgramCount, pass, call[t].seed, call[t].saved, hashed)
  BY <1>10, <1>15
<1>17. hashed = Leading(n, last)
  BY <1>12, <1>15
<1>18. QED
  BY <1>1, <1>3, <1>4, <1>7, <1>12, <1>13, <1>14, <1>16, <1>17, BlocksGoOn

LEMMA BlockHashed ==
    ASSUME PipelineInv, NEW t \in Threads, HashAndFillBlock(t)
    PROVE  PipelineInv'
<1>1. Ended(t) /\ call[t].pass > 0 /\ Position(t) < PassEnd(call[t].pass)
  BY DEF HashAndFillBlock
<1>2. /\ Shapes /\ IsCall(call[t]) /\ call[t].did \in 0 .. 3 /\ call[t].pass \in 0 .. 2 /\ ChainRight(t)
      /\ call[t].chain = ProgramCount /\ ProgramCount \in 0 .. ProgramCount
  BY <1>1, AfterPrograms
<1>3. PICK v \in VMs : v = call[t].vm
  BY <1>1, AfterPrograms
<1>4. PICK last : last = ScratchpadAfter(Runs(t)[ProgramCount - 1])
  OBVIOUS
<1>5. BlocksRight(t, last)
  BY <1>1, <1>3, <1>4, AfterPrograms
<1>6. PICK n \in 0 .. BlockCount : n = Position(t)
  BY <1>5 DEF BlocksRight
<1>7. PICK m \in 1 .. BlockCount : m = n + 1 /\ n = m - 1
  <2>1. PassEnd(call[t].pass) \in 0 .. BlockCount
    BY <1>2, BlockCountAssumption DEF PassEnd
  <2>2. QED
    BY <1>1, <1>6, <2>1, BlockCountAssumption
<1>8. PICK pass \in 1 .. 2 : pass = call[t].pass
  BY <1>1, <1>2
<1>9. call[t].op = "next" /\ tempHash[v] = Blake(call[t].input)
  BY <1>1, <1>2, <1>3, <1>4 DEF ChainRight
<1>10. scratchpad[v] = Overwritten(n, tempHash[v], last)
  BY <1>3, <1>4, <1>5, <1>6 DEF BlocksRight
<1>11. scratchpad[v][m] = last[m]
  BY <1>7, <1>10, BlockCountAssumption DEF Overwritten
<1>12. PICK hashed : hashed = Append(call[t].hashed, last[m])
  OBVIOUS
<1>13. hashed = Leading(m, last)
  <2>1. call[t].hashed = Leading(n, last)
    BY <1>5, <1>6 DEF BlocksRight
  <2>2. n \in Nat /\ m \in Nat
    BY BlockCountAssumption
  <2>3. QED
    BY <1>7, <1>12, <2>1, <2>2 DEF Leading
<1>14. /\ call' = [call EXCEPT ![t].hashed = hashed]
       /\ scratchpad' = [scratchpad EXCEPT ![v] = [scratchpad[v] EXCEPT ![m] = FillState(tempHash[v], m)]]
       /\ UNCHANGED <<attached, tempHash, regFile, round, output, begun>>
  BY <1>2, <1>3, <1>4, <1>6, <1>7, <1>11, <1>12 DEF HashAndFillBlock, Hashed, Shapes, Over
<1>15. GoesOnWith(t, call[t].did, ProgramCount, pass, call[t].seed, call[t].saved, hashed)
  BY <1>2, <1>8, <1>14, HashedChanges
<1>16. /\ Over(VMs, scratchpad')
       /\ scratchpad'[v] = [scratchpad[v] EXCEPT ![m] = FillState(tempHash[v], m)]
       /\ \A w \in VMs : w # v => scratchpad'[w] = scratchpad[w]
  BY <1>2, <1>14 DEF Shapes, Over
<1>17. scratchpad'[v] = Overwritten(m, tempHash'[v], last)
  <2>1. \A i \in 1 .. BlockCount : i <= m <=> (i <= n \/ i = m)
    BY <1>7, BlockCountAssumption
  <2>2. scratchpad'[v] = [i \in 1 .. BlockCount |->
                             IF i = m THEN FillState(tempHash[v], m)
                             ELSE IF i <= n THEN FillState(tempHash[v], i) ELSE last[i]]
    BY <1>10, <1>16 DEF Overwritten
  <2>3. QED
    BY <1>14, <2>1, <2>2 DEF Overwritten
<1>18. m \in 0 .. BlockCount
  BY BlockCountAssumption
<1>19. /\ Over(VMs, tempHash') /\ tempHash'[v] = Blake(call[t].input)
       /\ \A w \in VMs : w # v => tempHash'[w] = tempHash[w] /\ scratchpad'[w] = scratchpad[w]
       /\ UNCHANGED <<attached, regFile, round, output, begun>>
  BY <1>2, <1>9, <1>14, <1>16 DEF Shapes
<1>20. QED
  BY <1>1, <1>3, <1>4, <1>9, <1>13, <1>15, <1>16, <1>17, <1>18, <1>19, BlocksGoOn

LEMMA PassEnds ==
    ASSUME PipelineInv, NEW t \in Threads, SecondPass(t)
    PROVE  PipelineInv'
<1>1. Ended(t) /\ call[t].pass = 1
  BY DEF SecondPass
<1>2. /\ Shapes /\ IsCall(call[t]) /\ call[t].did \in 0 .. 3 /\ ChainRight(t)
      /\ call[t].chain = ProgramCount /\ ProgramCount \in 0 .. ProgramCount
  BY <1>1, AfterPrograms
<1>3. PICK v \in VMs : v = call[t].vm
  BY <1>1, AfterPrograms
<1>4. PICK last : last = ScratchpadAfter(Runs(t)[ProgramCount - 1])
  OBVIOUS
<1>5. BlocksRight(t, last)
  BY <1>1, <1>3, <1>4, AfterPrograms
<1>6. PICK n \in 0 .. BlockCount : n = Position(t)
  BY <1>5 DEF BlocksRight
<1>7. call[t].op = "next" /\ tempHash[v] = Blake(call[t].input)
  BY <1>1, <1>2, <1>3, <1>4 DEF ChainRight
<1>8. PICK pass \in 1 .. 2 : pass = 2
  OBVIOUS
<1>9. /\ call' = [call EXCEPT ![t].pass = pass]
      /\ UNCHANGED <<attached, tempHash, scratchpad, regFile, round, output, begun>>
  BY <1>2, <1>8 DEF SecondPass, Shapes, Over
<1>10. GoesOnWith(t, call[t].did, ProgramCount, pass, call[t].seed, call[t].saved, call[t].hashed)
  <2>1. pass \in 0 .. 2
    OBVIOUS
  <2>2. GoesOnWith(t, call[t].did, call[t].chain, pass, call[t].seed, call[t].saved, call[t].hashed)
    BY <1>2, <1>9, <2>1, PassChanges
  <2>3. QED
    BY <1>2, <2>2
<1>11. /\ call[t].hashed = Leading(n, last)
       /\ scratchpad'[v] = Overwritten(n, tempHash'[v], last)
  BY <1>3, <1>4, <1>5, <1>6, <1>9 DEF BlocksRight
<1>12. /\ Over(VMs, scratchpad') /\ Over(VMs, tempHash') /\ tempHash'[v] = Blake(call[t].input)
       /\ \A w \in VMs : w # v => tempHash'[w] = tempHash[w] /\ scratchpad'[w] = scratchpad[w]
       /\ UNCHANGED <<attached, regFile, round, output, begun>>
  BY <1>2, <1>7, <1>9 DEF Shapes
<1>13. PICK hashed : hashed = call[t].hashed
  OBVIOUS
<1>14. GoesOnWith(t, call[t].did, ProgramCount, pass, call[t].seed, call[t].saved, hashed)
  BY <1>10, <1>13
<1>15. hashed = Leading(n, last)
  BY <1>11, <1>13
<1>16. QED
  BY <1>1, <1>3, <1>4, <1>7, <1>11, <1>12, <1>14, <1>15, BlocksGoOn

\* A call ends: the machine is free, and what it has begun is kept.
LEMMA CallEnds ==
    ASSUME PipelineInv, NEW t \in Threads, NEW v \in VMs, call[t] # Idle, call[t].vm = v,
           call' = [call EXCEPT ![t] = Idle], Over(VMs, output'),
           UNCHANGED <<attached, regFile>>,
           Over(Threads, round'), Over(VMs, tempHash'), Over(VMs, scratchpad'),
           begun' \in [VMs -> Inputs \cup {None}],
           \A u \in Threads : u # t => round'[u] = round[u],
           \A w \in VMs : w # v =>
              tempHash'[w] = tempHash[w] /\ scratchpad'[w] = scratchpad[w] /\ begun'[w] = begun[w],
           begun'[v] = None \/ (tempHash'[v] = InitSeed(begun'[v]) /\ scratchpad'[v] = Fill(Blake(begun'[v])))
    PROVE  PipelineInv'
<1>1. Shapes
  BY DEF PipelineInv
<1>2. Over(Threads, call') /\ call'[t] = Idle /\ \A u \in Threads : u # t => call'[u] = call[u]
  BY <1>1 DEF Shapes, Over
<1>3. Shapes'
  BY <1>1, <1>2 DEF Shapes
<1>4. Elsewhere(t, v)
  BY <1>2 DEF Elsewhere
<1>5. QED
  BY <1>2, <1>3, <1>4, BusyIsElsewhere, StepOnOneMachine

LEMMA HashEnds ==
    ASSUME PipelineInv, NEW t \in Threads, HashEnd(t)
    PROVE  PipelineInv'
<1>1. Shapes /\ call[t] # Idle /\ call[t].op = "hash" /\ ChainRight(t)
  BY AfterPrograms DEF HashEnd
<1>2. PICK v \in VMs : v = call[t].vm
  BY <1>1, IdleIsNoCall DEF Shapes
<1>3. /\ output' = [output EXCEPT ![v] = FinalResult(scratchpad[v], regFile[v])]
      /\ round' = [round EXCEPT ![t] = call[t].saved]
      /\ call' = [call EXCEPT ![t] = Idle]
      /\ UNCHANGED <<attached, tempHash, scratchpad, regFile, begun>>
  BY <1>2 DEF HashEnd, Deliver
<1>4. Over(VMs, output')
  BY <1>1, <1>3 DEF Shapes, Over
<1>5. Over(Threads, round') /\ \A u \in Threads : u # t => round'[u] = round[u]
  BY <1>1, <1>3 DEF Shapes, Over
<1>6. begun'[v] = None
  BY <1>1, <1>2, <1>3 DEF ChainRight
<1>7. QED
  BY <1>1, <1>2, <1>3, <1>4, <1>5, <1>6, CallEnds DEF Shapes

\* When the loop of hashAndFill is over it has hashed what the last program left, block
\* by block, and the scratchpad and the seed are the next input's.
LEMMA AllBlocks ==
    ASSUME PipelineInv, NEW t \in Threads, NextEnd(t), NEW v \in VMs, v = call[t].vm,
           NEW last, last = ScratchpadAfter(Runs(t)[ProgramCount - 1])
    PROVE  /\ call[t].hashed = last
           /\ Position(t) = BlockCount
           /\ tempHash[v] = Blake(call[t].input)
           /\ scratchpad[v] = Fill(Blake(call[t].input))
<1>1. Ended(t) /\ call[t].pass = 2 /\ Position(t) >= BlockCount
  BY DEF NextEnd, PassEnd
<1>2. BlocksRight(t, last) /\ ChainRight(t)
  BY <1>1, AfterPrograms
<1>3. Position(t) = BlockCount
  BY <1>1, <1>2, BlockCountAssumption DEF BlocksRight
<1>4. tempHash[v] = Blake(call[t].input)
  BY <1>1, <1>2 DEF ChainRight
<1>5. last = [i \in 1 .. BlockCount |-> last[i]]
  BY DEF ScratchpadAfter
<1>6. call[t].hashed = last
  BY <1>2, <1>3, <1>5 DEF BlocksRight, Leading
<1>7. scratchpad[v] = Fill(Blake(call[t].input))
  <2>1. scratchpad[v] = Overwritten(BlockCount, Blake(call[t].input), last)
    BY <1>2, <1>3, <1>4 DEF BlocksRight
  <2>2. \A i \in 1 .. BlockCount : i <= BlockCount
    BY BlockCountAssumption
  <2>3. QED
    BY <2>1, <2>2 DEF Fill, Overwritten
<1>8. QED
  BY <1>3, <1>4, <1>6, <1>7

LEMMA NextEnds ==
    ASSUME PipelineInv, NEW t \in Threads, NextEnd(t)
    PROVE  PipelineInv'
<1>1. Shapes /\ call[t] # Idle /\ ChainRight(t) /\ call[t].pass = 2
  BY AfterPrograms DEF NextEnd
<1>2. PICK v \in VMs : v = call[t].vm
  BY <1>1, IdleIsNoCall DEF Shapes
<1>3. PICK x \in Inputs : x = call[t].input
  BY <1>1 DEF ChainRight
<1>4. Position(t) = BlockCount /\ tempHash[v] = Blake(x) /\ scratchpad[v] = Fill(Blake(x))
  BY <1>2, <1>3, AllBlocks
<1>5. /\ output' = [output EXCEPT ![v] = FinalResult(call[t].hashed, regFile[v])]
      /\ tempHash' = [tempHash EXCEPT ![v] = InitSeed(x)]
      /\ call' = [call EXCEPT ![t] = Idle]
      /\ begun' = [begun EXCEPT ![v] = x]
      /\ UNCHANGED <<attached, scratchpad, regFile, round>>
  <2>1. tempHash' = [tempHash EXCEPT ![v] = FillState(tempHash[v], Position(t))]
    BY <1>2 DEF NextEnd
  <2>2. FillState(tempHash[v], Position(t)) = InitSeed(x)
    BY <1>4 DEF InitSeed, Advanced
  <2>3. QED
    BY <1>2, <1>3, <2>1, <2>2 DEF NextEnd
<1>6. Over(VMs, output')
  BY <1>1, <1>5 DEF Shapes, Over
<1>7. /\ Over(VMs, tempHash') /\ tempHash'[v] = InitSeed(x)
      /\ \A w \in VMs : w # v => tempHash'[w] = tempHash[w]
  BY <1>1, <1>5 DEF Shapes, Over
<1>8. /\ begun' \in [VMs -> Inputs \cup {None}] /\ begun'[v] = x
      /\ \A w \in VMs : w # v => begun'[w] = begun[w]
  BY <1>1, <1>5 DEF Shapes
<1>9. Over(Threads, round') /\ Over(VMs, scratchpad')
  BY <1>1, <1>5 DEF Shapes
<1>10. tempHash'[v] = InitSeed(begun'[v]) /\ scratchpad'[v] = Fill(Blake(begun'[v]))
  BY <1>4, <1>5, <1>7, <1>8
<1>11. \A w \in VMs : w # v =>
          tempHash'[w] = tempHash[w] /\ scratchpad'[w] = scratchpad[w] /\ begun'[w] = begun[w]
  BY <1>5, <1>7, <1>8
<1>12. UNCHANGED <<attached, regFile>> /\ \A u \in Threads : u # t => round'[u] = round[u]
  BY <1>5
<1>13. call' = [call EXCEPT ![t] = Idle] /\ begun' \in [VMs -> Inputs \cup {None}]
  BY <1>5, <1>8
<1>14. QED
  BY <1>1, <1>2, <1>6, <1>7, <1>9, <1>10, <1>11, <1>12, <1>13, CallEnds

LEMMA LastEnds ==
    ASSUME PipelineInv, NEW t \in Threads, LastEnd(t)
    PROVE  PipelineInv'
<1>1. Shapes /\ call[t] # Idle /\ call[t].op = "last"
  BY AfterPrograms DEF LastEnd
<1>2. PICK v \in VMs : v = call[t].vm
  BY <1>1, IdleIsNoCall DEF Shapes
<1>3. /\ output' = [output EXCEPT ![v] = FinalResult(scratchpad[v], regFile[v])]
      /\ call' = [call EXCEPT ![t] = Idle]
      /\ begun' = [begun EXCEPT ![v] = None]
      /\ UNCHANGED <<attached, tempHash, scratchpad, regFile, round>>
  BY <1>2 DEF LastEnd, Deliver
<1>4. Over(VMs, output')
  BY <1>1, <1>3 DEF Shapes, Over
<1>5. /\ begun' \in [VMs -> Inputs \cup {None}] /\ begun'[v] = None
      /\ \A w \in VMs : w # v => begun'[w] = begun[w]
  BY <1>1, <1>3 DEF Shapes
<1>6. QED
  BY <1>1, <1>2, <1>3, <1>4, <1>5, CallEnds DEF Shapes


LEMMA Attaches ==
    ASSUME PipelineInv, NEW v \in VMs, NEW k \in Configs, Attach(v, k)
    PROVE  PipelineInv'
<1>1. Shapes /\ Free(v)
  BY DEF PipelineInv, Attach
<1>2. /\ attached' = [attached EXCEPT ![v] = k]
      /\ UNCHANGED <<tempHash, scratchpad, regFile, round, call, output, begun>>
  BY DEF Attach
<1>3. /\ attached' \in [VMs -> Configs] /\ \A w \in VMs : w # v => attached'[w] = attached[w]
  BY <1>1, <1>2 DEF Shapes
<1>4. Shapes'
  BY <1>1, <1>2, <1>3 DEF Shapes
<1>5. OneCallEach' /\ BegunKept'
  BY <1>2 DEF PipelineInv, OneCallEach, BegunKept, Free
<1>6. ASSUME NEW u \in Threads, call'[u] # Idle PROVE ChainRight(u)' /\ EnvironmentRight(u)'
  <2>1. call[u] # Idle /\ call[u].vm # v
    BY <1>1, <1>2, <1>6 DEF Free
  <2>2. QED
    BY <1>2, <1>3, <2>1, OthersGoOn
<1>7. QED
  BY <1>4, <1>5, <1>6 DEF PipelineInv

LEMMA SetsRound ==
    ASSUME PipelineInv, NEW t \in Threads, NEW m, SetRound(t, m)
    PROVE  PipelineInv'
<1>1. Shapes /\ call[t] = Idle
  BY DEF PipelineInv, SetRound
<1>2. /\ round' = [round EXCEPT ![t] = SetByCaller(m)]
      /\ UNCHANGED <<attached, tempHash, scratchpad, regFile, call, output, begun>>
  BY DEF SetRound
<1>3. Over(Threads, round') /\ \A u \in Threads : u # t => round'[u] = round[u]
  BY <1>1, <1>2 DEF Shapes, Over
<1>4. Shapes'
  BY <1>1, <1>2, <1>3 DEF Shapes
<1>5. OneCallEach' /\ BegunKept'
  BY <1>2 DEF PipelineInv, OneCallEach, BegunKept, Free
<1>6. ASSUME NEW u \in Threads, call'[u] # Idle PROVE ChainRight(u)' /\ EnvironmentRight(u)'
  <2>1. call[u] # Idle /\ u # t
    BY <1>1, <1>2, <1>6
  <2>2. call[u].vm # None
    BY <2>1, IdleIsNoCall DEF PipelineInv, Shapes
  <2>3. call'[u] = call[u] /\ round'[u] = round[u]
    BY <1>2, <1>3, <2>1
  <2>4. QED
    BY <1>2, <2>1, <2>2, <2>3, OthersGoOn
<1>7. QED
  BY <1>4, <1>5, <1>6 DEF PipelineInv

LEMMA PipelineStutters == PipelineInv /\ UNCHANGED vars => PipelineInv'
<1> SUFFICES ASSUME PipelineInv, UNCHANGED vars PROVE PipelineInv'
  OBVIOUS
<1>1. UNCHANGED <<attached, tempHash, scratchpad, regFile, round, call, output, begun>>
  BY DEF vars
<1>2. Shapes' /\ OneCallEach' /\ BegunKept'
  BY <1>1 DEF PipelineInv, Shapes, OneCallEach, BegunKept, Free
<1>3. ASSUME NEW u \in Threads, call'[u] # Idle PROVE ChainRight(u)' /\ EnvironmentRight(u)'
  <2>1. call[u] # Idle /\ call[u].vm # None
    BY <1>1, <1>3, IdleIsNoCall DEF PipelineInv, Shapes
  <2>2. QED
    BY <1>1, <2>1, OthersGoOn
<1>4. QED
  BY <1>2, <1>3 DEF PipelineInv

LEMMA PipelineStep == PipelineInv /\ [Next]_vars => PipelineInv'
<1> SUFFICES ASSUME PipelineInv, [Next]_vars PROVE PipelineInv'
  OBVIOUS
<1>1. CASE UNCHANGED vars
  BY <1>1, PipelineStutters
<1>2. ASSUME NEW t \in Threads, NEW v \in VMs, NEW x \in Inputs,
             \/ HashBegin(t, v, x) \/ First(t, v, x)
             \/ PipelineBegin(t, "next", v, x) \/ PipelineBegin(t, "last", v, None)
      PROVE  PipelineInv'
  <2>1. CASE HashBegin(t, v, x)
    BY <2>1, HashBegins
  <2>2. CASE First(t, v, x)
    BY <2>2, FirstBegins
  <2>3. CASE PipelineBegin(t, "next", v, x)
    <3>1. PICK op : op = "next"
      OBVIOUS
    <3>2. QED
      BY <2>3, <3>1, PipelineBegins
  <2>4. CASE PipelineBegin(t, "last", v, None)
    <3>1. PICK op, y : op = "last" /\ y = None
      OBVIOUS
    <3>2. QED
      BY <2>4, <3>1, PipelineBegins
  <2>5. QED
    BY <1>2, <2>1, <2>2, <2>3, <2>4
<1>3. ASSUME NEW t \in Threads, Steps(t)
      PROVE  PipelineInv'
  <2>1. CASE Save(t) \/ InitScratchpad(t) \/ ResetRoundingMode(t)
    BY <2>1, Saves, Fills, ResetsRound
  <2>2. CASE Run(t)
    BY <2>2, ProgramRuns
  <2>3. CASE HashAndFill(t) \/ HashAndFillBlock(t) \/ SecondPass(t)
    BY <2>3, HashAndFills, BlockHashed, PassEnds
  <2>4. CASE HashEnd(t) \/ NextEnd(t) \/ LastEnd(t)
    BY <2>4, HashEnds, NextEnds, LastEnds
  <2>5. QED
    BY <1>3, <2>1, <2>2, <2>3, <2>4 DEF Steps
<1>4. ASSUME NEW t \in Threads, NEW m \in CallerModes, SetRound(t, m) PROVE PipelineInv'
  BY <1>4, SetsRound
<1>5. ASSUME NEW v \in VMs, NEW k \in Configs, Attach(v, k) PROVE PipelineInv'
  BY <1>5, Attaches
<1>6. QED
  BY <1>1, <1>2, <1>3, <1>4, <1>5 DEF Next, Calls

-----------------------------------------------------------------------------
(* The promise.                                                            *)

\* What a call delivers is the hash of the input under way, if it has hashed the blocks the
\* last program left.
LEMMA DeliveredIsHash ==
    ASSUME PipelineInv, NEW t \in Threads, Ended(t), NEW v \in VMs, v = call[t].vm,
           NEW blocks, blocks = ScratchpadAfter(Runs(t)[ProgramCount - 1])
    PROVE  /\ Underway(t) \in Inputs
           /\ FinalResult(blocks, regFile[v]) = RandomXHash(attached[v], Underway(t))
           /\ Shown(FinalResult(blocks, regFile[v])) = <<attached[v], Underway(t)>>
<1>1. attached[v] \in Configs /\ Underway(t) \in Inputs /\ regFile[v] = Registers(Runs(t)[ProgramCount - 1])
  BY AfterPrograms DEF Shapes, ChainRight
<1>2. FinalResult(blocks, regFile[v]) = RandomXHash(attached[v], Underway(t))
  BY <1>1 DEF Runs, RandomXHash
<1>3. QED
  BY <1>1, <1>2, HashIsShown

\* The calls that hash the scratchpad at once find it as the last program left it.
LEMMA ScratchpadUnhashed ==
    ASSUME PipelineInv, NEW t \in Threads, Ended(t), call[t].op # "next", NEW v \in VMs, v = call[t].vm
    PROVE  scratchpad[v] = ScratchpadAfter(Runs(t)[ProgramCount - 1])
<1>1. PICK last : last = ScratchpadAfter(Runs(t)[ProgramCount - 1])
  OBVIOUS
<1>2. BlocksRight(t, last) /\ call[t].pass = 0
  BY <1>1, AfterPrograms DEF ChainRight
<1>3. scratchpad[v] = Overwritten(0, tempHash[v], last)
  BY <1>2 DEF BlocksRight
<1>4. \A i \in 1 .. BlockCount : ~(i <= 0)
  BY BlockCountAssumption
<1>5. last = [i \in 1 .. BlockCount |-> last[i]]
  BY <1>1 DEF ScratchpadAfter
<1>6. QED
  BY <1>1, <1>3, <1>4, <1>5 DEF Overwritten

ShownOutput == [v \in VMs |-> Shown(output[v])]

LEMMA OutputShown ==
    ASSUME PipelineInv, NEW v \in VMs, NEW o, output' = [output EXCEPT ![v] = o]
    PROVE  ShownOutput' = [ShownOutput EXCEPT ![v] = Shown(o)]
<1>1. output'[v] = o /\ \A w \in VMs : w # v => output'[w] = output[w]
  BY DEF PipelineInv, Shapes, Over
<1>2. \A w \in VMs : Shown(output[w])' = Shown(output'[w])
  BY DEF Shown
<1>3. PICK shown, shown2 : shown = ShownOutput /\ shown2 = ShownOutput'
  OBVIOUS
<1>4. shown = [w \in VMs |-> Shown(output[w])] /\ shown2 = [w \in VMs |-> Shown(output'[w])]
  BY <1>2, <1>3 DEF ShownOutput, Shown
<1>5. shown2 = [shown EXCEPT ![v] = Shown(o)]
  BY <1>1, <1>4
<1>6. QED
  BY <1>3, <1>5

LEMMA StepIsPromised == PipelineInv /\ [Next]_vars => [Sequence!Next]_(Sequence!sequenceVars)
<1> SUFFICES ASSUME PipelineInv, [Next]_vars PROVE [Sequence!Next]_(Sequence!sequenceVars)
  OBVIOUS
<1>1. ASSUME UNCHANGED <<attached, begun, output>> PROVE UNCHANGED Sequence!sequenceVars
  BY <1>1 DEF Sequence!sequenceVars, Shown
<1>2. CASE UNCHANGED vars
  BY <1>1, <1>2 DEF vars
<1>3. ASSUME NEW t \in Threads, NEW v \in VMs, NEW x \in Inputs, HashBegin(t, v, x)
      PROVE  Sequence!Next
  <2>1. begun' = [begun EXCEPT ![v] = None] /\ UNCHANGED <<attached, output>>
    BY <1>3 DEF HashBegin
  <2>2. Sequence!Abandon(v)
    BY <2>1 DEF Sequence!Abandon, Shown
  <2>3. QED
    BY <2>2 DEF Sequence!Next
<1>4. ASSUME NEW t \in Threads, NEW v \in VMs, NEW x \in Inputs, First(t, v, x)
      PROVE  Sequence!Next
  <2>1. begun' = [begun EXCEPT ![v] = x] /\ UNCHANGED <<attached, output>>
    BY <1>4 DEF First
  <2>2. Sequence!Begin(v, x)
    BY <2>1 DEF Sequence!Begin, Shown
  <2>3. QED
    BY <2>2 DEF Sequence!Next
<1>5. ASSUME NEW v \in VMs, NEW k \in Configs, Attach(v, k) PROVE Sequence!Next
  <2>1. attached' = [attached EXCEPT ![v] = k] /\ UNCHANGED <<begun, output>>
    BY <1>5 DEF Attach
  <2>2. Sequence!Attach(v, k)
    BY <2>1 DEF Sequence!Attach, Shown
  <2>3. QED
    BY <2>2 DEF Sequence!Next
<1>6. ASSUME NEW t \in Threads, HashEnd(t) PROVE Sequence!Next
  <2>1. call[t] # Idle /\ call[t].op = "hash" /\ Ended(t) /\ ChainRight(t)
    BY <1>6, AfterPrograms DEF HashEnd
  <2>2. PICK v \in VMs : v = call[t].vm
    BY <2>1, IdleIsNoCall DEF PipelineInv, Shapes
  <2>3. /\ output' = [output EXCEPT ![v] = FinalResult(scratchpad[v], regFile[v])]
        /\ UNCHANGED <<attached, begun>>
    BY <1>6, <2>2 DEF HashEnd, Deliver
  <2>4. begun[v] = None
    BY <2>1, <2>2 DEF ChainRight
  <2>5. PICK x \in Inputs : x = Underway(t)
    BY <2>1 DEF ChainRight
  <2>6. ShownOutput' = [ShownOutput EXCEPT ![v] = <<attached[v], x>>]
    <3>1. Shown(FinalResult(scratchpad[v], regFile[v])) = <<attached[v], x>>
      BY <2>1, <2>2, <2>5, ScratchpadUnhashed, DeliveredIsHash
    <3>2. QED
      BY <2>3, <3>1, OutputShown
  <2>7. Sequence!AtOnce(v, x)
    BY <2>3, <2>4, <2>6 DEF Sequence!AtOnce, ShownOutput
  <2>8. QED
    BY <2>7 DEF Sequence!Next
<1>7. ASSUME NEW t \in Threads, NextEnd(t) PROVE Sequence!Next
  <2>1. call[t] # Idle /\ Ended(t) /\ ChainRight(t) /\ call[t].pass = 2
    BY <1>7, AfterPrograms DEF NextEnd
  <2>2. PICK v \in VMs : v = call[t].vm
    BY <2>1, IdleIsNoCall DEF PipelineInv, Shapes
  <2>3. call[t].op = "next"
    BY <2>1 DEF ChainRight
  <2>4. PICK y \in Inputs : y = call[t].input
    BY <2>1, <2>3 DEF ChainRight
  <2>5. PICK blocks : blocks = ScratchpadAfter(Runs(t)[ProgramCount - 1])
    OBVIOUS
  <2>6. call[t].hashed = blocks
    BY <1>7, <2>2, <2>5, AllBlocks
  <2>7. /\ output' = [output EXCEPT ![v] = FinalResult(blocks, regFile[v])]
        /\ begun' = [begun EXCEPT ![v] = y] /\ UNCHANGED attached
    BY <1>7, <2>2, <2>4, <2>6 DEF NextEnd
  <2>8. Underway(t) = begun[v] /\ begun[v] \in Inputs
    BY <2>1, <2>2, <2>3 DEF ChainRight, Underway, OwnSeed
  <2>9. ShownOutput' = [ShownOutput EXCEPT ![v] = <<attached[v], begun[v]>>]
    <3>1. Shown(FinalResult(blocks, regFile[v])) = <<attached[v], begun[v]>>
      BY <2>1, <2>2, <2>5, <2>8, DeliveredIsHash
    <3>2. QED
      BY <2>7, <3>1, OutputShown
  <2>10. Sequence!Deliver(v, y)
    BY <2>7, <2>8, <2>9, NoneAssumption DEF Sequence!Deliver, ShownOutput
  <2>11. QED
    BY <2>10 DEF Sequence!Next
<1>8. ASSUME NEW t \in Threads, LastEnd(t) PROVE Sequence!Next
  <2>1. call[t] # Idle /\ call[t].op = "last" /\ Ended(t) /\ ChainRight(t)
    BY <1>8, AfterPrograms DEF LastEnd
  <2>2. PICK v \in VMs : v = call[t].vm
    BY <2>1, IdleIsNoCall DEF PipelineInv, Shapes
  <2>3. /\ output' = [output EXCEPT ![v] = FinalResult(scratchpad[v], regFile[v])]
        /\ begun' = [begun EXCEPT ![v] = None] /\ UNCHANGED attached
    BY <1>8, <2>2 DEF LastEnd, Deliver
  <2>4. Underway(t) = begun[v] /\ begun[v] \in Inputs
    BY <2>1, <2>2 DEF ChainRight, Underway, OwnSeed
  <2>5. ShownOutput' = [ShownOutput EXCEPT ![v] = <<attached[v], begun[v]>>]
    <3>1. Shown(FinalResult(scratchpad[v], regFile[v])) = <<attached[v], begun[v]>>
      BY <2>1, <2>2, <2>4, ScratchpadUnhashed, DeliveredIsHash
    <3>2. QED
      BY <2>3, <3>1, OutputShown
  <2>6. Sequence!Deliver(v, None)
    BY <2>3, <2>4, <2>5, NoneAssumption DEF Sequence!Deliver, ShownOutput
  <2>7. QED
    BY <2>6 DEF Sequence!Next
<1>9. ASSUME NEW t \in Threads,
             \/ Save(t) \/ InitScratchpad(t) \/ ResetRoundingMode(t) \/ Run(t)
             \/ HashAndFill(t) \/ HashAndFillBlock(t) \/ SecondPass(t)
             \/ \E v \in VMs, x \in Inputs :
                   PipelineBegin(t, "next", v, x) \/ PipelineBegin(t, "last", v, None)
             \/ \E m \in CallerModes : SetRound(t, m)
      PROVE  UNCHANGED Sequence!sequenceVars
  <2>1. CASE Save(t) \/ InitScratchpad(t) \/ ResetRoundingMode(t) \/ Run(t)
    BY <1>1, <2>1 DEF Save, InitScratchpad, ResetRoundingMode, Run
  <2>2. CASE HashAndFill(t) \/ HashAndFillBlock(t) \/ SecondPass(t)
    BY <1>1, <2>2 DEF HashAndFill, HashAndFillBlock, SecondPass
  <2>3. QED
    BY <1>1, <1>9, <2>1, <2>2 DEF PipelineBegin, SetRound
<1>10. QED
  BY <1>2, <1>3, <1>4, <1>5, <1>6, <1>7, <1>8, <1>9 DEF Next, Calls, Steps

\* For any number of machines, threads and programs per hash: "next" and "last" return
\* the hash of the input begun one call before, in the configuration the machine is
\* attached to, whatever other threads do, whatever rounding modes they set and whether or not the
\* machine was attached anew with an input begun.
THEOREM PipelineImplementsSequence == Spec => ImplementsSequence
<1>1. Init => Sequence!Init
  <2>1. SUFFICES ASSUME Init PROVE Sequence!Init
    OBVIOUS
  <2>2. Shown(None) = None
    BY DEF Shown
  <2>3. QED
    <3>1. [v \in VMs |-> Shown(output[v])] = [v \in VMs |-> None]
      BY <2>1, <2>2 DEF Init
    <3>2. QED
      BY <2>1, <3>1 DEF Init, Sequence!Init
<1>2. Init => PipelineInv
  BY InitPipeline
<1>3. PipelineInv /\ [Next]_vars => PipelineInv'
  BY PipelineStep
<1>4. PipelineInv /\ [Next]_vars => [Sequence!Next]_(Sequence!sequenceVars)
  BY StepIsPromised
<1>5. QED
  BY <1>1, <1>2, <1>3, <1>4, PTL DEF Spec, ImplementsSequence, Sequence!Spec

\* randomx_calculate_hash returns in the floating point environment in which it was
\* called, whatever it and its programs set and other threads did meanwhile: what it
\* saved is the environment of the moment of the call.
THEOREM HashKeepsEnvironment == Spec => EnvironmentKept
<1>1. PipelineInv /\ [Next]_vars =>
        [\A t \in Threads :
            call[t].op = "hash" /\ call'[t] = Idle => round'[t] = call[t].entered]_vars
  <2>1. SUFFICES ASSUME PipelineInv, [Next]_vars, ~UNCHANGED vars,
                        NEW t \in Threads, call[t].op = "hash", call'[t] = Idle
                 PROVE  round'[t] = call[t].entered
    OBVIOUS
  <2>2. call[t] # Idle /\ Shapes /\ IsCall(call[t]) /\ EnvironmentRight(t)
    BY <2>1 DEF Idle, PipelineInv, Shapes
  <2>3. call'[t] # call[t] /\ call[t].vm \in VMs
    BY <2>1, <2>2, IdleIsNoCall
  <2>4. ASSUME NEW u \in Threads, NEW c, call' = [call EXCEPT ![u] = c] PROVE u = t /\ c = Idle
    <3>1. u # t => call'[t] = call[t]
      BY <2>2, <2>4 DEF Shapes, Over
    <3>2. call'[u] = c
      BY <2>2, <2>4 DEF Shapes, Over
    <3>3. QED
      BY <2>1, <2>3, <3>1, <3>2
  <2>5. ASSUME NEW u \in Threads, HashEnd(u) PROVE round'[t] = call[t].entered
    <3>1. u = t
      BY <2>4, <2>5 DEF HashEnd
    <3>2. round' = [round EXCEPT ![t] = call[t].saved] /\ Ended(t)
      BY <2>5, <3>1 DEF HashEnd
    <3>3. call[t].did = 3
      BY <2>1, <2>2, <3>2, Stages DEF Ended
    <3>4. call[t].saved = call[t].entered
      BY <2>1, <2>2, <3>3 DEF EnvironmentRight
    <3>5. QED
      BY <2>2, <3>2, <3>4 DEF Shapes, Over
  <2>6. ASSUME NEW u \in Threads, NextEnd(u) \/ LastEnd(u) PROVE FALSE
    <3>1. u = t
      BY <2>4, <2>6 DEF NextEnd, LastEnd
    <3>2. CASE LastEnd(u)
      BY <2>1, <3>1, <3>2 DEF LastEnd
    <3>3. CASE NextEnd(u)
      <4>1. call[t].pass = 2 /\ ChainRight(t)
        BY <2>1, <2>2, <3>1, <3>3 DEF NextEnd, PipelineInv
      <4>2. QED
        BY <2>1, <4>1 DEF ChainRight
    <3>4. QED
      BY <2>6, <3>2, <3>3
  <2>7. ASSUME NEW u \in Threads, call'[u].vm = call[u].vm, \A w \in Threads : w # u => call'[w] = call[w]
        PROVE  FALSE
    <3>1. u = t
      BY <2>3, <2>7
    <3>2. call'[t].vm = None /\ None \notin VMs
      BY <2>1, NoneAssumption DEF Idle
    <3>3. QED
      BY <2>3, <2>7, <3>1, <3>2
  <2>8. ASSUME NEW u \in Threads, Save(u) \/ InitScratchpad(u) \/ ResetRoundingMode(u)
        PROVE  FALSE
    <3>1. Changes(u)
      <4>1. CASE Save(u)
        BY <4>1 DEF Save, Changes
      <4>2. CASE InitScratchpad(u)
        BY <4>2 DEF InitScratchpad, Changes
      <4>3. CASE ResetRoundingMode(u)
        BY <4>3 DEF ResetRoundingMode, Changes
      <4>4. QED
        BY <2>8, <4>1, <4>2, <4>3
    <3>2. IsCall(call[u])
      BY <2>2, <2>8 DEF Save, InitScratchpad, ResetRoundingMode, Before, Shapes
    <3>3. call'[u].vm = call[u].vm /\ \A w \in Threads : w # u => call'[w] = call[w]
      BY <2>2, <3>1, <3>2, SameMachine
    <3>4. QED
      BY <2>7, <3>3
  <2>9. ASSUME NEW u \in Threads, Run(u) \/ HashAndFill(u) \/ HashAndFillBlock(u) \/ SecondPass(u)
        PROVE  FALSE
    <3>1. Changes(u)
      <4>1. CASE Run(u)
        BY <4>1 DEF Run, Changes
      <4>2. CASE HashAndFill(u) \/ SecondPass(u)
        BY <4>2 DEF HashAndFill, SecondPass, Changes
      <4>3. CASE HashAndFillBlock(u)
        BY <4>3 DEF HashAndFillBlock, Changes
      <4>4. QED
        BY <2>9, <4>1, <4>2, <4>3
    <3>2. IsCall(call[u])
      BY <2>2, <2>9 DEF Run, HashAndFill, HashAndFillBlock, SecondPass, Ended, Ready, Shapes
    <3>3. call'[u].vm = call[u].vm /\ \A w \in Threads : w # u => call'[w] = call[w]
      BY <2>2, <3>1, <3>2, SameMachine
    <3>4. QED
      BY <2>7, <3>3
  <2>10. ASSUME NEW u \in Threads, call[u] = Idle, NEW c, call' = [call EXCEPT ![u] = c] PROVE FALSE
    <3>1. u = t
      BY <2>4, <2>10
    <3>2. QED
      BY <2>2, <2>10, <3>1
  <2>11. ASSUME NEW u \in Threads, NEW v \in VMs, NEW x \in Inputs,
                \/ HashBegin(u, v, x) \/ First(u, v, x)
                \/ PipelineBegin(u, "next", v, x) \/ PipelineBegin(u, "last", v, None)
         PROVE  FALSE
    BY <2>3, <2>10, <2>11 DEF HashBegin, First, PipelineBegin, Enter
  <2>12. ASSUME NEW u \in Threads, NEW m \in CallerModes, SetRound(u, m) PROVE FALSE
    BY <2>3, <2>12 DEF SetRound
  <2>13. ASSUME NEW v \in VMs, NEW k \in Configs, Attach(v, k) PROVE FALSE
    BY <2>3, <2>13 DEF Attach
  <2>14. QED
    BY <2>1, <2>5, <2>6, <2>8, <2>9, <2>11, <2>12, <2>13 DEF Next, Calls, Steps
<1>2. QED
  BY <1>1, InitPipeline, PipelineStep, PTL DEF Spec, EnvironmentKept

-----------------------------------------------------------------------------
(* The mining threads.                                                     *)

WordIndex == 0 .. Words - 1

\* The nonces a step took from the counter.
Fresh == atomicNonce .. atomicNonce' - 1

LEMMA BeyondCounter ==
    ASSUME NEW a \in Nat, NEW b \in Nat, NEW m \in Nat, NEW n \in 0 .. m - 1, ~(n < a), n < b
    PROVE  n \in a .. b - 1
OBVIOUS

\* What thread t owes after a step is what it owed before, less what it combined
\* and what lies beyond the limit, plus what it took.
LEMMA Balance ==
    ASSUME IInv, NEW t \in Miners,
           atomicNonce' \in Nat, atomicNonce <= atomicNonce',
           \A u \in Miners \ {t} : \A w \in WordIndex : Owes(u, w)' = Owes(u, w),
           \A w \in WordIndex :
              /\ result'[w] \cap Owes(t, w)' = {}
              /\ result'[w] \subseteq result[w] \cup Owes(t, w)
              /\ Owes(t, w)' \subseteq Owes(t, w) \cup Fresh
              /\ \A n \in 0 .. NoncesCount - 1 :
                    n \in result[w] \cup Owes(t, w) \cup Fresh => n \in result'[w] \cup Owes(t, w)'
    PROVE  NothingTwice' /\ NothingLost'
<1>1. ASSUME NEW w \in WordIndex, NEW u \in Miners \ {t}
      PROVE  /\ result'[w] \cap Owes(u, w)' = {}
             /\ Owes(t, w)' \cap Owes(u, w)' = {}
  <2>1. /\ result[w] \cap Owes(u, w) = {}
        /\ Owes(t, w) \cap Owes(u, w) = {}
    BY <1>1 DEF IInv, NothingTwice, WordIndex
  <2>2. Fresh \cap Owes(u, w) = {}
    BY <1>1 DEF IInv, InStep, TypeOK, WordIndex, Fresh
  <2>3. QED
    BY <1>1, <2>1, <2>2
<1>2. ASSUME NEW w \in WordIndex, NEW u \in Miners \ {t}, NEW v \in Miners \ {t}, u # v
      PROVE  Owes(u, w)' \cap Owes(v, w)' = {}
  BY <1>2 DEF IInv, NothingTwice, WordIndex
<1>3. NothingTwice'
  <2>1. SUFFICES ASSUME NEW w \in WordIndex, NEW u \in Miners
                 PROVE  /\ result'[w] \cap Owes(u, w)' = {}
                        /\ \A v \in Miners \ {u} : Owes(u, w)' \cap Owes(v, w)' = {}
    BY DEF NothingTwice, WordIndex
  <2>2. CASE u = t
    BY <1>1, <2>2
  <2>3. CASE u # t
    BY <1>1, <1>2, <2>3
  <2>4. QED
    BY <2>2, <2>3
<1>4. NothingLost'
  <2>1. SUFFICES ASSUME NEW w \in WordIndex, NEW n \in 0 .. NoncesCount - 1, n < atomicNonce'
                 PROVE  n \in result'[w] \/ \E u \in Miners : n \in Owes(u, w)'
    BY DEF NothingLost, WordIndex
  <2>2. CASE n < atomicNonce
    <3>1. n \in result[w] \/ \E u \in Miners : n \in Owes(u, w)
      BY <2>2 DEF IInv, NothingLost, WordIndex
    <3>2. QED
      BY <3>1
  <2>3. CASE ~(n < atomicNonce)
    <3>1. n \in Fresh
      <4>1. atomicNonce \in Nat
        BY DEF IInv, TypeOK
      <4>2. QED
        BY <2>1, <2>3, <4>1, CountAssumption, BeyondCounter DEF Fresh
    <3>2. n \in result'[w] \cup Owes(t, w)'
      BY <2>1, <3>1
    <3>3. QED
      BY <3>2
  <2>4. QED
    BY <2>2, <2>3
<1>5. QED
  BY <1>3, <1>4

\* A thread's step is no other thread's business.
LEMMA OthersOwe ==
    ASSUME TypeOK, NEW t \in Miners, Step(t), NEW u \in Miners, u # t
    PROVE  /\ \A w : Owes(u, w)' = Owes(u, w)
           /\ pc'[u] = pc[u] /\ nonce'[u] = nonce[u] /\ begunNonce'[u] = begunNonce[u]
           /\ hash'[u] = hash[u] /\ word'[u] = word[u] /\ batch' = batch
<1>1. /\ pc'[u] = pc[u] /\ nonce'[u] = nonce[u] /\ begunNonce'[u] = begunNonce[u]
      /\ hash'[u] = hash[u] /\ word'[u] = word[u] /\ batch' = batch
  BY DEF TypeOK, Step, Start, Test, Fetch, Hash, Xor, Then, FetchAdd
<1>2. ASSUME NEW w PROVE Owes(u, w)' = Owes(u, w)
  BY <1>1 DEF Owes
<1>3. QED
  BY <1>1, <1>2

\* InStep for one thread.
ThreadInStep(t) ==
    /\ \A w \in 0 .. Words - 1 : \A n \in Owes(t, w) : n \in Nat /\ n < atomicNonce
    /\ pc[t] = "test" /\ batch => begunNonce[t] = nonce[t]
    /\ pc[t] = "fetch" /\ batch => begunNonce[t] \in Nat /\ begunNonce[t] < NoncesCount
    /\ pc[t] = "hash" /\ batch => /\ begunNonce[t] \in Nat /\ begunNonce[t] < NoncesCount
                                  /\ begunNonce[t] < nonce[t]
    /\ pc[t] = "hash" /\ ~batch => nonce[t] < NoncesCount
    /\ pc[t] = "xor" => /\ hash[t] \in Nat /\ hash[t] < NoncesCount
                        /\ word[t] < Words
                        /\ batch => begunNonce[t] = nonce[t] /\ hash[t] < begunNonce[t]
    /\ pc[t] = "done" => NoncesCount <= atomicNonce

\* What remains to be shown for a step of thread t once Balance has done its part.
LEMMA Assemble ==
    ASSUME IInv, NEW t \in Miners, Step(t), TypeOK', ThreadInStep(t)', atomicNonce <= atomicNonce',
           ResultInRange', NothingTwice', NothingLost'
    PROVE  IInv'
<1>1. ASSUME NEW u \in Miners, u # t PROVE ThreadInStep(u)'
  <2>1. ThreadInStep(u)
    BY DEF IInv, InStep, ThreadInStep
  <2>2. atomicNonce \in Nat /\ atomicNonce' \in Nat
    BY DEF IInv, TypeOK
  <2>3. TypeOK
    BY DEF IInv
  <2>4. QED
    BY <1>1, <2>1, <2>2, <2>3, OthersOwe, CountAssumption DEF ThreadInStep
<1>2. InStep'
  BY <1>1 DEF InStep, ThreadInStep
<1>3. QED
  BY <1>2 DEF IInv

LEMMA InitIInv == MiningInit => IInv
<1>. SUFFICES ASSUME MiningInit PROVE IInv
  OBVIOUS
<1>1. TypeOK
  BY WordsAssumption DEF MiningInit, TypeOK
<1>2. \A t \in Miners : \A w : Owes(t, w) = {}
  BY DEF MiningInit, Owes
<1>3. InStep
  BY <1>2 DEF MiningInit, InStep
<1>4. ResultInRange /\ NothingTwice
  BY <1>2 DEF MiningInit, ResultInRange, NothingTwice
<1>5. NothingLost
  BY DEF MiningInit, NothingLost
<1>6. QED
  BY <1>1, <1>3, <1>4, <1>5 DEF IInv

LEMMA StartKeeps ==
    ASSUME IInv, NEW t \in Miners, Start(t)
    PROVE  IInv'
<1>1. /\ atomicNonce' = atomicNonce + 1 /\ atomicNonce \in Nat
      /\ UNCHANGED <<batch, result, hash, word>>
      /\ pc[t] = "start" /\ pc'[t] = "test"
      /\ nonce'[t] = atomicNonce
      /\ batch => begunNonce'[t] = atomicNonce
  BY DEF IInv, TypeOK, Start, FetchAdd, Then
<1>2. TypeOK'
  BY DEF IInv, TypeOK, Start, FetchAdd, Then
<1>3. \A w : Owes(t, w) = {} /\ Owes(t, w)' = {atomicNonce}
  BY <1>1 DEF Owes
<1>4. Fresh = {atomicNonce}
  BY <1>1 DEF Fresh
<1>5. \A w \in WordIndex : result[w] \cap {atomicNonce} = {}
  BY <1>1 DEF IInv, ResultInRange, WordIndex
<1>6. NothingTwice' /\ NothingLost'
  BY <1>1, <1>3, <1>4, <1>5, Balance, OthersOwe DEF Step, IInv
<1>7. ThreadInStep(t)'
  BY <1>1, <1>3 DEF ThreadInStep
<1>8. ResultInRange'
  BY <1>1 DEF IInv, ResultInRange, TypeOK
<1>9. QED
  BY <1>1, <1>2, <1>6, <1>7, <1>8, Assemble DEF Step

\* The parts of Fresh and the frame for a step that takes no nonce.
LEMMA NoFresh ==
    ASSUME TypeOK, atomicNonce' = atomicNonce
    PROVE  Fresh = {} /\ atomicNonce' \in Nat /\ atomicNonce <= atomicNonce'
BY DEF Fresh, TypeOK

LEMMA TestKeeps ==
    ASSUME IInv, NEW t \in Miners, Test(t)
    PROVE  IInv'
<1>1. /\ UNCHANGED <<batch, atomicNonce, result, nonce, begunNonce, hash, word>>
      /\ pc[t] = "test" /\ nonce[t] \in Nat
      /\ pc'[t] = IF ~GoesOn(t) THEN "done" ELSE IF batch THEN "fetch" ELSE "hash"
      /\ batch => begunNonce[t] = nonce[t]
  BY DEF IInv, InStep, TypeOK, Test, Then
<1>2. TypeOK'
  BY DEF IInv, TypeOK, Test, Then
<1>3. \A w : Owes(t, w) = {nonce[t]} /\ Owes(t, w)' = IF GoesOn(t) THEN {nonce[t]} ELSE {}
  BY <1>1 DEF Owes
<1>4. nonce[t] < atomicNonce
  <2>1. 0 \in 0 .. Words - 1
    BY WordsAssumption
  <2>2. QED
    BY <1>3, <2>1 DEF IInv, InStep
<1>5. NothingTwice' /\ NothingLost'
  <2>1. \A w \in WordIndex : result[w] \cap Owes(t, w) = {}
    BY DEF IInv, NothingTwice, WordIndex
  <2>2. \A n \in 0 .. NoncesCount - 1 : n = nonce[t] => GoesOn(t)
    BY CountAssumption DEF GoesOn
  <2>3. \A w \in WordIndex : Owes(t, w)' \subseteq Owes(t, w)
    BY <1>3
  <2>4. Fresh = {} /\ atomicNonce' \in Nat /\ atomicNonce <= atomicNonce'
    BY <1>1, NoFresh DEF IInv
  <2>5. \A u \in Miners \ {t} : \A w \in WordIndex : Owes(u, w)' = Owes(u, w)
    BY OthersOwe DEF Step, IInv
  <2>6. ASSUME NEW w \in WordIndex
        PROVE  /\ result'[w] \cap Owes(t, w)' = {}
               /\ result'[w] \subseteq result[w] \cup Owes(t, w)
               /\ Owes(t, w)' \subseteq Owes(t, w) \cup Fresh
               /\ \A n \in 0 .. NoncesCount - 1 :
                     n \in result[w] \cup Owes(t, w) \cup Fresh => n \in result'[w] \cup Owes(t, w)'
    BY <1>1, <1>3, <2>1, <2>2, <2>3, <2>4
  <2>7. QED
    BY <2>4, <2>5, <2>6, Balance
<1>6. ThreadInStep(t)'
  BY <1>1, <1>3, <1>4, CountAssumption DEF ThreadInStep, GoesOn, IInv, TypeOK
<1>7. ResultInRange'
  BY <1>1 DEF IInv, ResultInRange
<1>8. atomicNonce <= atomicNonce'
  BY <1>1, NoFresh DEF IInv
<1>9. QED
  BY <1>2, <1>5, <1>6, <1>7, <1>8, Assemble DEF Step

LEMMA FetchKeeps ==
    ASSUME IInv, NEW t \in Miners, Fetch(t)
    PROVE  IInv'
<1>1. /\ atomicNonce' = atomicNonce + 1 /\ atomicNonce \in Nat
      /\ UNCHANGED <<batch, result, begunNonce, hash, word>>
      /\ pc[t] = "fetch" /\ pc'[t] = IF batch THEN "hash" ELSE "test"
      /\ nonce'[t] = atomicNonce
      /\ batch => begunNonce[t] \in Nat /\ begunNonce[t] < NoncesCount
  BY DEF IInv, InStep, TypeOK, Fetch, FetchAdd, Then
<1>2. TypeOK'
  BY DEF IInv, TypeOK, Fetch, FetchAdd, Then
<1>3. \A w : /\ Owes(t, w) = IF batch THEN {begunNonce[t]} ELSE {}
             /\ Owes(t, w)' = IF batch THEN {begunNonce[t], atomicNonce} ELSE {atomicNonce}
  BY <1>1 DEF Owes
<1>4. batch => begunNonce[t] < atomicNonce
  <2>1. 0 \in 0 .. Words - 1
    BY WordsAssumption
  <2>2. QED
    BY <1>3, <2>1 DEF IInv, InStep
<1>5. Fresh = {atomicNonce}
  BY <1>1 DEF Fresh
<1>6. NothingTwice' /\ NothingLost'
  <2>1. \A w \in WordIndex : result[w] \cap Owes(t, w) = {}
    BY DEF IInv, NothingTwice, WordIndex
  <2>2. \A w \in WordIndex : result[w] \cap {atomicNonce} = {}
    BY <1>1 DEF IInv, ResultInRange, WordIndex
  <2>3. \A u \in Miners \ {t} : \A w \in WordIndex : Owes(u, w)' = Owes(u, w)
    BY OthersOwe DEF Step, IInv
  <2>4. \A w \in WordIndex : Owes(t, w)' = Owes(t, w) \cup Fresh
    BY <1>3, <1>5
  <2>5. ASSUME NEW w \in WordIndex
        PROVE  /\ result'[w] \cap Owes(t, w)' = {}
               /\ result'[w] \subseteq result[w] \cup Owes(t, w)
               /\ Owes(t, w)' \subseteq Owes(t, w) \cup Fresh
               /\ \A n \in 0 .. NoncesCount - 1 :
                     n \in result[w] \cup Owes(t, w) \cup Fresh => n \in result'[w] \cup Owes(t, w)'
    BY <1>1, <1>5, <2>1, <2>2, <2>4
  <2>6. atomicNonce' \in Nat /\ atomicNonce <= atomicNonce'
    BY <1>1
  <2>7. QED
    BY <2>3, <2>5, <2>6, Balance
<1>7. ThreadInStep(t)'
  BY <1>1, <1>3, <1>4 DEF ThreadInStep
<1>8. ResultInRange'
  BY <1>1 DEF IInv, ResultInRange, TypeOK
<1>9. atomicNonce <= atomicNonce'
  BY <1>1
<1>10. QED
  BY <1>2, <1>6, <1>7, <1>8, <1>9, Assemble DEF Step

LEMMA HashKeeps ==
    ASSUME IInv, NEW t \in Miners, Hash(t)
    PROVE  IInv'
<1>1. /\ UNCHANGED <<batch, atomicNonce, result, nonce>>
      /\ pc[t] = "hash" /\ pc'[t] = "xor"
      /\ hash'[t] = IF batch THEN begunNonce[t] ELSE nonce[t]
      /\ batch => begunNonce'[t] = nonce[t]
      /\ word'[t] = 0
  BY DEF IInv, TypeOK, Hash, Returned, Then
<1>2. /\ batch \in BOOLEAN /\ nonce[t] \in Nat
      /\ batch => begunNonce[t] \in Nat /\ begunNonce[t] < NoncesCount /\ begunNonce[t] < nonce[t]
      /\ ~batch => nonce[t] < NoncesCount
  BY <1>1 DEF IInv, InStep, TypeOK
<1>3. TypeOK'
  <2>1. hash' \in [Miners -> Nat \cup {NoNonce}] /\ begunNonce' \in [Miners -> Nat \cup {NoNonce}]
    BY <1>2 DEF IInv, TypeOK, Hash, Returned
  <2>2. word' \in [Miners -> 0 .. Words]
    BY WordsAssumption DEF IInv, TypeOK, Hash
  <2>3. QED
    BY <1>1, <2>1, <2>2 DEF IInv, TypeOK, Hash, Then
<1>4. \A w \in WordIndex : /\ Owes(t, w) = IF batch THEN {begunNonce[t], nonce[t]} ELSE {nonce[t]}
                           /\ Owes(t, w)' = Owes(t, w)
  BY <1>1, <1>2, WordsAssumption DEF Owes, WordIndex
<1>5. NothingTwice' /\ NothingLost'
  <2>1. \A w \in WordIndex : result[w] \cap Owes(t, w) = {}
    BY DEF IInv, NothingTwice, WordIndex
  <2>2. Fresh = {} /\ atomicNonce' \in Nat /\ atomicNonce <= atomicNonce'
    BY <1>1, NoFresh DEF IInv
  <2>3. \A u \in Miners \ {t} : \A w \in WordIndex : Owes(u, w)' = Owes(u, w)
    BY OthersOwe DEF Step, IInv
  <2>4. \A w \in WordIndex : result'[w] = result[w] /\ Owes(t, w)' = Owes(t, w)
    BY <1>1, <1>4
  <2>5. QED
    BY <2>1, <2>2, <2>3, <2>4, Balance
<1>6. ThreadInStep(t)'
  <2>1. \A w \in WordIndex : \A n \in Owes(t, w) : n \in Nat /\ n < atomicNonce
    BY DEF IInv, InStep, WordIndex
  <2>2. \A w \in 0 .. Words - 1 : \A n \in Owes(t, w)' : n \in Nat /\ n < atomicNonce'
    BY <1>1, <1>4, <2>1 DEF WordIndex
  <2>3. QED
    BY <1>1, <1>2, <2>2, WordsAssumption DEF ThreadInStep
<1>7. ResultInRange'
  BY <1>1 DEF IInv, ResultInRange
<1>8. atomicNonce <= atomicNonce'
  BY <1>1, NoFresh DEF IInv
<1>9. QED
  BY <1>3, <1>5, <1>6, <1>7, <1>8, Assemble DEF Step

LEMMA XorKeeps ==
    ASSUME IInv, NEW t \in Miners, Xor(t)
    PROVE  IInv'
<1>. DEFINE k == word[t]
            n == hash[t]
<1>1. /\ UNCHANGED <<batch, atomicNonce, nonce, begunNonce, hash>>
      /\ pc[t] = "xor"
      /\ pc'[t] = IF k + 1 = Words THEN IF batch THEN "test" ELSE "fetch" ELSE "xor"
      /\ word'[t] = k + 1
      /\ batch \in BOOLEAN
  BY DEF IInv, TypeOK, Xor, Then, LastWord, AfterXor
<1>2. /\ n \in Nat /\ n < NoncesCount
      /\ k \in Nat /\ k \in WordIndex
      /\ batch => begunNonce[t] = nonce[t] /\ n < begunNonce[t]
  <2>1. k \in Nat /\ k < Words
    BY <1>1 DEF IInv, InStep, TypeOK
  <2>2. QED
    BY <1>1, <2>1, WordsAssumption DEF IInv, InStep, WordIndex
<1>3. \A w \in WordIndex : result[w] \cap Owes(t, w) = {} /\ result[w] \subseteq Nat
  BY DEF IInv, NothingTwice, WordIndex, TypeOK
<1>4. \A w \in WordIndex :
        Owes(t, w) = (IF batch THEN {nonce[t]} ELSE {}) \cup (IF w >= k THEN {n} ELSE {})
  BY <1>1, <1>2 DEF Owes
<1>5. \A w \in WordIndex :
        Owes(t, w)' = (IF batch THEN {nonce[t]} ELSE {}) \cup (IF w >= k + 1 THEN {n} ELSE {})
  <2>1. \A w \in WordIndex : w \in Nat /\ w < Words
    BY WordsAssumption DEF WordIndex
  <2>2. CASE k + 1 = Words
    BY <1>1, <1>2, <2>1, <2>2, WordsAssumption DEF Owes
  <2>3. CASE k + 1 # Words
    BY <1>1, <1>2, <2>3 DEF Owes
  <2>4. QED
    BY <2>2, <2>3
<1>6. n \notin result[k]
  BY <1>2, <1>3, <1>4
<1>7. \A w \in WordIndex : result'[w] = IF w = k THEN result[w] \cup {n} ELSE result[w]
  BY <1>2, <1>6 DEF IInv, TypeOK, Xor, XorWith, WordIndex
<1>8. TypeOK'
  <2>1. result' \in [0 .. Words - 1 -> SUBSET Nat]
    BY <1>2, <1>3, <1>7 DEF IInv, TypeOK, Xor, WordIndex
  <2>2. k + 1 \in 0 .. Words
    BY <1>2, WordsAssumption DEF WordIndex
  <2>3. word' \in [Miners -> 0 .. Words]
    BY <2>2 DEF IInv, TypeOK, Xor
  <2>4. pc' \in [Miners -> {"start", "test", "fetch", "hash", "xor", "done"}]
    BY DEF IInv, TypeOK, Xor, Then, AfterXor
  <2>5. QED
    BY <1>1, <2>1, <2>3, <2>4 DEF IInv, TypeOK
<1>9. NothingTwice' /\ NothingLost'
  <2>1. Fresh = {} /\ atomicNonce' \in Nat /\ atomicNonce <= atomicNonce'
    BY <1>1, NoFresh DEF IInv
  <2>2. \A u \in Miners \ {t} : \A w \in WordIndex : Owes(u, w)' = Owes(u, w)
    BY OthersOwe DEF Step, IInv
  <2>3. ASSUME NEW w \in WordIndex
        PROVE  /\ result'[w] \cap Owes(t, w)' = {}
               /\ result'[w] \cup Owes(t, w)' = result[w] \cup Owes(t, w)
               /\ Owes(t, w)' \subseteq Owes(t, w)
               /\ result'[w] \subseteq result[w] \cup Owes(t, w)
    <3>1. w \in Nat
      BY WordsAssumption DEF WordIndex
    <3>2. batch => n # nonce[t]
      BY <1>2 DEF IInv, TypeOK
    <3>3. w >= k <=> w = k \/ w >= k + 1
      BY <1>2, <3>1
    <3>4. w = k => ~(w >= k + 1)
      BY <1>2
    <3>. DEFINE old == w >= k
                new == w >= k + 1
    <3>5. /\ Owes(t, w) = (IF batch THEN {nonce[t]} ELSE {}) \cup (IF old THEN {n} ELSE {})
          /\ Owes(t, w)' = (IF batch THEN {nonce[t]} ELSE {}) \cup (IF new THEN {n} ELSE {})
      BY <1>4, <1>5
    <3>6. result[w] \cap Owes(t, w) = {}
      BY <1>3
    <3>7. result'[w] = IF w = k THEN result[w] \cup {n} ELSE result[w]
      BY <1>7
    <3>8. (old <=> w = k \/ new) /\ (w = k => ~new)
      BY <3>3, <3>4
    <3>. HIDE DEF old, new, n, k
    <3>9. QED
      BY <3>2, <3>5, <3>6, <3>7, <3>8
  <2>4. QED
    BY <2>1, <2>2, <2>3, Balance
<1>10. ThreadInStep(t)'
  <2>1. \A w \in WordIndex : \A i \in Owes(t, w) : i \in Nat /\ i < atomicNonce
    BY DEF IInv, InStep, WordIndex
  <2>2. \A w \in WordIndex : Owes(t, w)' \subseteq Owes(t, w)
    <3>1. \A w \in WordIndex : w \in Nat /\ (w >= k + 1 => w >= k)
      BY <1>2, WordsAssumption DEF WordIndex
    <3>2. QED
      BY <1>4, <1>5, <3>1
  <2>3. \A w \in 0 .. Words - 1 : \A i \in Owes(t, w)' : i \in Nat /\ i < atomicNonce'
    BY <1>1, <2>1, <2>2 DEF WordIndex
  <2>4. k + 1 # Words => k + 1 < Words
    BY <1>2, WordsAssumption DEF WordIndex
  <2>5. QED
    BY <1>1, <1>2, <2>3, <2>4 DEF ThreadInStep
<1>11. ResultInRange'
  <2>1. n < atomicNonce
    <3>1. n \in Owes(t, k) /\ k \in 0 .. Words - 1
      BY <1>2, <1>4 DEF WordIndex
    <3>2. QED
      BY <3>1 DEF IInv, InStep
  <2>2. QED
    BY <1>1, <1>2, <1>7, <2>1 DEF IInv, ResultInRange, WordIndex
<1>12. atomicNonce <= atomicNonce'
  BY <1>1, NoFresh DEF IInv
<1>13. QED
  BY <1>8, <1>9, <1>10, <1>11, <1>12, Assemble DEF Step

LEMMA StutterKeeps ==
    ASSUME IInv, UNCHANGED miningVars
    PROVE  IInv'
<1>1. \A t, w : Owes(t, w)' = Owes(t, w)
  BY DEF miningVars, Owes
<1>2. TypeOK' /\ ResultInRange'
  BY DEF IInv, miningVars, TypeOK, ResultInRange
<1>3. InStep'
  BY <1>1 DEF IInv, miningVars, InStep
<1>4. NothingTwice' /\ NothingLost'
  BY <1>1 DEF IInv, miningVars, NothingTwice, NothingLost
<1>5. QED
  BY <1>2, <1>3, <1>4 DEF IInv

THEOREM Invariance == MiningSpec => []IInv
<1>1. IInv /\ [MiningNext]_miningVars => IInv'
  BY StartKeeps, TestKeeps, FetchKeeps, HashKeeps, XorKeeps, StutterKeeps DEF MiningNext, Step
<1>2. QED
  BY <1>1, InitIInv, PTL DEF MiningSpec

-----------------------------------------------------------------------------
(* The theorems.                                                           *)

\* TypeOK: in particular xorWith never goes past the last word.
THEOREM TypeCorrect == MiningSpec => []TypeOK
<1>1. IInv => TypeOK
  BY DEF IInv
<1>2. QED
  BY <1>1, Invariance, PTL

\* NothingTwice: no nonce is hashed by two threads or combined a second time.
THEOREM NoNonceTwice == MiningSpec => []NothingTwice
<1>1. IInv => NothingTwice
  BY DEF IInv
<1>2. QED
  BY <1>1, Invariance, PTL

\* ResultComplete: when all threads have ended the accumulator combines the
\* hashes of exactly the nonces below the limit, for any number of threads,
\* in both modes and for every order in which the threads ran.
THEOREM ResultIsComplete == MiningSpec => []ResultComplete
<1>1. IInv => ResultComplete
  <2>1. SUFFICES ASSUME IInv, AllDone, NEW w \in 0 .. Words - 1
                 PROVE  result[w] = 0 .. NoncesCount - 1
    BY DEF ResultComplete
  <2>2. \A t \in Miners : Owes(t, w) = {}
    BY <2>1 DEF AllDone, Owes
  <2>3. NoncesCount <= atomicNonce
    BY <2>1, MinersAssumption DEF AllDone, IInv, InStep
  <2>4. ASSUME NEW n \in 0 .. NoncesCount - 1 PROVE n \in result[w]
    <3>1. n < atomicNonce
      BY <2>1, <2>3, CountAssumption DEF IInv, TypeOK
    <3>2. QED
      BY <2>1, <2>2, <3>1 DEF IInv, NothingLost
  <2>5. ASSUME NEW n \in result[w] PROVE n \in 0 .. NoncesCount - 1
    BY <2>1, CountAssumption DEF IInv, ResultInRange, TypeOK
  <2>6. QED
    BY <2>4, <2>5
<1>2. QED
  BY <1>1, Invariance, PTL

-----------------------------------------------------------------------------
(* Mining uses its machines as HashSequence describes.                     *)

LEMMA LateFinite ==
    /\ IsFiniteSet(Late) /\ Cardinality(Late) \in Nat
    /\ IsFiniteSet(Late') /\ Cardinality(Late') \in Nat
    /\ Cardinality(Late) <= Cardinality(Miners)
    /\ Cardinality(Miners) \in Nat
<1>1. Late \subseteq Miners /\ Late' \subseteq Miners
  BY DEF Late
<1>2. QED
  BY <1>1, MinersAssumption, FS_Subset, FS_CardinalityType

\* A step that takes a nonce: the thread had none beyond the limit before.
LEMMA TakeNonce ==
    ASSUME TypeOK, Overshoot, NEW t \in Miners, Start(t) \/ Fetch(t)
    PROVE  Overshoot'
<1>1. /\ atomicNonce \in Nat /\ atomicNonce' = atomicNonce + 1 /\ batch' = batch
      /\ pc'[t] # "start" /\ nonce'[t] = atomicNonce
      /\ \A u \in Miners \ {t} :
           pc'[u] = pc[u] /\ nonce'[u] = nonce[u] /\ begunNonce'[u] = begunNonce[u]
      /\ ~batch => begunNonce'[t] = begunNonce[t]
      /\ pc'[t] \in {"test", "hash"} /\ (~batch => pc'[t] = "test")
  BY DEF TypeOK, Start, Fetch, FetchAdd, Then
<1>2. t \notin Late
  BY CountAssumption DEF TypeOK, Start, Fetch, Late, Overshoot
<1>3. Late' = IF atomicNonce >= NoncesCount THEN Late \cup {t} ELSE Late
  BY <1>1, <1>2 DEF Late
<1>4. atomicNonce' <= NoncesCount + Cardinality(Late')
  <2>1. CASE atomicNonce >= NoncesCount
    <3>1. Cardinality(Late') = Cardinality(Late) + 1
      BY <1>2, <1>3, <2>1, LateFinite, FS_AddElement
    <3>2. QED
      BY <1>1, <3>1, LateFinite, CountAssumption DEF Overshoot
  <2>2. CASE ~(atomicNonce >= NoncesCount)
    BY <1>1, <1>3, <2>2, LateFinite, CountAssumption
  <2>3. QED
    BY <2>1, <2>2
<1>5. \A u \in Miners : /\ pc'[u] # "start" => nonce'[u] < atomicNonce'
                        /\ pc'[u] = "fetch" => nonce'[u] < NoncesCount
                        /\ ~batch' /\ pc'[u] \in {"hash", "xor"} => nonce'[u] < NoncesCount
                        /\ ~batch' => begunNonce'[u] = NoNonce
  <2>1. ASSUME NEW u \in Miners \ {t}
        PROVE  /\ pc'[u] # "start" => nonce'[u] < atomicNonce'
               /\ pc'[u] = "fetch" => nonce'[u] < NoncesCount
               /\ ~batch' /\ pc'[u] \in {"hash", "xor"} => nonce'[u] < NoncesCount
               /\ ~batch' => begunNonce'[u] = NoNonce
    BY <1>1, <2>1 DEF Overshoot, TypeOK
  <2>2. QED
    BY <1>1, <2>1 DEF Overshoot
<1>6. QED
  BY <1>4, <1>5 DEF Overshoot

\* A step that takes none.
LEMMA TakeNothing ==
    ASSUME TypeOK, Overshoot, NEW t \in Miners, Test(t) \/ Hash(t) \/ Xor(t)
    PROVE  Overshoot'
<1>1. /\ atomicNonce' = atomicNonce /\ batch' = batch /\ nonce' = nonce
      /\ \A u \in Miners \ {t} : pc'[u] = pc[u] /\ begunNonce'[u] = begunNonce[u]
      /\ ~batch => begunNonce'[t] = begunNonce[t]
      /\ pc[t] # "start" /\ pc'[t] # "start"
  BY DEF TypeOK, Test, Hash, Xor, Then, AfterXor
<1>2. Late' = Late
  BY <1>1 DEF Late
<1>3. /\ pc'[t] = "fetch" => nonce[t] < NoncesCount
      /\ ~batch /\ pc'[t] \in {"hash", "xor"} => nonce[t] < NoncesCount
  BY DEF TypeOK, Test, Hash, Xor, Then, AfterXor, GoesOn, Overshoot
<1>4. QED
  BY <1>1, <1>2, <1>3 DEF Overshoot

LEMMA Overshooting == MiningSpec => []Overshoot
<1>1. MiningInit => Overshoot
  BY LateFinite, CountAssumption DEF MiningInit, Overshoot
<1>2. TypeOK /\ Overshoot /\ [MiningNext]_miningVars => Overshoot'
  <2>1. UNCHANGED miningVars /\ Overshoot => Overshoot'
    BY DEF miningVars, Overshoot, Late
  <2>2. QED
    BY <2>1, TakeNonce, TakeNothing DEF MiningNext, Step
<1>3. QED
  BY <1>1, <1>2, TypeCorrect, PTL DEF MiningSpec

\* The refinement mapping of Machines.
MachineInputs == 0 .. NoncesCount + Cardinality(Miners)
Attached == [t \in Miners |-> "v1"]
Output == [t \in Miners |-> IF hash[t] = NoNonce THEN NoNonce ELSE <<"v1", hash[t]>>]

MachineStep == [Machines!Next]_Machines!sequenceVars

LEMMA StepDrives ==
    ASSUME IInv, Overshoot, Overshoot', NEW t \in Miners, Step(t)
    PROVE  MachineStep
<1>. USE DEF IInv, TypeOK
<1>1. \A n \in Nat : n <= atomicNonce => n \in MachineInputs
  <2>1. atomicNonce \in Nat /\ atomicNonce <= NoncesCount + Cardinality(Miners)
    BY LateFinite, CountAssumption DEF Overshoot
  <2>2. QED
    BY <2>1, LateFinite, CountAssumption DEF MachineInputs
<1>2. CASE Start(t) /\ batch
  <2>1. /\ begunNonce' = [begunNonce EXCEPT ![t] = atomicNonce] /\ hash' = hash
        /\ atomicNonce \in MachineInputs
    BY <1>1, <1>2 DEF Start
  <2>2. PICK x \in MachineInputs : x = atomicNonce
    BY <2>1
  <2>3. Machines!Begin(t, x)
    BY <2>1, <2>2 DEF Machines!Begin
  <2>4. QED
    BY <2>3 DEF MachineStep, Machines!Next, MachineInputs
<1>3. CASE (Start(t) /\ ~batch) \/ Test(t) \/ Fetch(t) \/ Xor(t)
  <2>1. begunNonce' = begunNonce /\ hash' = hash
    BY <1>3 DEF Start, Test, Fetch, Xor
  <2>2. QED
    BY <2>1 DEF MachineStep, Machines!sequenceVars
<1>4. CASE Hash(t)
  <2>1. nonce[t] \in MachineInputs /\ nonce[t] \in Nat
    <3>1. nonce[t] \in Nat /\ nonce[t] < atomicNonce
      BY <1>4 DEF Hash, Overshoot
    <3>2. QED
      BY <1>1, <3>1
  <2>2. PICK x \in MachineInputs : x = nonce[t]
    BY <2>1
  <2>3. CASE batch
    <3>1. /\ begunNonce[t] \in Nat /\ begunNonce[t] # NoNonce
          /\ hash' = [hash EXCEPT ![t] = begunNonce[t]] /\ begunNonce' = [begunNonce EXCEPT ![t] = x]
      BY <1>4, <2>2, <2>3, NoNonceAssumption DEF Hash, Returned, InStep
    <3>2. Output' = [Output EXCEPT ![t] = <<Attached[t], begunNonce[t]>>]
      BY <3>1, NoNonceAssumption DEF Output, Attached
    <3>3. Machines!Deliver(t, x)
      BY <3>1, <3>2 DEF Machines!Deliver, Output, Attached
    <3>4. QED
      BY <3>3 DEF MachineStep, Machines!Next, MachineInputs
  <2>4. CASE ~batch
    <3>1. begunNonce[t] = NoNonce /\ hash' = [hash EXCEPT ![t] = x] /\ begunNonce' = begunNonce
      BY <1>4, <2>2, <2>4 DEF Hash, Returned, Overshoot
    <3>2. Output' = [Output EXCEPT ![t] = <<Attached[t], x>>]
      BY <2>1, <2>2, <3>1, NoNonceAssumption DEF Output, Attached
    <3>3. Machines!AtOnce(t, x)
      BY <3>1, <3>2 DEF Machines!AtOnce, Output, Attached
    <3>4. QED
      BY <3>3 DEF MachineStep, Machines!Next, MachineInputs
  <2>5. QED
    BY <2>3, <2>4
<1>5. QED
  BY <1>2, <1>3, <1>4 DEF Step

\* For any number of threads and nonces every mining thread uses its machine as
\* randomx.h allows - in batch mode it never takes a hash before one was begun -
\* and what it takes for the hash of a nonce is the hash of that nonce.
THEOREM MiningDrivesMachines == MiningSpec => DrivesMachines
<1>1. MiningInit => Machines!Init
  <2>. SUFFICES ASSUME MiningInit PROVE Machines!Init
    OBVIOUS
  <2>1. Output = [t \in Miners |-> NoNonce]
    BY DEF MiningInit, Output
  <2>2. QED
    BY <2>1 DEF MiningInit, Machines!Init, Output
<1>2. IInv /\ Overshoot /\ Overshoot' /\ [MiningNext]_miningVars => [Machines!Next]_Machines!sequenceVars
  <2>1. UNCHANGED miningVars => MachineStep
    BY DEF miningVars, MachineStep, Machines!sequenceVars
  <2>2. QED
    BY <2>1, StepDrives DEF MiningNext, MachineStep
<1>3. QED
  BY <1>1, <1>2, Invariance, Overshooting, PTL DEF MiningSpec, DrivesMachines, Machines!Spec
=============================================================================
