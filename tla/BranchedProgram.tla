-------------------------- MODULE BranchedProgram --------------------------
(***************************************************************************)
(* What one iteration of a program does to control flow, whoever runs it:  *)
(* its instructions take effect in order, and a branch whose condition is  *)
(* met goes back to the instruction that follows the last one, in program  *)
(* order, that modified its register.  Instructions without effect do not  *)
(* show.                                                                   *)
(***************************************************************************)
EXTENDS Instructions

VARIABLES
    prog,  \* the program
    at,    \* the next instruction that takes effect
    regs   \* integer registers

programVars == <<prog, at, regs>>

Init ==
    /\ prog \in [Indices -> Instrs]
    /\ at = Effective(prog, 0)
    /\ regs \in [Registers -> Values]

GoOn == at' = Effective(prog, at + 1)

Compute ==
    /\ prog[at].op \in {"INT", "IMUL_RCP"}
    /\ \E x \in Values : regs' = [regs EXCEPT ![prog[at].dst] = x]
    /\ GoOn

Swap ==
    /\ prog[at].op = "ISWAP_R"
    /\ regs' = [regs EXCEPT ![prog[at].dst] = regs[prog[at].src],
                            ![prog[at].src] = regs[prog[at].dst]]
    /\ GoOn

Branch ==
    /\ prog[at].op = "CBRANCH"
    /\ LET r == prog[at].dst
           x == Word(regs[r] + BranchImm(prog[at]))
       IN  /\ regs' = [regs EXCEPT ![r] = x]
           /\ IF ConditionMet(x, Shift(prog[at]))
              THEN at' = Effective(prog, Target(prog, at))
              ELSE GoOn

Other ==
    /\ prog[at].op = "OTHER"
    /\ GoOn
    /\ UNCHANGED regs

Next ==
    /\ at < Size
    /\ Compute \/ Swap \/ Branch \/ Other
    /\ UNCHANGED prog

Spec == Init /\ [][Next]_programVars
=============================================================================
