------------------------------ MODULE Allocation ------------------------------
(***************************************************************************)
(* What caches, datasets and virtual machines are made of, from the calls  *)
(* that allocate them, any of whose allocations may fail, to those that    *)
(* release them; and the pages of a compiler's code, which may be written or run   *)
(* according to the protection last asked for.  A protection may be        *)
(* refused by the system, which no caller looks at.  With MAP_JIT on       *)
(* Apple's processors it is the thread, not the page, that is switched     *)
(* between writing and running.                                            *)
(***************************************************************************)
EXTENDS Naturals

CONSTANTS
    Threads,
    Stores, VMs,   \* caches and datasets; virtual machines
    Platforms,  \* "pages": mprotect, VirtualProtect; "threads": pthread_jit_write_protect_np
    None

ASSUME PlatformsAssumption == Platforms \subseteq {"pages", "threads"}
ASSUME SortsAssumption == Stores \cap VMs = {} /\ None \notin Stores \cup VMs
ASSUME NoneAssumption == None \notin {"new", "aligned", "large", "mapped", "RWX"}

Objects == Stores \cup VMs

\* "memory" is that of a cache or dataset or the scratchpad, "compiler" a cache's
\* JitCompiler (a machine's is a member), "code" and "vector" the pages of its code.
Parts == {"object", "memory", "compiler", "code", "vector"}
CodeParts == {"code", "vector"}

VARIABLES
    platform,
    flags,    \* flags each object was created with
    held,     \* which allocator each part came from
    dealloc,  \* randomx_cache::dealloc, randomx_dataset::dealloc
    given,    \* objects the client has
    ready,    \* objects whose code has been generated
    prot,     \* protection of the pages
    mode,     \* each thread's right to MAP_JIT pages
    call,     \* the call each thread is in
    creators, \* ghost: threads that asked for a compiler's pages since they enabled execution
    refused,  \* ghost: objects for whose pages a protection was refused
    strayed,  \* ghost: caches whose code randomx_init_dataset ran on such a thread
    fault     \* the object at whose pages or parts the process was stopped

heap == <<flags, held, dealloc, given, ready>>
pages == <<prot, mode, creators, refused, strayed, fault>>
vars == <<platform, heap, pages, call>>

Flags == [kind: {"cache", "dataset", "interpreted", "light", "full"}, jit: BOOLEAN, large: BOOLEAN, secure: BOOLEAN]
NoFlags == [kind |-> "cache", jit |-> FALSE, large |-> FALSE, secure |-> FALSE]
Calls == {"alloc_cache", "alloc_dataset", "create_vm", "init_cache", "set_cache", "run", "init_dataset"}
Steps == {"object", "compiler", "constructor", "writing", "generate", "execution", "code", "memory", "failed"}
Idle == [op |-> "none", obj |-> None, at |-> "return", source |-> FALSE]
NoParts == [p \in Parts |-> None]
Unmapped == [p \in CodeParts |-> None]

Init ==
    /\ platform \in Platforms
    /\ flags = [o \in Objects |-> NoFlags]
    /\ held = [o \in Objects |-> NoParts]
    /\ dealloc = [c \in Stores |-> None]
    /\ given = {}
    /\ ready = {}
    /\ prot = [o \in Objects |-> Unmapped]
    /\ mode = [t \in Threads |-> "run"]
    /\ call = [t \in Threads |-> Idle]
    /\ creators = {} /\ refused = {} /\ strayed = {}
    /\ fault = None

-----------------------------------------------------------------------------
(* Calls.                                                                  *)

At(t, op, step) == call[t].op \in op /\ call[t].at = step /\ fault = None
Goto(t, step) ==
    call' = [call EXCEPT ![t] = IF step = "return" THEN Idle ELSE [@ EXCEPT !.at = step]]

\* The client uses an object in one call at a time.
Enter(t, op, o, step, source) ==
    /\ fault = None
    /\ call[t] = Idle
    /\ \A u \in Threads : call[u].obj # o
    /\ call' = [call EXCEPT ![t] = [op |-> op, obj |-> o, at |-> step, source |-> source]]

Obj(t) == call[t].obj
Allocator(o) == IF flags[o].large THEN "large" ELSE "aligned"

-----------------------------------------------------------------------------
(* virtual_memory.c.                                                       *)

\* With MAP_JIT allocMemoryPages switches the calling thread to writing, whether or not
\* mmap has given it pages.
SwitchToWriting(t) ==
    /\ mode' = [mode EXCEPT ![t] = IF platform = "threads" THEN "write" ELSE @]
    /\ creators' = IF platform = "threads" THEN creators \cup {t} ELSE creators
    /\ UNCHANGED <<refused, strayed, fault>>

\* A compiler's constructor: pages for code and, if there are any, for vector code
\* (without them the compiler does without), written in place.
MapPages(t, o, vector) ==
    LET parts == IF vector THEN CodeParts ELSE {"code"}
    IN  /\ prot' = [prot EXCEPT ![o] =
                       [p \in CodeParts |-> IF p \notin parts THEN None
                                            ELSE IF platform = "threads" THEN "MAP_JIT" ELSE "RW"]]
        /\ SwitchToWriting(t)

\* A constructor that throws, before it asks for pages or because there are none.
NoPages(t) == UNCHANGED pages \/ (UNCHANGED prot /\ SwitchToWriting(t))

Mapped(o) == {p \in CodeParts : held[o][p] # None}
\* A compiler with vector code generates its programs there.
Main(o) == IF held[o]["vector"] # None THEN {"vector"} ELSE {"code"}

\* Mutant: with vector code the other code's pages are forgotten.
ProtectedMain(o) == Main(o)

\* What enableWriting, enableExecution and enableAll apply to.
Protected(o) == Mapped(o)

\* setPagesRW, setPagesRX and setPagesRWX on every part of an object's code.
SetPages(t, o, rules) ==
    \/ /\ platform = "threads" /\ rules # "RWX"
       /\ mode' = [mode EXCEPT ![t] = IF rules = "RW" THEN "write" ELSE "run"]
       /\ creators' = IF rules = "RW" THEN creators ELSE creators \ {t}
       /\ UNCHANGED <<prot, refused, strayed, fault>>
    \/ /\ platform = "pages"
       /\ \E kept \in SUBSET Protected(o) :
             /\ prot' = [prot EXCEPT ![o] = [p \in CodeParts |->
                            IF p \in Protected(o) \ kept THEN rules ELSE @[p]]]
             /\ refused' = IF kept = {} THEN refused ELSE refused \cup {o}
       /\ UNCHANGED <<mode, creators, strayed, fault>>

Writable(t, o, p) ==
    IF platform = "threads" THEN mode[t] = "write" ELSE prot[o][p] \in {"RW", "RWX"}
Executable(t, o, p) ==
    IF platform = "threads" THEN mode[t] = "run" ELSE prot[o][p] \in {"RX", "RWX"}

Access(o, allowed) ==
    /\ fault' = IF allowed THEN fault ELSE o
    /\ UNCHANGED <<prot, mode, creators, refused>>

-----------------------------------------------------------------------------
(* Releasing.                                                              *)

\* Mutant: deallocCache forgets the compiler.
ReleasedNotCompiler(o) == {"object", "memory"}

Released(o) == Parts

\* Each part that is there is freed by the allocator the releasing code names.
Freed(o, by) ==
    /\ held' = [held EXCEPT ![o] = [p \in Parts |-> IF p \in Released(o) THEN None ELSE @[p]]]
    /\ prot' = [prot EXCEPT ![o] = Unmapped]
    /\ fault' = IF \A p \in Parts : held[o][p] \in {None, by[p]} THEN fault ELSE o
    /\ refused' = refused \ {o}
    /\ UNCHANGED <<mode, creators, strayed>>

\* randomx_release_cache, randomx_release_dataset: the pages go with the compiler.
StoreFreedBy(c) ==
    [p \in Parts |-> CASE p = "memory" -> dealloc[c]
                       [] p \in {"object", "compiler"} -> "new"
                       [] OTHER -> "mapped"]
\* ~CompiledVm, ~VmBase and operator delete.
VmFreedBy(v) ==
    [p \in Parts |-> CASE p = "memory" -> Allocator(v)
                       [] p = "object" -> "aligned"
                       [] OTHER -> "mapped"]
FreedBy(o) == IF o \in Stores THEN StoreFreedBy(o) ELSE VmFreedBy(o)

\* randomx_release_cache, randomx_release_dataset, randomx_destroy_vm
Release(t, o) ==
    /\ fault = None
    /\ call[t] = Idle
    /\ o \in given
    /\ \A u \in Threads : call[u].obj # o
    /\ Freed(o, FreedBy(o))
    /\ given' = given \ {o}
    /\ ready' = ready \ {o}
    /\ UNCHANGED <<platform, flags, dealloc, call>>

-----------------------------------------------------------------------------
(* randomx_alloc_cache and randomx_alloc_dataset.                          *)

AllocCache(t, c, jit, large) ==
    /\ c \notin given
    /\ Enter(t, "alloc_cache", c, "object", FALSE)
    /\ flags' = [flags EXCEPT ![c] = [kind |-> "cache", jit |-> jit, large |-> large, secure |-> TRUE]]
    /\ UNCHANGED <<platform, held, dealloc, given, ready, pages>>

AllocDataset(t, d, large) ==
    /\ d \notin given
    /\ Enter(t, "alloc_dataset", d, "object", FALSE)
    /\ flags' = [flags EXCEPT ![d] = [kind |-> "dataset", jit |-> FALSE, large |-> large, secure |-> FALSE]]
    /\ UNCHANGED <<platform, held, dealloc, given, ready, pages>>

\* The first member to be set.
Dealloc(c) == Allocator(c)

NewStore(t) ==
    LET c == Obj(t)
    IN  /\ At(t, {"alloc_cache", "alloc_dataset"}, "object")
        /\ \/ /\ held' = [held EXCEPT ![c]["object"] = "new"]
              /\ dealloc' = [dealloc EXCEPT ![c] = Dealloc(c)]
              /\ Goto(t, IF flags[c].jit THEN "compiler" ELSE "memory")
           \/ \* new throws
              /\ Goto(t, "return")
              /\ UNCHANGED <<held, dealloc>>
        /\ UNCHANGED <<platform, flags, given, ready, pages>>

\* new JitCompiler(): a constructor that throws leaves nothing behind.
NewCompiler(t) ==
    LET c == Obj(t)
    IN  /\ At(t, {"alloc_cache"}, "compiler")
        /\ \/ \E vector \in BOOLEAN :
                 /\ held' = [held EXCEPT ![c]["compiler"] = "new",
                                         ![c]["code"] = "mapped",
                                         ![c]["vector"] = IF vector THEN "mapped" ELSE None]
                 /\ MapPages(t, c, vector)
                 /\ Goto(t, "memory")
           \/ /\ Goto(t, "failed")
              /\ UNCHANGED held /\ NoPages(t)
        /\ UNCHANGED <<platform, flags, dealloc, given, ready>>

StoreMemory(t) ==
    LET c == Obj(t)
    IN  /\ At(t, {"alloc_cache", "alloc_dataset"}, "memory")
        /\ \/ /\ held' = [held EXCEPT ![c]["memory"] = Allocator(c)]
              /\ given' = given \cup {c}
              /\ Goto(t, "return")
           \/ /\ Goto(t, "failed")
              /\ UNCHANGED <<held, given>>
        /\ UNCHANGED <<platform, flags, dealloc, ready, pages>>

\* catch: what has been built is released, and the client gets a null pointer.
Failed(t) ==
    /\ At(t, {"alloc_cache", "alloc_dataset", "create_vm"}, "failed")
    /\ Freed(Obj(t), FreedBy(Obj(t)))
    /\ ready' = ready \ {Obj(t)}
    /\ Goto(t, "return")
    /\ UNCHANGED <<platform, flags, dealloc, given>>

-----------------------------------------------------------------------------
(* randomx_create_vm.                                                      *)

\* Where the flags are those randomx_get_flags recommends: RANDOMX_FORCE_SECURE.
CreateVm(t, v, kind, large, secure, source) ==
    /\ v \notin given
    /\ secure => kind # "interpreted"
    /\ platform = "threads" /\ kind # "interpreted" => secure
    /\ Enter(t, "create_vm", v, "object", source)
    /\ flags' = [flags EXCEPT ![v] = [kind |-> kind, jit |-> kind # "interpreted",
                                      large |-> large, secure |-> secure]]
    /\ UNCHANGED <<platform, held, dealloc, given, ready, pages>>

\* What follows the constructor: CompiledLightVm::setCache generates code, the
\* others keep pointers.
Attachment(t) ==
    IF flags[Obj(t)].kind = "light" /\ call[t].source THEN "writing" ELSE "memory"

\* operator new and the constructor with its compiler; when that throws, the object's
\* memory is given back and vm is still null.
NewVm(t) ==
    LET v == Obj(t)
        Vm(vector) == [NoParts EXCEPT !["object"] = "aligned",
                                      !["code"] = IF flags[v].jit THEN "mapped" ELSE None,
                                      !["vector"] = IF vector THEN "mapped" ELSE None]
    IN  /\ At(t, {"create_vm"}, "object")
        /\ \/ \E vector \in BOOLEAN :
                 /\ vector => flags[v].jit
                 /\ held' = [held EXCEPT ![v] = Vm(vector)]
                 /\ IF flags[v].jit THEN MapPages(t, v, vector) ELSE UNCHANGED pages
                 /\ Goto(t, IF flags[v].jit THEN "constructor" ELSE Attachment(t))
           \/ /\ Goto(t, "return")
              /\ UNCHANGED held /\ IF flags[v].jit THEN NoPages(t) ELSE UNCHANGED pages
        /\ UNCHANGED <<platform, flags, dealloc, given, ready>>

\* Mutant: the pages of every machine are made writable and executable.
OpenAlways(v) == TRUE

Open(v) == ~flags[v].secure

\* CompiledVm::CompiledVm
Constructor(t) ==
    /\ At(t, {"create_vm"}, "constructor")
    /\ IF Open(Obj(t)) THEN SetPages(t, Obj(t), "RWX") ELSE UNCHANGED pages
    /\ Goto(t, Attachment(t))
    /\ UNCHANGED <<platform, heap>>

\* VmBase::allocate: without cache and dataset it throws as well.
Scratchpad(t) ==
    LET v == Obj(t)
    IN  /\ At(t, {"create_vm"}, "memory")
        /\ \/ /\ call[t].source
              /\ held' = [held EXCEPT ![v]["memory"] = Allocator(v)]
              /\ given' = given \cup {v}
              /\ Goto(t, "return")
           \/ /\ Goto(t, "failed")
              /\ UNCHANGED <<held, given>>
        /\ UNCHANGED <<platform, flags, dealloc, ready, pages>>

-----------------------------------------------------------------------------
(* Code.                                                                   *)

\* randomx_init_cache, with a key other than the one before.
InitCache(t, c) ==
    /\ c \in given
    /\ flags[c].jit
    /\ Enter(t, "init_cache", c, "writing", TRUE)
    /\ UNCHANGED <<platform, heap, pages>>

\* randomx_vm_set_cache
SetCache(t, v) ==
    /\ v \in given
    /\ flags[v].kind = "light"
    /\ Enter(t, "set_cache", v, "writing", TRUE)
    /\ UNCHANGED <<platform, heap, pages>>

\* CompiledVm::run and CompiledLightVm::run, once per program.
RunProgram(t, v) ==
    /\ v \in given
    /\ flags[v].jit
    /\ Enter(t, "run", v, "writing", TRUE)
    /\ UNCHANGED <<platform, heap, pages>>

\* randomx_init_dataset, on any thread: nothing in it enables execution.
InitDataset(t, c) ==
    /\ c \in given \cap ready
    /\ Enter(t, "init_dataset", c, "code", TRUE)
    /\ UNCHANGED <<platform, heap, pages>>

Generating == {"create_vm", "init_cache", "set_cache", "run"}

EnableWriting(t) ==
    /\ At(t, Generating, "writing")
    /\ IF flags[Obj(t)].secure THEN SetPages(t, Obj(t), "RW") ELSE UNCHANGED pages
    /\ Goto(t, "generate")
    /\ UNCHANGED <<platform, heap>>

\* generateSuperscalarHash writes to all of the code, generateProgram and
\* generateProgramLight to the part that runs.
Generate(t) ==
    LET o == Obj(t)
        written == IF call[t].op = "run" THEN Main(o) ELSE Mapped(o)
    IN  /\ At(t, Generating, "generate")
        /\ Access(o, \A p \in written : Writable(t, o, p))
        /\ UNCHANGED strayed
        /\ ready' = ready \cup {o}
        /\ Goto(t, "execution")
        /\ UNCHANGED <<platform, flags, held, dealloc, given>>

EnableExecution(t) ==
    LET next == CASE call[t].op = "create_vm" -> "memory"
                  [] call[t].op = "run" -> "code"
                  [] OTHER -> "return"
    IN  /\ At(t, Generating, "execution")
        /\ IF flags[Obj(t)].secure THEN SetPages(t, Obj(t), "RX") ELSE UNCHANGED pages
        /\ Goto(t, next)
        /\ UNCHANGED <<platform, heap>>

\* Dataset initialisation and programs run the main part; the vector code of a light
\* machine calls the dataset initialisation of the other.
RunCode(t) ==
    LET o == Obj(t)
        run == IF flags[o].kind = "light" THEN Mapped(o) ELSE Main(o)
    IN  /\ At(t, {"run", "init_dataset"}, "code")
        /\ Access(o, \A p \in run : Executable(t, o, p))
        /\ strayed' = IF call[t].op = "init_dataset" /\ t \in creators
                      THEN strayed \cup {o} ELSE strayed
        /\ Goto(t, "return")
        /\ UNCHANGED <<platform, heap>>

-----------------------------------------------------------------------------

Next ==
    \E t \in Threads :
        \/ \E c \in Stores, jit, large \in BOOLEAN : AllocCache(t, c, jit, large)
        \/ \E d \in Stores, large \in BOOLEAN : AllocDataset(t, d, large)
        \/ NewStore(t) \/ NewCompiler(t) \/ StoreMemory(t) \/ Failed(t)
        \/ \E v \in VMs, kind \in {"interpreted", "light", "full"}, large, secure, source \in BOOLEAN :
              CreateVm(t, v, kind, large, secure, source)
        \/ NewVm(t) \/ Constructor(t) \/ Scratchpad(t)
        \/ \E c \in Stores : InitCache(t, c) \/ InitDataset(t, c)
        \/ \E v \in VMs : SetCache(t, v) \/ RunProgram(t, v)
        \/ EnableWriting(t) \/ Generate(t) \/ EnableExecution(t) \/ RunCode(t)
        \/ \E o \in Objects : Release(t, o)

Spec == Init /\ [][Next]_vars

-----------------------------------------------------------------------------
(* Correctness.                                                            *)

\* The parts an object with these flags consists of.
Needed(o) ==
    {"object", "memory"} \cup (IF flags[o].jit THEN {"code"} ELSE {})
                         \cup (IF flags[o].jit /\ o \in Stores THEN {"compiler"} ELSE {})

\* An allocation that fails half way leaves nothing behind, one that succeeds returns
\* an object that is complete, and a release returns everything: randomx_alloc_cache,
\* randomx_alloc_dataset, randomx_create_vm and their counterparts.
AllOrNothing ==
    \A o \in Objects :
        IF o \in given
        THEN {p \in Parts : held[o][p] # None} \ {"vector"} = Needed(o)
        ELSE (\A t \in Threads : call[t].obj # o) => held[o] = NoParts

\* Code is written where it may be written, run where it may be run, and memory is
\* freed by the allocator it came from: the process is stopped only at an object whose
\* pages the system refused to protect as the compiler asked, or, with MAP_JIT, in a
\* randomx_init_dataset on a thread that has asked for the pages of a compiler since it
\* last enabled execution (nothing in randomx_init_dataset does).
FaultsOnlyIfRefused == fault # None => fault \in refused \cup strayed

\* "the JIT pages are never writable and executable at the same time": those of
\* secure machines, and those of caches as well, even if protections are refused.
NeverBoth ==
    \A o \in Objects, p \in CodeParts : prot[o][p] = "RWX" => o \in VMs /\ ~flags[o].secure

TypeOK ==
    /\ platform \in Platforms
    /\ flags \in [Objects -> Flags]
    /\ held \in [Objects -> [Parts -> {"new", "aligned", "large", "mapped", None}]]
    /\ dealloc \in [Stores -> {"aligned", "large", None}]
    /\ given \subseteq Objects /\ ready \subseteq Objects
    /\ prot \in [Objects -> [CodeParts -> {"RW", "RX", "RWX", "MAP_JIT", None}]]
    /\ mode \in [Threads -> {"write", "run"}]
    /\ creators \subseteq Threads /\ refused \subseteq Objects /\ strayed \subseteq Objects
    /\ call \in [Threads -> [op: Calls \cup {"none"}, obj: Objects \cup {None},
                           at: Steps \cup {"return"}, source: BOOLEAN]]
    /\ fault \in Objects \cup {None}

-----------------------------------------------------------------------------
(* Why that is so, whatever fails and whichever threads are in between.    *)

StepsOf(op) ==
    CASE op = "alloc_cache"   -> {"object", "compiler", "memory", "failed"}
      [] op = "alloc_dataset" -> {"object", "memory", "failed"}
      [] op = "create_vm"     -> Steps \ {"compiler", "code"}
      [] op = "run"           -> {"writing", "generate", "execution", "code"}
      [] op = "init_dataset"  -> {"code"}
      [] OTHER                -> {"writing", "generate", "execution"}

Allocating == {"alloc_cache", "alloc_dataset", "create_vm"}

\* What a call works on.
UsedBy(op) ==
    CASE op \in {"create_vm", "set_cache", "run"} -> VMs
      [] op = "init_dataset"                     -> Stores \cap ready
      [] OTHER                                   -> Stores

\* A thread is in no call or at one of its call's steps, with an object of the call's sort.
InCall(t) ==
    \/ call[t] = Idle
    \/ /\ call[t].op \in Calls
       /\ call[t].at \in StepsOf(call[t].op)
       /\ Obj(t) \in UsedBy(call[t].op)
       /\ Obj(t) \in given <=> call[t].op \notin Allocating
       /\ call[t].op = "alloc_dataset" => ~flags[Obj(t)].jit
       /\ call[t].at \in {"compiler", "constructor", "writing", "generate", "execution", "code"} =>
             flags[Obj(t)].jit

OneCallEach == \A t, u \in Threads : Obj(t) = Obj(u) /\ Obj(t) # None => t = u

\* The parts an object has, those it has no choice about.
Has(o) == {p \in Parts : held[o][p] # None} \ {"vector"}

\* What has been allocated by the time an allocating call is at a step.
SoFar(o, at) ==
    CASE at = "object"   -> {}
      [] at = "compiler" -> {"object"}
      [] OTHER           -> Needed(o) \ {"memory"}

PartsOfTheCall(t) ==
    /\ call[t].op \in Allocating /\ call[t].at # "failed" => Has(Obj(t)) = SoFar(Obj(t), call[t].at)
    /\ call[t].at = "object" => held[Obj(t)] = NoParts

\* Each part is released by the allocator it came from.
Matched(o) ==
    /\ \A p \in Parts : held[o][p] \in {None, FreedBy(o)[p]}
    /\ o \in Stores /\ held[o]["object"] # None => dealloc[o] = Allocator(o)
    /\ \A p \in CodeParts : held[o][p] = None => prot[o][p] = None

\* Which objects have code, and which of them leave it open.
Sorted(o) ==
    /\ flags[o].jit /\ (o \in Stores \/ platform = "threads") => flags[o].secure
    /\ flags[o].kind = "light" => flags[o].jit
    /\ o \in Stores \cap ready => o \in given /\ flags[o].jit

Closed(o) == \A p \in CodeParts : prot[o][p] = "RWX" => o \in VMs /\ ~flags[o].secure

Permitted(o, rules) == o \notin refused => \A p \in Mapped(o) : prot[o][p] \in rules

\* The pages of an open machine stay open from the constructor on.
StaysOpen(o) ==
    flags[o].jit /\ ~flags[o].secure
        /\ (o \in given \/ \E t \in Threads :
                Obj(t) = o /\ call[t].at \in {"writing", "generate", "execution", "memory"})
    => Permitted(o, {"RWX"})

\* What a thread is about to write it may write, and what it is about to run it may run.
MayWriteAndRun(t) ==
    IF platform = "threads"
    THEN /\ call[t].at = "generate" => mode[t] = "write"
         /\ call[t].at = "code" /\ call[t].op = "run" => mode[t] = "run"
    ELSE /\ call[t].at = "generate" => Permitted(Obj(t), {"RW", "RWX"})
         /\ call[t].at = "code" => Permitted(Obj(t), {"RX", "RWX"})

\* Where a thread may not run code it is generating some, or has asked for pages.
Switched(t) ==
    mode[t] = "write" =>
        platform = "threads" /\ (t \in creators \/ call[t].at \in {"generate", "execution"})

\* Between two calls an object is complete or gone, and generated code can be run.
AtRest(o) ==
    (\A t \in Threads : Obj(t) # o) =>
        /\ o \notin given => held[o] = NoParts
        /\ o \in Stores \cap ready /\ platform = "pages" => Permitted(o, {"RX"})

Complete(o) == o \in given => Has(o) = Needed(o)

CallSound(t) == InCall(t) /\ PartsOfTheCall(t) /\ MayWriteAndRun(t)
ObjectSound(o) == Matched(o) /\ Sorted(o) /\ Closed(o) /\ StaysOpen(o) /\ AtRest(o) /\ Complete(o)

AllocationInv ==
    /\ TypeOK
    /\ OneCallEach
    /\ \A t \in Threads : CallSound(t)
    /\ \A o \in Objects : ObjectSound(o)
    /\ FaultsOnlyIfRefused

ThreadsSwitched == \A t \in Threads : Switched(t)
=============================================================================
