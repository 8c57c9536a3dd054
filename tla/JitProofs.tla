----------------------------- MODULE JitProofs -----------------------------
(***************************************************************************)
(* Compiling, for any number of programs, processes and evaluators.        *)
(*                                                                         *)
(* The persistent module cache (ModuleCache), for any number of pieces of  *)
(* a file, compile calls and process deaths: as long as all processes bind *)
(* symbols alike, a compile call leaves code for what it asked for, and a  *)
(* file under a cached name is whole wherever processes have died, unless  *)
(* two of them had its ".tmp" open at once.  The invariant has one part    *)
(* per process (what its call and its JitCompiler::Impl have in common)    *)
(* and two for the directory they share: whose file is whose, and how far  *)
(* a file with one writer has come.                                        *)
(*                                                                         *)
(* Tiering (TieredJit): the warm-up threshold covers every call the second *)
(* compile specialises, so no tick ever differs from what baseline code    *)
(* would have done.                                                        *)
(***************************************************************************)
EXTENDS ModuleCache, TieredJit, FiniteSetTheorems, WellFoundedInduction, TLAPS

\* BindSymbolIds gives every process the same symbol ids.
AllBindAlike == \A b, d \in Bindings : b = d

-----------------------------------------------------------------------------
(* The inductive invariant *)

Building == {"open", "write", "rename", "remove", "add"}

\* A call under way has its arguments; past the build or the read it holds the
\* module they ask for; only a cached call touches the directory, and only
\* between open and rename through a descriptor.
CallOK(cl) ==
  /\ cl.pc # "idle" => cl.want \in IR
  /\ cl.cached => cl.want \in IR /\ cl.want.kind \in CachedKinds
  /\ cl.pc \in {"read", "open", "write", "rename", "remove"} => cl.cached
  /\ cl.pc \in Building => cl.module = cl.want
  /\ cl.fd # None <=> cl.pc \in {"write", "rename"}
  /\ cl.pc = "write" => cl.off < Chunks

\* The getters after a call that ended well.
DiagnosticsOK(im, cl) ==
  (cl.pc = "idle" /\ cl.want # None /\ im.slots[SlotOf(cl.want.kind)] # None) =>
    /\ cl.want.kind \in CachedKinds /\ im.served \in {"built", "disk"} =>
         (im.last_cache_hit <=> im.served = "disk")
    /\ im.served = "built" \/ (im.served = "disk" /\ cl.want.kind # "grad") =>
         im.last_ir # None
    /\ im.last_ir # None => im.last_ir = im.slots[SlotOf(cl.want.kind)]

\* The pointers are cleared until the call is through, and then hold what was
\* asked for; last_ir follows the module at hand.
ResultOK(im, cl) ==
  /\ \A s \in Slots : im.slots[s] # None =>
       /\ cl.want \in IR
       /\ \/ cl.pc = "idle" /\ im.slots[s] = cl.want
          \/ s = "vec" /\ cl.want.kind = "signal"
  /\ cl.pc \in {"read", "build"} => im.last_ir = None
  /\ cl.pc \in Building => /\ im.last_ir \in {None, cl.want}
                           /\ ~cl.loaded \/ cl.want.kind # "grad" => im.last_ir = cl.want

NeedsGrad(kind, prog) == kind = "grad" /\ prog \in GradRuntime

\* What ORC holds: the runtime symbols of the first kind that got there; under
\* a name the code of that name, or the wreck of a gradient that did not link.
OrcOK(im) ==
  /\ im.registered = "gradient" <=> im.first = "grad"
  /\ im.registered = None <=> im.first = None
  /\ \A n \in Names :
       /\ im.dylib[n] \in IR =>
            /\ Name(im.dylib[n].kind, im.dylib[n].prog) = n
            /\ NeedsGrad(n[1], n[2]) => im.registered = "gradient"
       /\ im.dylib[n] = Broken => NeedsGrad(n[1], n[2]) /\ im.registered = "program"

\* A call that goes past the lookup in memory did not find its name there; a
\* call that ended without code had a gradient that cannot link.
LinkOK(im, cl) ==
  /\ cl.cached => im.dylib[Name(cl.want.kind, cl.want.prog)] \notin IR
  /\ (cl.pc = "idle" /\ cl.want # None /\ <<cl.want.kind, cl.want.prog>> \notin Rejected) =>
       (im.slots[SlotOf(cl.want.kind)] = None
          <=> NeedsGrad(cl.want.kind, cl.want.prog) /\ im.first # "grad")

ProcessOK(im, cl) ==
  CallOK(cl) /\ DiagnosticsOK(im, cl) /\ ResultOK(im, cl) /\ OrcOK(im) /\ LinkOK(im, cl)

ProcessesOK == \A c \in Compilers : ProcessOK(impl[c], call[c])

\* Inode i is the file of name n: cached, temporary or open for writing.
Refers(n, i) == \/ dst[n] = i
                \/ tmp[n] = i
                \/ \E c \in Compilers : call[c].fd = i /\ NameOf(c) = n

\* A file has one name and holds modules of that name only; no file is cached
\* and temporary at once.
FilesNamed ==
  /\ \A n \in Names, i \in Inodes : Refers(n, i) =>
       /\ i <= inodes
       /\ \A k \in 1..Chunks :
            data[i][k] \in IR => Name(data[i][k].kind, data[i][k].prog) = n
  /\ \A n, m \in Names, i \in Inodes : Refers(n, i) /\ Refers(m, i) => n = m
  /\ \A n \in Names : dst[n] # None => dst[n] # tmp[n]

\* Pieces 1..k of inode i are written.
Written(i, k) == \A j \in 1..k : data[i][j] \in IR

\* A name whose temporary file one process at a time has opened: that process
\* has the file that now has the name and has written all of it up to its
\* offset; what was renamed is complete; and no rename has failed.
OneWriter(n) ==
  /\ dst[n] # None => Written(dst[n], Chunks)
  /\ \A c \in Compilers : NameOf(c) = n =>
       /\ call[c].fd # None =>
            /\ call[c].fd = tmp[n]
            /\ Written(call[c].fd, call[c].off)
            /\ At(c, "rename") => Written(call[c].fd, Chunks)
       /\ ~At(c, "remove")
  /\ \A c, d \in Compilers :
       NameOf(c) = n /\ NameOf(d) = n /\ call[c].fd # None /\ call[d].fd # None => c = d
OneWriterEach == \A n \in Names \ shared : OneWriter(n)

\* Each inode was created by a compile call that has since gone past its open.
PendingCall(cl) == cl.cached /\ cl.pc \in {"read", "build", "open"}
Pending == {c \in Compilers : PendingCall(call[c])}
InodesBounded == inodes + Cardinality(Pending) <= compiles

CacheIndInv == TypeOK /\ ProcessesOK /\ FilesNamed /\ OneWriterEach /\ InodesBounded

-----------------------------------------------------------------------------
(* Types *)

\* Facts about the constants that every step uses.
LEMMA CacheConstants ==
  /\ Chunks \in Nat /\ Chunks >= 1 /\ MaxCompiles \in Nat /\ MaxCrashes \in Nat
  /\ None \notin IR /\ Eof \notin IR /\ Hole \notin IR /\ Broken \notin IR /\ None # Broken
  /\ None \notin Kinds /\ None # "grad" /\ None # "gradient" /\ None # "program"
  /\ None # "built" /\ None # "disk"
  /\ None \notin Inodes
BY CacheAssumption, SentinelAssumption DEF Kinds, Inodes

\* What a module is: its kind, its program and its binding.
LEMMA IRFields ==
  ASSUME NEW ir \in IR
  PROVE  /\ ir.kind \in Kinds /\ ir.prog \in Programs /\ ir.bind \in Bindings
         /\ ir = [kind |-> ir.kind, prog |-> ir.prog, bind |-> ir.bind]
         /\ SlotOf(ir.kind) \in Slots
         /\ ir.kind \in CachedKinds => Name(ir.kind, ir.prog) \in Names
BY DEF IR, SlotOf, Slots, Kinds, Name, Names, CachedKinds

\* If all bind alike, the key determines the module.
LEMMA KeyDetermines ==
  ASSUME AllBindAlike, NEW a \in IR, NEW b \in IR,
         Name(a.kind, a.prog) = Name(b.kind, b.prog)
  PROVE  a = b
<1>1. a.kind = b.kind /\ a.prog = b.prog
  BY DEF Name
<1>2. a.bind = b.bind
  BY IRFields DEF AllBindAlike
<1> QED BY <1>1, <1>2, IRFields

\* The fields of an Impl.
LEMMA ImplFields ==
  ASSUME NEW im \in ImplType
  PROVE  /\ im.cache_on \in BOOLEAN /\ im.last_cache_hit \in BOOLEAN
         /\ im.last_ir \in IR \cup {None}
         /\ im.slots \in [Slots -> IR \cup {None}]
         /\ im.registered \in {None, "program", "gradient"}
         /\ im.first \in Kinds \cup {None}
         /\ im.dylib \in [Names -> IR \cup {None, Broken}]
         /\ im.served \in {None, "built", "disk", "memory"}
BY DEF ImplType

\* The fields of a call.
LEMMA CallFields ==
  ASSUME NEW cl \in CallType
  PROVE  /\ cl.pc \in Steps /\ cl.want \in IR \cup {None} /\ cl.cached \in BOOLEAN
         /\ cl.module \in IR \cup {None} /\ cl.loaded \in BOOLEAN
         /\ cl.fd \in Inodes \cup {None} /\ cl.off \in 0..Chunks
BY DEF CallType

\* A new JitCompiler and the locals of no call.
LEMMA FreshTypes == FreshImpl \in ImplType /\ NoCall \in CallType
<1>1. FreshImpl \in ImplType
  BY DEF FreshImpl, ImplType, NoSlots
<1>2. 0 \in 0..Chunks
  BY CacheConstants
<1>3. NoCall \in CallType
  BY <1>2 DEF NoCall, CallType, Steps
<1> QED BY <1>1, <1>3

\* A call that has ended keeps its arguments.
LEMMA EndedType ==
  ASSUME NEW w \in IR \cup {None}
  PROVE  [NoCall EXCEPT !.want = w] \in CallType
<1>1. 0 \in 0..Chunks
  BY CacheConstants
<1> QED BY <1>1 DEF NoCall, CallType, Steps

\* Entering an entry point.
LEMMA EnteredFacts ==
  ASSUME NEW im \in ImplType, NEW kind \in Kinds
  PROVE  /\ Entered(im, kind) \in ImplType
         /\ Entered(im, kind).last_ir = None
         /\ Entered(im, kind).cache_on = im.cache_on
         /\ Entered(im, kind).registered = im.registered
         /\ Entered(im, kind).first = im.first
         /\ Entered(im, kind).dylib = im.dylib
         /\ \A s \in Slots : Entered(im, kind).slots[s] # None => s = "vec" /\ kind = "signal"
BY DEF ImplType, Entered, ClearSlots, NoSlots, Slots

\* Publishing code.
LEMMA PublishedFacts ==
  ASSUME NEW im \in ImplType, NEW kind \in Kinds, NEW ir \in IR,
         NEW source \in {"built", "disk", "memory"}
  PROVE  /\ Published(im, ir, kind, source) \in ImplType
         /\ Published(im, ir, kind, source).last_ir = im.last_ir
         /\ Published(im, ir, kind, source).registered = im.registered
         /\ Published(im, ir, kind, source).first = im.first
         /\ Published(im, ir, kind, source).dylib = im.dylib
         /\ Published(im, ir, kind, source).served = source
         /\ Published(im, ir, kind, source).slots = [im.slots EXCEPT ![SlotOf(kind)] = ir]
         /\ kind \in CachedKinds =>
              Published(im, ir, kind, source).last_cache_hit = (source # "built")
BY DEF ImplType, Published, SlotOf, Slots, Kinds

-----------------------------------------------------------------------------
(* One process takes a step *)

\* Process c goes on with the Impl im and the locals cl.
Becomes(c, im, cl) == /\ impl' = [impl EXCEPT ![c] = im]
                      /\ call' = [call EXCEPT ![c] = cl]

\* The step of one process leaves the others alone.
LEMMA OthersKept ==
  ASSUME TypeOK, NEW c \in Compilers, NEW im, NEW cl, Becomes(c, im, cl)
  PROVE  /\ impl'[c] = im /\ call'[c] = cl
         /\ \A d \in Compilers : d # c => impl'[d] = impl[d] /\ call'[d] = call[d]
BY DEF Becomes, TypeOK

\* So its types and its part of the invariant are all there is to show.
LEMMA ProcessStep ==
  ASSUME TypeOK, ProcessesOK, NEW c \in Compilers, NEW im \in ImplType, NEW cl \in CallType,
         Becomes(c, im, cl), ProcessOK(im, cl)
  PROVE  /\ impl' \in [Compilers -> ImplType] /\ call' \in [Compilers -> CallType]
         /\ ProcessesOK'
<1>1. impl' \in [Compilers -> ImplType] /\ call' \in [Compilers -> CallType]
  BY DEF Becomes, TypeOK
<1>2. ASSUME NEW d \in Compilers PROVE ProcessOK(impl'[d], call'[d])
  <2>1. CASE d = c
    BY <2>1, OthersKept
  <2>2. CASE d # c
    BY <2>2, OthersKept DEF ProcessesOK
  <2> QED BY <2>1, <2>2
<1>3. ProcessesOK'
  BY <1>2 DEF ProcessesOK
<1> QED BY <1>1, <1>3

\* The part of the invariant that belongs to a process without a call.
LEMMA FreshOK == ProcessOK(FreshImpl, NoCall)
<1>1. CallOK(NoCall)
  BY CacheConstants DEF CallOK, NoCall, Building
<1>2. DiagnosticsOK(FreshImpl, NoCall)
  BY DEF DiagnosticsOK, NoCall
<1>3. ResultOK(FreshImpl, NoCall)
  BY DEF ResultOK, NoCall, FreshImpl, NoSlots, Building
<1>4. OrcOK(FreshImpl)
  BY CacheConstants DEF OrcOK, FreshImpl
<1>5. LinkOK(FreshImpl, NoCall)
  BY DEF LinkOK, NoCall
<1> QED BY <1>1, <1>2, <1>3, <1>4, <1>5 DEF ProcessOK

-----------------------------------------------------------------------------
(* The calls, step by step: the process that acts keeps its part *)

\* What is known of the process that acts.
LEMMA Acting ==
  ASSUME TypeOK, ProcessesOK, NEW c \in Compilers
  PROVE  /\ impl[c] \in ImplType /\ call[c] \in CallType
         /\ CallOK(call[c]) /\ DiagnosticsOK(impl[c], call[c])
         /\ ResultOK(impl[c], call[c]) /\ OrcOK(impl[c]) /\ LinkOK(impl[c], call[c])
BY DEF TypeOK, ProcessesOK, ProcessOK

\* EnableModuleCache and DisableModuleCache.
LEMMA SwitchOK ==
  ASSUME TypeOK, ProcessesOK, NEW c \in Compilers,
         EnableModuleCache(c) \/ DisableModuleCache(c)
  PROVE  /\ impl' \in [Compilers -> ImplType] /\ call' \in [Compilers -> CallType]
         /\ ProcessesOK'
<1>1. PICK on \in BOOLEAN, hit \in BOOLEAN, src \in {None, impl[c].served} :
        /\ impl' = [impl EXCEPT ![c] = [impl[c] EXCEPT !.cache_on = on, !.last_cache_hit = hit,
                                                     !.served = src]]
        /\ src # None => hit = impl[c].last_cache_hit
  <2>1. CASE EnableModuleCache(c)
    <3>1. impl' = [impl EXCEPT ![c] = [impl[c] EXCEPT !.cache_on = TRUE,
                                          !.last_cache_hit = impl[c].last_cache_hit,
                                          !.served = impl[c].served]]
      BY <2>1 DEF EnableModuleCache, TypeOK, ImplType
    <3> QED BY <3>1, Acting, ImplFields
  <2>2. CASE DisableModuleCache(c)
    <3>1. impl' = [impl EXCEPT ![c] = [impl[c] EXCEPT !.cache_on = FALSE,
                                                     !.last_cache_hit = FALSE,
                                                     !.served = None]]
      BY <2>2 DEF DisableModuleCache, TypeOK, ImplType
    <3> QED BY <3>1
  <2> QED BY <2>1, <2>2
<1> DEFINE im == [impl[c] EXCEPT !.cache_on = on, !.last_cache_hit = hit, !.served = src]
           cl == call[c]
<1>2. impl[c] \in ImplType /\ cl \in CallType
  BY Acting
<1>3. /\ im \in ImplType /\ im.last_ir = impl[c].last_ir /\ im.slots = impl[c].slots
      /\ im.registered = impl[c].registered /\ im.first = impl[c].first
      /\ im.dylib = impl[c].dylib /\ im.served = src
      /\ im.last_cache_hit = hit
  BY <1>2 DEF ImplType
<1>4. Becomes(c, im, cl)
  BY <1>1 DEF Becomes, EnableModuleCache, DisableModuleCache, TypeOK
<1>5. CallOK(cl) /\ ResultOK(im, cl) /\ OrcOK(im) /\ LinkOK(im, cl)
  <2> HIDE DEF im
  <2> QED BY <1>3, Acting DEF ResultOK, OrcOK, LinkOK
<1>6. DiagnosticsOK(im, cl)
  <2> HIDE DEF im
  <2>1. CASE src = None
    BY <1>3, <2>1, Acting, CacheConstants DEF DiagnosticsOK
  <2>2. CASE src # None
    BY <1>1, <1>3, <2>2, Acting DEF DiagnosticsOK
  <2> QED BY <2>1, <2>2
<1> HIDE DEF im, cl
<1> QED BY <1>2, <1>3, <1>4, <1>5, <1>6, ProcessStep DEF ProcessOK

\* A compile call that finds its code in memory.
LEMMA ResidentOK ==
  ASSUME TypeOK, ProcessesOK, AllBindAlike, NEW c \in Compilers, NEW ir \in Asked,
         CompileResident(c, ir)
  PROVE  /\ impl' \in [Compilers -> ImplType] /\ call' \in [Compilers -> CallType]
         /\ ProcessesOK'
<1> DEFINE n == Name(ir.kind, ir.prog)
           e == Entered(impl[c], ir.kind)
           im == Published(e, impl[c].dylib[n], ir.kind, "memory")
           cl == [NoCall EXCEPT !.want = ir]
<1>1. ir \in IR /\ ir.kind \in Kinds /\ ir.kind \in CachedKinds /\ n \in Names
      /\ SlotOf(ir.kind) \in Slots /\ impl[c].dylib[n] \in IR
  BY IRFields DEF Asked, CompileResident
<1>2. impl[c].dylib[n] = ir
  BY <1>1, Acting, KeyDetermines DEF OrcOK
<1>3. Becomes(c, im, cl)
  BY DEF CompileResident, Becomes
<1>4. e \in ImplType /\ e.last_ir = None /\ e.registered = impl[c].registered
      /\ e.first = impl[c].first /\ e.dylib = impl[c].dylib
      /\ \A s \in Slots : e.slots[s] # None => s = "vec" /\ ir.kind = "signal"
  BY <1>1, Acting, EnteredFacts
<1>5. /\ im \in ImplType /\ im.last_ir = None /\ im.registered = impl[c].registered
      /\ im.first = impl[c].first /\ im.dylib = impl[c].dylib /\ im.served = "memory"
      /\ im.slots = [e.slots EXCEPT ![SlotOf(ir.kind)] = ir]
  <2> HIDE DEF e
  <2> QED BY <1>1, <1>2, <1>4, PublishedFacts
<1>6. cl \in CallType /\ cl.pc = "idle" /\ cl.want = ir /\ cl.fd = None /\ cl.cached = FALSE
  BY <1>1, EndedType DEF NoCall
<1>7. e.slots \in [Slots -> IR \cup {None}]
  BY <1>4, ImplFields
<1>8. im.slots[SlotOf(ir.kind)] = ir /\ ir # None
  BY <1>1, <1>5, <1>7, CacheConstants
<1>9. \A s \in Slots : im.slots[s] # None => s = SlotOf(ir.kind) \/ (s = "vec" /\ ir.kind = "signal")
  BY <1>4, <1>5, <1>7
<1> HIDE DEF e, im, cl
<1>10. CallOK(cl)
  BY <1>6 DEF CallOK, Building
<1>11. DiagnosticsOK(im, cl)
  BY <1>5, <1>6 DEF DiagnosticsOK
<1>12. ResultOK(im, cl)
  BY <1>1, <1>6, <1>8, <1>9 DEF ResultOK, Building
<1>13. OrcOK(im)
  BY <1>5, Acting DEF OrcOK
<1>14. LinkOK(im, cl)
  <2>1. NeedsGrad(ir.kind, ir.prog) => impl[c].first = "grad"
    BY <1>1, Acting DEF OrcOK, NeedsGrad, Name
  <2> QED BY <1>5, <1>6, <1>8, <2>1 DEF LinkOK
<1> QED BY <1>3, <1>5, <1>6, <1>10, <1>11, <1>12, <1>13, <1>14, ProcessStep DEF ProcessOK

\* Any other compile call begins.
LEMMA BeginOK ==
  ASSUME TypeOK, ProcessesOK, NEW c \in Compilers, NEW ir \in Asked, CompileBegin(c, ir)
  PROVE  /\ impl' \in [Compilers -> ImplType] /\ call' \in [Compilers -> CallType]
         /\ ProcessesOK'
<1> DEFINE use == impl[c].cache_on /\ ir.kind \in CachedKinds
           im == Entered(impl[c], ir.kind)
           cl == [NoCall EXCEPT !.want = ir, !.cached = use,
                                !.pc = IF use THEN "read" ELSE "build"]
<1>1. ir \in IR /\ ir.kind \in Kinds /\ use \in BOOLEAN
  BY IRFields, Acting, ImplFields DEF Asked
<1>2. Becomes(c, im, cl)
  BY DEF CompileBegin, Becomes
<1>3. use => impl[c].dylib[Name(ir.kind, ir.prog)] \notin IR
  BY DEF CompileBegin
<1>4. im \in ImplType /\ im.last_ir = None /\ im.registered = impl[c].registered
      /\ im.first = impl[c].first /\ im.dylib = impl[c].dylib
      /\ \A s \in Slots : im.slots[s] # None => s = "vec" /\ ir.kind = "signal"
  BY <1>1, Acting, EnteredFacts
<1>5. /\ cl \in CallType /\ cl.pc = (IF use THEN "read" ELSE "build") /\ cl.want = ir
      /\ cl.cached = use /\ cl.fd = None /\ cl.loaded = FALSE
  <2>1. 0 \in 0..Chunks
    BY CacheConstants
  <2> QED BY <1>1, <2>1 DEF NoCall, CallType, Steps
<1>6. use => ir.kind \in CachedKinds
  OBVIOUS
<1> HIDE DEF use, im, cl
<1>7. CallOK(cl)
  BY <1>1, <1>5, <1>6 DEF CallOK, Building
<1>8. DiagnosticsOK(im, cl) /\ ResultOK(im, cl)
  BY <1>1, <1>4, <1>5 DEF DiagnosticsOK, ResultOK, Building
<1>9. OrcOK(im)
  BY <1>4, Acting DEF OrcOK
<1>10. LinkOK(im, cl)
  BY <1>3, <1>4, <1>5 DEF LinkOK
<1> QED BY <1>2, <1>4, <1>5, <1>7, <1>8, <1>9, <1>10, ProcessStep DEF ProcessOK

\* A cached file that parses holds the module of its name.
LEMMA ParsedModule ==
  ASSUME TypeOK, FilesNamed, NEW n \in Names, NEW i, i = dst[n], i # None, Parses(data[i])
  PROVE  /\ data[i][Chunks] \in IR
         /\ Name(data[i][Chunks].kind, data[i][Chunks].prog) = n
<1>1. Chunks \in 1..Chunks
  BY CacheConstants
<1>2. data[i][Chunks] \in IR
  BY <1>1 DEF Parses, Whole
<1>3. i \in Inodes /\ Refers(n, i)
  BY DEF TypeOK, Refers
<1> QED BY <1>1, <1>2, <1>3 DEF FilesNamed

\* ReadModuleFromCache.
LEMMA ReadOK ==
  ASSUME TypeOK, ProcessesOK, FilesNamed, AllBindAlike, NEW c \in Compilers,
         ReadModuleFromCache(c)
  PROVE  /\ impl' \in [Compilers -> ImplType] /\ call' \in [Compilers -> CallType]
         /\ ProcessesOK'
<1>0. impl[c] \in ImplType /\ call[c] \in CallType
  BY Acting
<1>1. /\ call[c].pc = "read" /\ call[c].want \in IR /\ call[c].cached
      /\ call[c].want.kind \in CachedKinds /\ call[c].fd = None /\ NameOf(c) \in Names
      /\ impl[c].last_ir = None
  BY Acting, IRFields DEF ReadModuleFromCache, At, CallOK, ResultOK, NameOf
<1> DEFINE i == dst[NameOf(c)]
<1>2. CASE i # None /\ Parses(data[i])
  <2> DEFINE ir == data[i][Chunks]
             cl == [call[c] EXCEPT !.pc = "add", !.module = ir, !.loaded = TRUE]
             im == IF call[c].want.kind = "grad" THEN impl[c]
                   ELSE [impl[c] EXCEPT !.last_ir = ir]
  <2>1. ir \in IR /\ ir = call[c].want
    <3>1. ir \in IR /\ Name(ir.kind, ir.prog) = NameOf(c)
      BY <1>1, <1>2, ParsedModule
    <3> QED BY <3>1, <1>1, KeyDetermines DEF NameOf
  <2>2. Becomes(c, im, cl)
    BY <1>0, <1>2 DEF ReadModuleFromCache, Becomes, TypeOK, ImplType, CallType
  <2>3. /\ im \in ImplType /\ im.last_ir \in {None, ir} /\ im.slots = impl[c].slots
        /\ call[c].want.kind # "grad" => im.last_ir = ir
        /\ im.registered = impl[c].registered /\ im.first = impl[c].first
        /\ im.dylib = impl[c].dylib
    BY <1>0, <1>1, <2>1 DEF ImplType
  <2>4. /\ cl \in CallType /\ cl.pc = "add" /\ cl.want = call[c].want /\ cl.cached = call[c].cached
        /\ cl.module = ir /\ cl.loaded = TRUE /\ cl.fd = call[c].fd
    BY <1>0, <2>1 DEF CallType, Steps
  <2> HIDE DEF ir, im, cl
  <2>5. CallOK(cl)
    BY <1>1, <2>1, <2>4 DEF CallOK, Building
  <2>6. DiagnosticsOK(im, cl) /\ ResultOK(im, cl)
    BY <1>1, <2>1, <2>3, <2>4, Acting DEF DiagnosticsOK, ResultOK, Building
  <2>7. OrcOK(im)
    BY <2>3, Acting DEF OrcOK
  <2>8. LinkOK(im, cl)
    BY <1>1, <2>3, <2>4, Acting DEF LinkOK
  <2> QED BY <2>2, <2>3, <2>4, <2>5, <2>6, <2>7, <2>8, ProcessStep DEF ProcessOK
<1>3. CASE ~(i # None /\ Parses(data[i]))
  <2> DEFINE cl == [call[c] EXCEPT !.pc = "build"]  im == impl[c]
  <2>1. Becomes(c, im, cl)
    BY <1>0, <1>3 DEF ReadModuleFromCache, Goto, Becomes, TypeOK, ImplType, CallType
  <2>2. /\ cl \in CallType /\ cl.pc = "build" /\ cl.want = call[c].want /\ cl.cached = call[c].cached
        /\ cl.fd = call[c].fd
    BY <1>0 DEF CallType, Steps
  <2> HIDE DEF cl
  <2>3. CallOK(cl)
    BY <1>1, <2>2 DEF CallOK, Building
  <2>4. DiagnosticsOK(im, cl) /\ ResultOK(im, cl)
    BY <1>1, <2>2, Acting DEF DiagnosticsOK, ResultOK, Building
  <2>5. OrcOK(im) /\ LinkOK(im, cl)
    BY <1>1, <2>2, Acting DEF LinkOK
  <2> QED BY <1>0, <2>1, <2>2, <2>3, <2>4, <2>5, ProcessStep DEF ProcessOK
<1> QED BY <1>2, <1>3

\* The build, accepted or rejected.
LEMMA BuildOK ==
  ASSUME TypeOK, ProcessesOK, NEW c \in Compilers, Build(c) \/ BuildFails(c)
  PROVE  /\ impl' \in [Compilers -> ImplType] /\ call' \in [Compilers -> CallType]
         /\ ProcessesOK'
<1>0. impl[c] \in ImplType /\ call[c] \in CallType
  BY Acting
<1>1. /\ call[c].pc = "build" /\ call[c].want \in IR /\ call[c].fd = None
      /\ call[c].cached => call[c].want.kind \in CachedKinds
      /\ call[c].cached \in BOOLEAN
      /\ SlotOf(call[c].want.kind) \in Slots
  BY Acting, IRFields, CallFields DEF Build, BuildFails, At, CallOK
<1>2. CASE Build(c)
  <2> DEFINE cl == [call[c] EXCEPT !.module = call[c].want,
                                   !.pc = IF call[c].cached THEN "open" ELSE "add"]
             im == [impl[c] EXCEPT !.last_ir = call[c].want]
  <2>1. Becomes(c, im, cl)
    BY <1>0, <1>2 DEF Build, Becomes, TypeOK, ImplType, CallType
  <2>2. /\ im \in ImplType /\ im.last_ir = call[c].want /\ im.slots = impl[c].slots
        /\ im.registered = impl[c].registered /\ im.first = impl[c].first
        /\ im.dylib = impl[c].dylib
    BY <1>0, <1>1 DEF ImplType
  <2>3. /\ cl \in CallType /\ cl.pc = (IF call[c].cached THEN "open" ELSE "add")
        /\ cl.want = call[c].want /\ cl.cached = call[c].cached /\ cl.module = call[c].want
        /\ cl.fd = call[c].fd
    BY <1>0, <1>1 DEF CallType, Steps
  <2> HIDE DEF im, cl
  <2>4. CallOK(cl)
    BY <1>1, <2>3 DEF CallOK, Building
  <2>5. DiagnosticsOK(im, cl) /\ ResultOK(im, cl)
    BY <1>1, <2>2, <2>3, Acting DEF DiagnosticsOK, ResultOK, Building
  <2>6. OrcOK(im) /\ LinkOK(im, cl)
    BY <1>1, <2>2, <2>3, Acting DEF OrcOK, LinkOK
  <2> QED BY <2>1, <2>2, <2>3, <2>4, <2>5, <2>6, ProcessStep DEF ProcessOK
<1>3. CASE BuildFails(c)
  <2> DEFINE cl == [NoCall EXCEPT !.want = call[c].want]  im == impl[c]
  <2>1. Becomes(c, im, cl)
    BY <1>0, <1>3 DEF BuildFails, Return, Becomes, TypeOK
  <2>2. cl \in CallType /\ cl.pc = "idle" /\ cl.want = call[c].want /\ cl.cached = FALSE
        /\ cl.fd = None
    BY <1>1, EndedType DEF NoCall
  <2> HIDE DEF cl
  <2>3. CallOK(cl)
    BY <1>1, <2>2 DEF CallOK, Building
  <2>4. \A s \in Slots : im.slots[s] # None => s = "vec" /\ call[c].want.kind = "signal"
    BY <1>1, Acting DEF ResultOK
  <2>5. im.slots[SlotOf(call[c].want.kind)] = None
    BY <1>1, <2>4 DEF SlotOf
  <2>6. DiagnosticsOK(im, cl) /\ ResultOK(im, cl)
    BY <1>1, <2>2, <2>4, <2>5 DEF DiagnosticsOK, ResultOK, Building
  <2>7. OrcOK(im) /\ LinkOK(im, cl)
    BY <1>3, <2>2, Acting DEF OrcOK, LinkOK, BuildFails
  <2> QED BY <1>0, <2>1, <2>2, <2>3, <2>6, <2>7, ProcessStep DEF ProcessOK
<1> QED BY <1>2, <1>3

\* A step of WriteModuleToCache that moves from one stage of it to another.
LEMMA StageOK ==
  ASSUME TypeOK, ProcessesOK, NEW c \in Compilers, NEW cl \in CallType, Becomes(c, impl[c], cl),
         call[c].pc \in {"open", "write", "rename", "remove"}, cl.pc \in Building,
         cl.want = call[c].want, cl.cached = call[c].cached, cl.module = call[c].module,
         cl.loaded = call[c].loaded,
         cl.fd # None <=> cl.pc \in {"write", "rename"},
         cl.pc = "write" => cl.off < Chunks
  PROVE  /\ impl' \in [Compilers -> ImplType] /\ call' \in [Compilers -> CallType]
         /\ ProcessesOK'
<1>0. impl[c] \in ImplType /\ call[c] \in CallType
  BY Acting
<1>1. /\ call[c].want \in IR /\ call[c].cached /\ call[c].want.kind \in CachedKinds
      /\ call[c].module = call[c].want
  BY Acting DEF CallOK, Building
<1>2. CallOK(cl)
  BY <1>1 DEF CallOK, Building
<1>3. DiagnosticsOK(impl[c], cl) /\ ResultOK(impl[c], cl)
  BY <1>1, Acting DEF DiagnosticsOK, ResultOK, Building
<1>4. OrcOK(impl[c]) /\ LinkOK(impl[c], cl)
  BY <1>1, Acting DEF OrcOK, LinkOK, Building
<1> QED BY <1>0, <1>2, <1>3, <1>4, ProcessStep DEF ProcessOK

\* A process dies.
LEMMA DieOK ==
  ASSUME TypeOK, ProcessesOK, NEW c \in Compilers, Die(c)
  PROVE  /\ impl' \in [Compilers -> ImplType] /\ call' \in [Compilers -> CallType]
         /\ ProcessesOK'
BY FreshTypes, FreshOK, ProcessStep DEF Die, Becomes

\* addIRModule and lookup: linked, a duplicate, or unresolved.
LEMMA AddOK ==
  ASSUME TypeOK, ProcessesOK, NEW c \in Compilers, AddIRModule(c)
  PROVE  /\ impl' \in [Compilers -> ImplType] /\ call' \in [Compilers -> CallType]
         /\ ProcessesOK'
<1> DEFINE want == call[c].want
           kind == want.kind
           nm == NameOf(c)
           reg == Register(impl[c].registered, kind)
           duplicate == call[c].cached /\ impl[c].dylib[nm] # None
           ok == ~duplicate /\ Links(kind, want.prog, reg)
           lib == IF call[c].cached /\ ~duplicate
                    THEN [impl[c].dylib EXCEPT ![nm] = IF ok THEN call[c].module ELSE Broken]
                    ELSE impl[c].dylib
           first == IF impl[c].first = None THEN kind ELSE impl[c].first
           added == [impl[c] EXCEPT !.registered = reg, !.first = first, !.dylib = lib]
           source == IF call[c].loaded THEN "disk" ELSE "built"
           im == IF ok THEN Published(added, call[c].module, kind, source) ELSE added
           cl == [NoCall EXCEPT !.want = want]
<1>0. impl[c] \in ImplType /\ call[c] \in CallType
  BY Acting
<1>1. /\ call[c].pc = "add" /\ want \in IR /\ call[c].module = want /\ kind \in Kinds
      /\ SlotOf(kind) \in Slots /\ call[c].cached \in BOOLEAN
      /\ call[c].cached => kind \in CachedKinds /\ nm \in Names /\ impl[c].dylib[nm] \notin IR
  BY <1>0, Acting, IRFields, CallFields DEF AddIRModule, At, CallOK, Building, LinkOK, NameOf
<1>2. Becomes(c, im, cl)
  BY DEF AddIRModule, Return, Becomes
<1>3. /\ reg \in {"program", "gradient"} /\ first \in Kinds /\ lib \in [Names -> IR \cup {None, Broken}]
      /\ source \in {"built", "disk"}
  BY <1>0, <1>1, ImplFields DEF Register
<1>4. reg = "gradient" <=> first = "grad"
  BY <1>0, <1>1, Acting, CacheConstants DEF OrcOK, Register
<1>5. impl[c].registered # None => reg = impl[c].registered
  BY DEF Register
<1>6. /\ added \in ImplType /\ added.registered = reg /\ added.first = first /\ added.dylib = lib
      /\ added.slots = impl[c].slots /\ added.last_ir = impl[c].last_ir
  <2> HIDE DEF reg, first, lib
  <2> QED BY <1>0, <1>3 DEF ImplType
<1>7. \A s \in Slots : impl[c].slots[s] # None => s = "vec" /\ kind = "signal"
  BY <1>1, Acting DEF ResultOK
<1>8. impl[c].slots \in [Slots -> IR \cup {None}] /\ impl[c].slots[SlotOf(kind)] = None
  BY <1>0, <1>1, <1>7, ImplFields DEF SlotOf
<1>9. cl \in CallType /\ cl.pc = "idle" /\ cl.want = want /\ cl.cached = FALSE /\ cl.fd = None
  BY <1>1, EndedType DEF NoCall
<1>10. /\ impl[c].last_ir \in {None, want}
       /\ ~call[c].loaded \/ kind # "grad" => impl[c].last_ir = want
  BY <1>1, Acting DEF ResultOK, Building
<1>11. duplicate => NeedsGrad(kind, want.prog) /\ reg = "program"
  <2> SUFFICES ASSUME duplicate PROVE NeedsGrad(kind, want.prog) /\ reg = "program"
    OBVIOUS
  <2>1. impl[c].dylib[nm] = Broken
    BY <1>0, <1>1, ImplFields
  <2>2. NeedsGrad(nm[1], nm[2]) /\ impl[c].registered = "program"
    BY <1>1, <2>1, Acting DEF OrcOK
  <2> QED BY <1>5, <2>2, CacheConstants DEF NameOf, Name
<1>12. ok <=> ~(NeedsGrad(kind, want.prog) /\ reg # "gradient")
  BY <1>3, <1>11 DEF Links, NeedsGrad
<1>13. \A n \in Names :
         /\ lib[n] \in IR => /\ Name(lib[n].kind, lib[n].prog) = n
                             /\ NeedsGrad(n[1], n[2]) => reg = "gradient"
         /\ lib[n] = Broken => NeedsGrad(n[1], n[2]) /\ reg = "program"
  <2> SUFFICES ASSUME NEW n \in Names
               PROVE  /\ lib[n] \in IR => /\ Name(lib[n].kind, lib[n].prog) = n
                                          /\ NeedsGrad(n[1], n[2]) => reg = "gradient"
                      /\ lib[n] = Broken => NeedsGrad(n[1], n[2]) /\ reg = "program"
    OBVIOUS
  <2>1. CASE call[c].cached /\ ~duplicate /\ n = nm
    <3>1. lib[n] = IF ok THEN want ELSE Broken
      BY <1>0, <1>1, <2>1, ImplFields
    <3>2. n[1] = kind /\ n[2] = want.prog /\ n = Name(kind, want.prog)
      BY <2>1 DEF NameOf, Name
    <3> HIDE DEF lib, ok, reg
    <3>3. CASE ok
      BY <1>1, <1>12, <3>1, <3>2, <3>3, CacheConstants
    <3>4. CASE ~ok
      BY <1>1, <1>3, <1>12, <3>1, <3>2, <3>4, CacheConstants
    <3> QED BY <3>3, <3>4
  <2>2. CASE ~(call[c].cached /\ ~duplicate /\ n = nm)
    <3>1. lib[n] = impl[c].dylib[n]
      BY <1>0, <1>1, <2>2, ImplFields
    <3>2. /\ impl[c].dylib[n] \in IR =>
               /\ Name(impl[c].dylib[n].kind, impl[c].dylib[n].prog) = n
               /\ NeedsGrad(n[1], n[2]) => impl[c].registered = "gradient"
          /\ impl[c].dylib[n] = Broken =>
               NeedsGrad(n[1], n[2]) /\ impl[c].registered = "program"
      BY Acting DEF OrcOK
    <3> HIDE DEF lib, reg
    <3>3. None # "gradient" /\ None # "program"
      BY CacheConstants, Zenon
    <3> QED BY <1>5, <3>1, <3>2, <3>3, Zenon
  <2> QED BY <2>1, <2>2
<1>14. /\ im \in ImplType /\ im.registered = reg /\ im.first = first /\ im.dylib = lib
       /\ im.last_ir = impl[c].last_ir
       /\ im.slots = IF ok THEN [impl[c].slots EXCEPT ![SlotOf(kind)] = want] ELSE impl[c].slots
       /\ ok => /\ im.served = source
                /\ kind \in CachedKinds => im.last_cache_hit = (source # "built")
  <2>1. CASE ok
    <3> HIDE DEF added, ok
    <3> QED BY <1>1, <1>3, <1>6, <2>1, PublishedFacts
  <2>2. CASE ~ok
    <3> HIDE DEF added, ok
    <3> QED BY <1>6, <2>2
  <2> QED BY <2>1, <2>2
<1>15. source = "built" \/ kind # "grad" => impl[c].last_ir = want
  BY <1>10
<1> HIDE DEF im, cl, lib, ok, reg, first, source, added, duplicate
<1>16. /\ im.slots[SlotOf(kind)] = (IF ok THEN want ELSE None)
       /\ \A s \in Slots : im.slots[s] # None => im.slots[s] = want \/ (s = "vec" /\ kind = "signal")
  BY <1>7, <1>8, <1>14, <1>1
<1>17. CallOK(cl)
  BY <1>1, <1>9 DEF CallOK, Building
<1>18. DiagnosticsOK(im, cl)
  BY <1>1, <1>9, <1>10, <1>14, <1>15, <1>16, CacheConstants DEF DiagnosticsOK
<1>19. ResultOK(im, cl)
  BY <1>1, <1>9, <1>16 DEF ResultOK, Building
<1>20. OrcOK(im)
  BY <1>3, <1>4, <1>13, <1>14, CacheConstants DEF OrcOK
<1>21. LinkOK(im, cl)
  BY <1>1, <1>4, <1>9, <1>12, <1>14, <1>16, CacheConstants DEF LinkOK
<1> QED BY <1>2, <1>9, <1>14, <1>17, <1>18, <1>19, <1>20, <1>21, ProcessStep DEF ProcessOK

-----------------------------------------------------------------------------
(* The directory *)

\* Only process c moves.
OnlyMoves(c) == \A d \in Compilers : d # c => call'[d] = call[d]

\* A step that writes no file, opens none and links none anew keeps the files
\* to their names.
LEMMA NamesKept ==
  ASSUME TypeOK, FilesNamed, NEW c \in Compilers, OnlyMoves(c),
         call'[c].fd = None, data' = data, inodes' = inodes,
         \A n \in Names, i \in Inodes : (dst'[n] = i \/ tmp'[n] = i) => (dst[n] = i \/ tmp[n] = i),
         \A n \in Names : dst'[n] # None => dst'[n] # tmp'[n]
  PROVE  FilesNamed'
<1>1. ASSUME NEW n \in Names, NEW i \in Inodes, Refers(n, i)'
      PROVE  Refers(n, i)
  <2>1. CASE dst'[n] = i \/ tmp'[n] = i
    BY <2>1 DEF Refers
  <2>2. CASE \E d \in Compilers : call'[d].fd = i /\ NameOf(d)' = n
    <3>1. PICK d \in Compilers : call'[d].fd = i /\ NameOf(d)' = n
      BY <2>2
    <3>2. d # c
      BY <3>1, CacheConstants
    <3>3. call[d].fd = i /\ NameOf(d) = n
      BY <3>1, <3>2 DEF OnlyMoves, NameOf
    <3> QED BY <3>3 DEF Refers
  <2> QED BY <1>1, <2>1, <2>2 DEF Refers
<1>2. ASSUME NEW n \in Names, NEW i \in Inodes, Refers(n, i)'
      PROVE  /\ i <= inodes'
             /\ \A k \in 1..Chunks :
                  data'[i][k] \in IR => Name(data'[i][k].kind, data'[i][k].prog) = n
  BY <1>1, <1>2 DEF FilesNamed
<1>3. ASSUME NEW n \in Names, NEW m \in Names, NEW i \in Inodes, Refers(n, i)', Refers(m, i)'
      PROVE  n = m
  BY <1>1, <1>3 DEF FilesNamed
<1> QED BY <1>2, <1>3 DEF FilesNamed

\* A name whose file c neither writes nor renames keeps its one writer, if the
\* others keep what they have written.
LEMMA WriterKept ==
  ASSUME NEW c \in Compilers, OnlyMoves(c), NEW n \in Names, OneWriter(n),
         dst'[n] = dst[n], tmp'[n] = tmp[n],
         \A j \in Inodes, k \in 1..Chunks :
            Refers(n, j) /\ data[j][k] \in IR => data'[j][k] \in IR,
         dst[n] \in Inodes \cup {None},
         \A d \in Compilers : call[d].fd \in Inodes \cup {None} /\ call[d].off \in 0..Chunks,
         NameOf(c)' = n => call'[c].fd = None /\ call'[c].pc # "remove"
  PROVE  OneWriter(n)'
<1>1. ASSUME NEW j \in Inodes, NEW k \in 0..Chunks, Written(j, k), Refers(n, j)
      PROVE  \A l \in 1..k : data'[j][l] \in IR
  <2>1. Chunks \in Nat /\ 1..k \subseteq 1..Chunks
    BY CacheConstants
  <2> QED BY <1>1, <2>1 DEF Written
<1>2. dst'[n] # None => Written(dst[n], Chunks)'
  <2> SUFFICES ASSUME dst[n] # None PROVE \A l \in 1..Chunks : data'[dst[n]][l] \in IR
    BY DEF Written
  <2>1. Chunks \in 0..Chunks /\ dst[n] \in Inodes /\ Refers(n, dst[n])
    BY CacheConstants DEF Refers
  <2>2. Written(dst[n], Chunks)
    BY DEF OneWriter
  <2> QED BY <1>1, <2>1, <2>2
<1>3. ASSUME NEW d \in Compilers, NameOf(d)' = n, call'[d].fd # None \/ call'[d].pc = "remove"
      PROVE  d # c /\ call'[d] = call[d] /\ NameOf(d) = n
  BY <1>3 DEF OnlyMoves, NameOf
<1>4. ASSUME NEW d \in Compilers, NameOf(d)' = n, call'[d].fd # None
      PROVE  /\ call'[d].fd = tmp'[n]
             /\ Written(call[d].fd, call[d].off)'
             /\ At(d, "rename")' => Written(call[d].fd, Chunks)'
  <2>1. call'[d] = call[d] /\ NameOf(d) = n
    BY <1>3, <1>4
  <2>2. call[d].fd \in Inodes /\ Refers(n, call[d].fd) /\ call[d].off \in 0..Chunks
        /\ Chunks \in 0..Chunks
    BY <1>4, <2>1, CacheConstants DEF Refers
  <2>3. /\ call[d].fd = tmp[n] /\ Written(call[d].fd, call[d].off)
        /\ At(d, "rename") => Written(call[d].fd, Chunks)
    BY <1>4, <2>1 DEF OneWriter
  <2>4. Written(call[d].fd, call[d].off)'
    <3>1. \A j \in 1..call[d].off : data'[call[d].fd][j] \in IR
      BY <1>1, <2>2, <2>3
    <3> QED BY <2>1, <3>1 DEF Written
  <2>5. At(d, "rename")' => Written(call[d].fd, Chunks)'
    <3>1. At(d, "rename")' => \A j \in 1..Chunks : data'[call[d].fd][j] \in IR
      BY <1>1, <2>1, <2>2, <2>3 DEF At
    <3> QED BY <2>1, <3>1 DEF Written
  <2> QED BY <2>1, <2>3, <2>4, <2>5
<1>5. ASSUME NEW d \in Compilers, NameOf(d)' = n PROVE ~At(d, "remove")'
  BY <1>3, <1>5 DEF At, OneWriter
<1>6. ASSUME NEW d \in Compilers, NEW e \in Compilers, NameOf(d)' = n, NameOf(e)' = n,
             call'[d].fd # None, call'[e].fd # None
      PROVE  d = e
  <2>1. call'[d] = call[d] /\ NameOf(d) = n /\ call'[e] = call[e] /\ NameOf(e) = n
    BY <1>3, <1>6
  <2> QED BY <1>6, <2>1 DEF OneWriter
<1> QED BY <1>2, <1>4, <1>5, <1>6 DEF OneWriter

\* The processes yet to open their file are finitely many.
LEMMA PendingFinite ==
  ASSUME TypeOK
  PROVE  IsFiniteSet(Pending) /\ Cardinality(Pending) \in Nat
<1>1. Pending \subseteq Compilers
  BY DEF Pending
<1> QED BY <1>1, FS_Subset, FS_CardinalityType, SentinelAssumption

\* How their number changes when c moves.
LEMMA PendingStep ==
  ASSUME TypeOK, TypeOK', NEW c \in Compilers, OnlyMoves(c)
  PROVE  /\ Cardinality(Pending) \in Nat /\ Cardinality(Pending') \in Nat
         /\ Cardinality(Pending') <= Cardinality(Pending) + 1
         /\ ~PendingCall(call'[c]) \/ PendingCall(call[c]) =>
              Cardinality(Pending') <= Cardinality(Pending)
         /\ ~PendingCall(call'[c]) /\ PendingCall(call[c]) =>
              Cardinality(Pending') = Cardinality(Pending) - 1
<1>1. /\ IsFiniteSet(Pending) /\ Cardinality(Pending) \in Nat
      /\ IsFiniteSet(Pending') /\ Cardinality(Pending') \in Nat
  <2>1. Pending \subseteq Compilers /\ Pending' \subseteq Compilers
    BY DEF Pending
  <2> QED BY <2>1, FS_Subset, FS_CardinalityType, SentinelAssumption
<1>2. \A d \in Compilers : d # c => (d \in Pending' <=> d \in Pending)
  BY DEF Pending, OnlyMoves
<1>3. (c \in Pending <=> PendingCall(call[c])) /\ (c \in Pending' <=> PendingCall(call'[c]))
  BY DEF Pending
<1>4. Pending \subseteq Compilers /\ Pending' \subseteq Compilers
  BY DEF Pending
<1>5. CASE c \in Pending /\ c \notin Pending'
  <2>1. Pending' = Pending \ {c}
    BY <1>2, <1>4, <1>5
  <2>2. Cardinality(Pending') = Cardinality(Pending) - 1
    BY <1>1, <1>5, <2>1, FS_RemoveElement
  <2> QED BY <1>1, <1>3, <1>5, <2>2
<1>6. CASE c \notin Pending /\ c \in Pending'
  <2>1. Pending' = Pending \cup {c}
    BY <1>2, <1>4, <1>6
  <2>2. Cardinality(Pending') = Cardinality(Pending) + 1
    BY <1>1, <1>6, <2>1, FS_AddElement
  <2> QED BY <1>1, <1>3, <1>6, <2>2
<1>7. CASE (c \in Pending) <=> (c \in Pending')
  <2>1. Pending' = Pending
    BY <1>2, <1>4, <1>7
  <2> QED BY <1>1, <1>3, <1>7, <2>1
<1> QED BY <1>5, <1>6, <1>7

\* There is an inode left for a process that is about to open its file.
LEMMA InodeLeft ==
  ASSUME TypeOK, ProcessesOK, InodesBounded, NEW c \in Compilers, call[c].pc = "open"
  PROVE  inodes + 1 \in Inodes /\ inodes + 1 <= compiles
<1>1. c \in Pending
  BY Acting DEF Pending, PendingCall, CallOK
<1>2. Cardinality(Pending) # 0
  BY <1>1, PendingFinite, FS_EmptySet
<1>3. inodes \in Nat /\ compiles \in Nat /\ compiles <= MaxCompiles
  BY CacheConstants DEF TypeOK
<1> QED BY <1>2, <1>3, PendingFinite, CacheConstants DEF InodesBounded, Inodes

-----------------------------------------------------------------------------
(* The invariant is preserved *)

\* The steps that leave the directory alone.
LEMMA QuietInv ==
  ASSUME CacheIndInv, NEW c \in Compilers, UNCHANGED disk, OnlyMoves(c),
         impl' \in [Compilers -> ImplType], call' \in [Compilers -> CallType], ProcessesOK',
         call'[c].fd = None, call'[c].pc # "remove",
         compiles' \in 0..MaxCompiles, crashes' \in 0..MaxCrashes,
         \/ compiles' = compiles /\ (PendingCall(call'[c]) => PendingCall(call[c]))
         \/ compiles' = compiles + 1
  PROVE  CacheIndInv'
<1>1. TypeOK'
  BY DEF CacheIndInv, TypeOK, disk
<1>2. FilesNamed'
  <2>1. \A n \in Names : dst'[n] # None => dst'[n] # tmp'[n]
    BY DEF CacheIndInv, FilesNamed, disk
  <2>2. data' = data /\ inodes' = inodes
        /\ \A n \in Names, i \in Inodes : (dst'[n] = i \/ tmp'[n] = i) => (dst[n] = i \/ tmp[n] = i)
    BY DEF disk
  <2> QED BY <2>1, <2>2, NamesKept DEF CacheIndInv
<1>4. OneWriterEach'
  <2>1. /\ dst' = dst /\ tmp' = tmp /\ data' = data /\ shared' = shared
        /\ dst \in [Names -> Inodes \cup {None}]
    BY DEF disk, CacheIndInv, TypeOK
  <2>2. \A d \in Compilers : call[d].fd \in Inodes \cup {None} /\ call[d].off \in 0..Chunks
    BY CallFields DEF CacheIndInv, TypeOK
  <2> SUFFICES ASSUME NEW n \in Names, n \notin shared PROVE OneWriter(n)'
    BY <2>1 DEF OneWriterEach
  <2>3. OneWriter(n)
    BY DEF CacheIndInv, OneWriterEach
  <2> QED BY <2>1, <2>2, <2>3, WriterKept
<1>3. InodesBounded'
  <2>1. /\ inodes \in Nat /\ compiles \in Nat /\ inodes' = inodes
        /\ Cardinality(Pending) \in Nat /\ Cardinality(Pending') \in Nat
    BY <1>1, PendingStep DEF CacheIndInv, TypeOK, disk
  <2> QED BY <1>1, <2>1, PendingStep DEF CacheIndInv, InodesBounded
<1> QED BY <1>1, <1>2, <1>3, <1>4 DEF CacheIndInv

\* WriteModuleToCache opens its temporary file.
LEMMA OpenInv ==
  ASSUME CacheIndInv, NEW c \in Compilers, OpenTmp(c)
  PROVE  /\ CacheIndInv'
         /\ \A m \in Names : dst[m] # None => data'[dst[m]] = data[dst[m]]
<1> USE DEF CacheIndInv
<1> DEFINE n == NameOf(c)
           fresh == tmp[n] = None
           i == IF fresh THEN inodes + 1 ELSE tmp[n]
           cl == [call[c] EXCEPT !.pc = "write", !.fd = i, !.off = 0]
<1>0. impl[c] \in ImplType /\ call[c] \in CallType
  BY Acting
<1>1. /\ call[c].pc = "open" /\ call[c].want \in IR /\ call[c].cached /\ n \in Names
      /\ call[c].fd = None
  BY Acting, IRFields DEF OpenTmp, At, CallOK, NameOf
<1>2. inodes + 1 \in Inodes /\ inodes + 1 <= compiles /\ inodes \in Nat
  BY <1>1, InodeLeft DEF TypeOK
<1>3. i \in Inodes /\ (~fresh => Refers(n, i))
  BY <1>1, <1>2 DEF TypeOK, Refers
<1>4. /\ data' = [data EXCEPT ![i] = EmptyFile] /\ tmp' = [tmp EXCEPT ![n] = i]
      /\ inodes' = (IF fresh THEN inodes + 1 ELSE inodes)
      /\ impl' = impl /\ dst' = dst /\ compiles' = compiles /\ crashes' = crashes
  BY DEF OpenTmp, OpenPath
<1>5. Becomes(c, impl[c], cl)
  BY <1>0, <1>3 DEF OpenTmp, OpenPath, Becomes, TypeOK, CallType
<1>6. /\ cl \in CallType /\ cl.pc = "write" /\ cl.fd = i /\ cl.off = 0
      /\ cl.want = call[c].want /\ cl.cached = call[c].cached
      /\ cl.module = call[c].module /\ cl.loaded = call[c].loaded
  <2>1. 0 \in 0..Chunks
    BY CacheConstants
  <2> HIDE DEF i
  <2> QED BY <1>0, <1>3, <2>1 DEF CallType, Steps
<1> HIDE DEF i, cl
<1>7. call'[c] = cl /\ OnlyMoves(c)
  BY <1>5, OthersKept DEF OnlyMoves
<1>8. /\ impl' \in [Compilers -> ImplType] /\ call' \in [Compilers -> CallType]
      /\ ProcessesOK'
  <2>1. cl.fd # None /\ cl.off < Chunks /\ cl.pc \in Building
    BY <1>3, <1>6, CacheConstants DEF Building
  <2>2. cl.fd # None <=> cl.pc \in {"write", "rename"}
    BY <1>6, <2>1
  <2>3. call[c].pc \in {"open", "write", "rename", "remove"}
    BY <1>1
  <2> QED BY <1>5, <1>6, <2>1, <2>2, <2>3, StageOK
<1>9. TypeOK'
  <2>1. EmptyFile \in FileData
    BY DEF EmptyFile, FileData
  <2>2. inodes' \in 0..MaxCompiles
    BY <1>2, <1>4 DEF Inodes, TypeOK
  <2>3. shared' \subseteq Names
    BY <1>1 DEF OpenTmp, TypeOK
  <2> QED BY <1>1, <1>3, <1>4, <1>8, <2>1, <2>2, <2>3 DEF TypeOK
<1>10. \A m \in Names : Refers(m, i) => m = n /\ ~fresh
  <2> SUFFICES ASSUME NEW m \in Names, Refers(m, i) PROVE m = n /\ ~fresh
    OBVIOUS
  <2>1. ~fresh
    BY <1>2, <1>3 DEF i, FilesNamed
  <2> QED BY <1>1, <1>3, <2>1 DEF FilesNamed
<1>11. \A m \in Names : dst[m] # i
  <2> SUFFICES ASSUME NEW m \in Names, dst[m] = i PROVE FALSE
    OBVIOUS
  <2>1. Refers(m, i)
    BY DEF Refers
  <2>2. m = n /\ ~fresh
    BY <1>10, <2>1
  <2>3. dst[n] = tmp[n] /\ dst[n] # None
    BY <2>2 DEF i
  <2> QED BY <1>1, <2>3 DEF FilesNamed
<1>12. ASSUME NEW m \in Names, NEW j \in Inodes, Refers(m, j)'
       PROVE  Refers(m, j) \/ (m = n /\ j = i)
  <2>1. CASE dst'[m] = j
    BY <1>4, <2>1 DEF Refers
  <2>2. CASE tmp'[m] = j
    BY <1>1, <1>4, <2>2 DEF Refers, TypeOK
  <2>3. CASE \E d \in Compilers : call'[d].fd = j /\ NameOf(d)' = m
    <3>1. PICK d \in Compilers : call'[d].fd = j /\ NameOf(d)' = m
      BY <2>3
    <3>2. CASE d = c
      BY <1>6, <1>7, <3>1, <3>2 DEF NameOf
    <3>3. CASE d # c
      BY <1>7, <3>1, <3>3 DEF OnlyMoves, NameOf, Refers
    <3> QED BY <3>2, <3>3
  <2> QED BY <1>12, <2>1, <2>2, <2>3 DEF Refers
<1>13. \A j \in Inodes : j # i => data'[j] = data[j]
  BY <1>4 DEF TypeOK
<1>14. \A k \in 1..Chunks : data'[i][k] = Eof
  BY <1>3, <1>4 DEF TypeOK, EmptyFile
<1>15. FilesNamed'
  <2>1. ASSUME NEW m \in Names, NEW j \in Inodes, Refers(m, j)'
        PROVE  /\ j <= inodes'
               /\ \A k \in 1..Chunks :
                    data'[j][k] \in IR => Name(data'[j][k].kind, data'[j][k].prog) = m
    <3>1. CASE j = i
      <4>1. i <= inodes'
        BY <1>1, <1>2, <1>3, <1>4 DEF i, FilesNamed
      <4> QED BY <1>14, <3>1, <4>1, CacheConstants
    <3>2. CASE j # i
      <4>1. Refers(m, j)
        BY <1>12, <2>1, <3>2
      <4>2. j <= inodes /\ inodes <= inodes' /\ j \in Nat /\ inodes' \in Nat
        BY <1>2, <1>4, <4>1 DEF FilesNamed, Inodes
      <4> QED BY <1>2, <1>13, <3>2, <4>1, <4>2 DEF FilesNamed
    <3> QED BY <3>1, <3>2
  <2>2. ASSUME NEW m \in Names, NEW l \in Names, NEW j \in Inodes, Refers(m, j)', Refers(l, j)'
        PROVE  m = l
    <3>1. CASE j = i
      <4>1. m = n /\ l = n
        BY <1>10, <1>12, <2>2, <3>1
      <4> QED BY <4>1
    <3>2. CASE j # i
      BY <1>12, <2>2, <3>2 DEF FilesNamed
    <3> QED BY <3>1, <3>2
  <2>3. ASSUME NEW m \in Names, dst'[m] # None PROVE dst'[m] # tmp'[m]
    <3>1. CASE m = n
      BY <1>1, <1>4, <1>11, <3>1 DEF TypeOK
    <3>2. CASE m # n
      BY <1>4, <2>3, <3>2 DEF TypeOK, FilesNamed
    <3> QED BY <3>1, <3>2
  <2> QED BY <2>1, <2>2, <2>3 DEF FilesNamed
<1>16. OneWriterEach'
  <2> SUFFICES ASSUME NEW m \in Names, m \notin shared' PROVE OneWriter(m)'
    BY DEF OneWriterEach
  <2>1. m \notin shared /\ (m = n => ~OpenElsewhere(c))
    BY <1>1 DEF OpenTmp
  <2>2. OneWriter(m)
    BY <2>1 DEF OneWriterEach
  <2>3. NameOf(c)' = n /\ n = NameOf(c)
    BY <1>6, <1>7 DEF NameOf
  <2>4. CASE m # n
    <3>1. dst'[m] = dst[m] /\ tmp'[m] = tmp[m] /\ dst[m] \in Inodes \cup {None}
      BY <1>4, <2>4 DEF TypeOK
    <3>2. \A d \in Compilers : call[d].fd \in Inodes \cup {None} /\ call[d].off \in 0..Chunks
      BY CallFields DEF TypeOK
    <3>3. \A l \in Inodes, k \in 1..Chunks :
             Refers(m, l) /\ data[l][k] \in IR => data'[l][k] \in IR
      BY <1>10, <1>13, <2>4
    <3> HIDE DEF n
    <3> QED BY <1>7, <2>2, <2>3, <2>4, <3>1, <3>2, <3>3, WriterKept
  <2>5. CASE m = n
    <3>1. ASSUME NEW d \in Compilers, d # c, NameOf(d)' = m
          PROVE  call'[d].fd = None /\ call'[d] = call[d] /\ NameOf(d) = m
      <4>1. call'[d] = call[d] /\ NameOf(d) = m
        BY <1>7, <3>1 DEF OnlyMoves, NameOf
      <4>2. ~(call[d].pc \in {"write", "rename"})
        BY <2>1, <2>5, <3>1, <4>1 DEF OpenElsewhere
      <4> QED BY <4>1, <4>2, Acting DEF CallOK
    <3>2. call'[c].fd = i /\ call'[c].off = 0 /\ call'[c].pc = "write" /\ tmp'[m] = i
      BY <1>1, <1>4, <1>6, <1>7, <2>5 DEF TypeOK
    <3>3. dst'[m] # None => Written(dst[m], Chunks)'
      <4>1. dst' = dst /\ (dst[m] # None => dst[m] \in Inodes /\ dst[m] # i)
        BY <1>1, <1>4, <1>11 DEF TypeOK
      <4> QED BY <1>13, <2>2, <2>5, <4>1 DEF OneWriter, Written
    <3>4. ASSUME NEW d \in Compilers, NameOf(d)' = m, call'[d].fd # None
          PROVE  /\ d = c /\ call'[d].fd = tmp'[m]
                 /\ Written(call[d].fd, call[d].off)'
                 /\ ~At(d, "rename")'
      <4>1. d = c
        BY <3>1, <3>4
      <4>2. Written(call[c].fd, call[c].off)'
        BY <3>2 DEF Written
      <4> QED BY <3>2, <4>1, <4>2 DEF At
    <3>5. ASSUME NEW d \in Compilers, NameOf(d)' = m PROVE ~At(d, "remove")'
      <4>1. CASE d = c
        BY <3>2, <4>1 DEF At
      <4>2. CASE d # c
        BY <2>2, <2>5, <3>1, <3>5, <4>2 DEF At, OneWriter
      <4> QED BY <4>1, <4>2
    <3> HIDE DEF n
    <3> QED BY <2>5, <3>3, <3>4, <3>5 DEF OneWriter
  <2> QED BY <2>4, <2>5
<1>17. InodesBounded'
  <2>1. PendingCall(call[c]) /\ ~PendingCall(call'[c])
    BY <1>1, <1>6, <1>7 DEF PendingCall
  <2>2. Cardinality(Pending') = Cardinality(Pending) - 1
    BY <1>7, <1>9, <2>1, PendingStep
  <2>3. Cardinality(Pending) \in Nat /\ compiles \in Nat
    BY PendingFinite DEF TypeOK
  <2> QED BY <1>2, <1>4, <2>2, <2>3 DEF InodesBounded
<1>18. \A m \in Names : dst[m] # None => data'[dst[m]] = data[dst[m]]
  BY <1>11, <1>13 DEF TypeOK
<1> QED BY <1>8, <1>9, <1>15, <1>16, <1>17, <1>18

\* One piece is written, at the descriptor's own offset: what another process
\* has put there is the same module.
LEMMA WriteInv ==
  ASSUME CacheIndInv, AllBindAlike, NEW c \in Compilers, WriteChunk(c)
  PROVE  /\ CacheIndInv'
         /\ \A m \in Names : dst[m] # None =>
              \A k \in 1..Chunks : data[dst[m]][k] \in IR => data'[dst[m]][k] = data[dst[m]][k]
<1> USE DEF CacheIndInv
<1> DEFINE n == NameOf(c)
           f == call[c].fd
           o == call[c].off + 1
           next == IF o >= Chunks THEN "rename" ELSE "write"
           cl == [call[c] EXCEPT !.off = o, !.pc = next]
<1>0. impl[c] \in ImplType /\ call[c] \in CallType
  BY Acting
<1>1. /\ call[c].pc = "write" /\ call[c].want \in IR /\ call[c].cached /\ n \in Names
      /\ call[c].module = call[c].want /\ f \in Inodes /\ f # None
      /\ call[c].off \in Nat /\ call[c].off < Chunks
  BY <1>0, Acting, IRFields, CallFields DEF WriteChunk, At, CallOK, NameOf, Building
<1>2. o \in 1..Chunks /\ Chunks \in Nat
  BY <1>1, CacheConstants
<1>3. /\ data' = [data EXCEPT ![f] = Write(data[f], o, call[c].want)]
      /\ impl' = impl /\ dst' = dst /\ tmp' = tmp /\ inodes' = inodes
      /\ shared' = shared /\ compiles' = compiles /\ crashes' = crashes
  BY <1>1 DEF WriteChunk
<1>4. Becomes(c, impl[c], cl)
  BY <1>0, <1>3 DEF WriteChunk, LastChunk, Becomes, TypeOK, CallType
<1>5. /\ cl \in CallType /\ cl.pc = next /\ cl.off = o /\ cl.fd = f
      /\ cl.want = call[c].want /\ cl.cached = call[c].cached
      /\ cl.module = call[c].module /\ cl.loaded = call[c].loaded
  <2>1. o \in 0..Chunks
    BY <1>2
  <2>2. next \in Steps
    BY DEF Steps
  <2> HIDE DEF o, next
  <2> QED BY <1>0, <2>1, <2>2 DEF CallType
<1>6. next \in {"rename", "write"} /\ (next = "write" <=> o < Chunks)
  BY <1>2
<1> HIDE DEF cl, o, next
<1>7. call'[c] = cl /\ OnlyMoves(c)
  BY <1>4, OthersKept DEF OnlyMoves
<1>8. /\ impl' \in [Compilers -> ImplType] /\ call' \in [Compilers -> CallType]
      /\ ProcessesOK'
  <2>1. cl.pc \in Building /\ (cl.pc = "write" => cl.off < Chunks)
    BY <1>5, <1>6 DEF Building
  <2>2. cl.fd # None <=> cl.pc \in {"write", "rename"}
    BY <1>1, <1>5, <1>6
  <2>3. call[c].pc \in {"open", "write", "rename", "remove"}
    BY <1>1
  <2> QED BY <1>4, <1>5, <2>1, <2>2, <2>3, StageOK
<1>9. /\ data[f] \in FileData
      /\ Write(data[f], o, call[c].want) \in FileData
      /\ data'[f] = Write(data[f], o, call[c].want)
      /\ \A i \in Inodes : i # f => data'[i] = data[i]
  <2>1. data[f] \in FileData
    BY <1>1 DEF TypeOK
  <2>2. Write(data[f], o, call[c].want) \in FileData
    BY <1>1, <2>1 DEF Write, FileData
  <2> QED BY <1>1, <1>3, <2>1, <2>2 DEF TypeOK
<1>10. \A k \in 1..Chunks :
         /\ k = o => data'[f][k] = call[c].want
         /\ k # o => \/ data'[f][k] = data[f][k]
                     \/ data[f][k] = Eof /\ data'[f][k] = Hole
  BY <1>9 DEF Write
<1>11. TypeOK'
  <2>1. data' \in [Inodes -> FileData]
    BY <1>1, <1>3, <1>9 DEF TypeOK
  <2> QED BY <1>3, <1>8, <2>1 DEF TypeOK
<1>12. Refers(n, f)
  BY DEF Refers
<1>13. \A m \in Names : Refers(m, f) => m = n
  BY <1>1, <1>12 DEF FilesNamed
<1>14. ASSUME NEW m \in Names, NEW j \in Inodes, Refers(m, j)' PROVE Refers(m, j)
  <2>1. CASE dst'[m] = j \/ tmp'[m] = j
    BY <1>3, <2>1 DEF Refers
  <2>2. CASE \E d \in Compilers : call'[d].fd = j /\ NameOf(d)' = m
    <3>1. PICK d \in Compilers : call'[d].fd = j /\ NameOf(d)' = m
      BY <2>2
    <3>2. call[d].fd = j /\ NameOf(d) = m
      <4>1. CASE d = c
        BY <1>5, <1>7, <3>1, <4>1 DEF NameOf
      <4>2. CASE d # c
        BY <1>7, <3>1, <4>2 DEF OnlyMoves, NameOf
      <4> QED BY <4>1, <4>2
    <3> QED BY <3>2 DEF Refers
  <2> QED BY <1>14, <2>1, <2>2 DEF Refers
<1>15. FilesNamed'
  <2>1. ASSUME NEW m \in Names, NEW j \in Inodes, Refers(m, j)'
        PROVE  /\ j <= inodes'
               /\ \A k \in 1..Chunks :
                    data'[j][k] \in IR => Name(data'[j][k].kind, data'[j][k].prog) = m
    <3>1. Refers(m, j)
      BY <1>14, <2>1
    <3>2. j <= inodes'
      BY <1>3, <3>1 DEF FilesNamed
    <3>3. ASSUME NEW k \in 1..Chunks, data'[j][k] \in IR
          PROVE  Name(data'[j][k].kind, data'[j][k].prog) = m
      <4>1. CASE j = f /\ k = o
        BY <1>10, <1>13, <3>1, <4>1 DEF NameOf
      <4>2. CASE j = f /\ k # o
        <5>1. data'[j][k] = data[j][k]
          BY <1>10, <3>3, <4>2, CacheConstants
        <5> QED BY <3>1, <3>3, <5>1 DEF FilesNamed
      <4>3. CASE j # f
        BY <1>9, <3>1, <3>3, <4>3 DEF FilesNamed
      <4> QED BY <4>1, <4>2, <4>3
    <3> QED BY <3>2, <3>3
  <2>2. ASSUME NEW m \in Names, NEW l \in Names, NEW j \in Inodes, Refers(m, j)', Refers(l, j)'
        PROVE  m = l
    BY <1>14, <2>2 DEF FilesNamed
  <2>3. \A m \in Names : dst'[m] # None => dst'[m] # tmp'[m]
    BY <1>3 DEF FilesNamed
  <2> QED BY <2>1, <2>2, <2>3 DEF FilesNamed
<1>16. OneWriterEach'
  <2> SUFFICES ASSUME NEW m \in Names, m \notin shared PROVE OneWriter(m)'
    BY <1>3 DEF OneWriterEach
  <2>1. OneWriter(m)
    BY DEF OneWriterEach
  <2>2. \A j \in Inodes, k \in 1..Chunks : data[j][k] \in IR => data'[j][k] \in IR
    BY <1>1, <1>9, <1>10, CacheConstants
  <2>3. NameOf(c)' = n /\ n = NameOf(c)
    BY <1>5, <1>7 DEF NameOf
  <2>4. dst' = dst /\ tmp' = tmp /\ dst[m] \in Inodes \cup {None}
    BY <1>3 DEF TypeOK
  <2>5. \A d \in Compilers : call[d].fd \in Inodes \cup {None} /\ call[d].off \in 0..Chunks
    BY CallFields DEF TypeOK
  <2>6. CASE m # n
    <3> HIDE DEF n
    <3> QED BY <1>7, <2>1, <2>2, <2>3, <2>4, <2>5, <2>6, WriterKept
  <2>7. CASE m = n
    <3>1. f = tmp[m] /\ Written(f, call[c].off)
      BY <1>1, <2>1, <2>3, <2>7 DEF OneWriter
    <3>2. ASSUME NEW d \in Compilers, NameOf(d)' = m, call'[d].fd # None PROVE d = c
      <4> SUFFICES ASSUME d # c PROVE FALSE
        OBVIOUS
      <4>1. NameOf(d) = m /\ call[d].fd # None
        BY <1>7, <3>2 DEF OnlyMoves, NameOf
      <4> QED BY <1>1, <2>1, <2>3, <2>7, <4>1 DEF OneWriter
    <3>3. \A k \in 1..o : data'[f][k] \in IR
      <4> SUFFICES ASSUME NEW k \in 1..o PROVE data'[f][k] \in IR
        OBVIOUS
      <4>1. k \in 1..Chunks /\ (k # o => k \in 1..call[c].off)
        BY <1>1, <1>2 DEF o
      <4> QED BY <1>1, <1>10, <2>2, <3>1, <4>1 DEF Written
    <3>4. call'[c].fd = f /\ call'[c].off = o /\ (call'[c].pc = "rename" => o = Chunks)
          /\ call'[c].pc # "remove"
      BY <1>2, <1>5, <1>6, <1>7
    <3>5. Written(call[c].fd, call[c].off)' /\ (At(c, "rename")' => Written(call[c].fd, Chunks)')
      BY <3>3, <3>4 DEF Written, At
    <3>6. dst'[m] # None => Written(dst[m], Chunks)'
      BY <2>1, <2>2, <2>4, <2>7 DEF OneWriter, Written
    <3>7. ASSUME NEW d \in Compilers, NameOf(d)' = m PROVE ~At(d, "remove")'
      <4>1. CASE d = c
        BY <3>4, <4>1 DEF At
      <4>2. CASE d # c
        <5>1. call'[d] = call[d] /\ NameOf(d) = m
          BY <1>7, <3>7, <4>2 DEF OnlyMoves, NameOf
        <5> QED BY <2>1, <2>7, <5>1 DEF OneWriter, At
      <4> QED BY <4>1, <4>2
    <3>8. ASSUME NEW d \in Compilers, NameOf(d)' = m, call'[d].fd # None
          PROVE  /\ d = c /\ call'[d].fd = tmp'[m]
                 /\ Written(call[d].fd, call[d].off)'
                 /\ At(d, "rename")' => Written(call[d].fd, Chunks)'
      BY <2>4, <3>1, <3>2, <3>4, <3>5, <3>8
    <3> HIDE DEF n
    <3> QED BY <2>7, <3>6, <3>7, <3>8 DEF OneWriter
  <2> QED BY <2>6, <2>7
<1>17. InodesBounded'
  <2>1. ~PendingCall(call'[c])
    BY <1>5, <1>6, <1>7 DEF PendingCall
  <2>2. inodes \in Nat /\ compiles \in Nat
    BY DEF TypeOK
  <2> QED BY <1>3, <1>7, <1>11, <2>1, <2>2, PendingStep DEF InodesBounded
<1>18. ASSUME NEW m \in Names, dst[m] # None, NEW k \in 1..Chunks, data[dst[m]][k] \in IR
       PROVE  data'[dst[m]][k] = data[dst[m]][k]
  <2>1. dst[m] \in Inodes /\ Refers(m, dst[m])
    BY <1>18 DEF TypeOK, Refers
  <2>2. CASE dst[m] # f
    BY <1>9, <2>1, <2>2
  <2>3. CASE dst[m] = f /\ k # o
    BY <1>10, <1>18, <2>3, CacheConstants
  <2>4. CASE dst[m] = f /\ k = o
    <3>1. m = n /\ Name(data[f][k].kind, data[f][k].prog) = n
      BY <1>13, <1>18, <2>1, <2>4 DEF FilesNamed
    <3>2. data[f][k] = call[c].want
      BY <1>1, <1>18, <2>4, <3>1, KeyDetermines DEF NameOf
    <3> QED BY <1>10, <2>4, <3>2
  <2> QED BY <2>2, <2>3, <2>4
<1> QED BY <1>8, <1>11, <1>15, <1>16, <1>17, <1>18

\* The rename, or the removal after a rename that failed.
LEMMA RenameInv ==
  ASSUME CacheIndInv, NEW c \in Compilers, Rename(c) \/ RemoveTmp(c)
  PROVE  CacheIndInv' /\ data' = data
<1> USE DEF CacheIndInv
<1> DEFINE n == NameOf(c)
<1>0. impl[c] \in ImplType /\ call[c] \in CallType
  BY Acting
<1>1. /\ call[c].pc \in {"rename", "remove"} /\ call[c].want \in IR /\ call[c].cached
      /\ n \in Names
  BY <1>0, Acting, IRFields DEF Rename, RemoveTmp, At, CallOK, NameOf
<1>2. /\ impl' = impl /\ data' = data /\ inodes' = inodes /\ shared' = shared
      /\ compiles' = compiles /\ crashes' = crashes
  BY DEF Rename, RemoveTmp
<1>3. /\ dst' \in [Names -> Inodes \cup {None}] /\ tmp' \in [Names -> Inodes \cup {None}]
      /\ \A m \in Names, i \in Inodes : (dst'[m] = i \/ tmp'[m] = i) => (dst[m] = i \/ tmp[m] = i)
      /\ \A m \in Names : dst'[m] # None => dst'[m] # tmp'[m]
  <2>1. CASE Rename(c) /\ tmp[n] # None
    <3>1. dst' = [dst EXCEPT ![n] = tmp[n]] /\ tmp' = [tmp EXCEPT ![n] = None]
      BY <2>1 DEF Rename
    <3>2. \A m \in Names : m # n => dst'[m] = dst[m] /\ tmp'[m] = tmp[m]
      BY <3>1 DEF TypeOK
    <3>3. dst'[n] = tmp[n] /\ tmp'[n] = None
      BY <1>1, <3>1 DEF TypeOK
    <3>4. dst' \in [Names -> Inodes \cup {None}] /\ tmp' \in [Names -> Inodes \cup {None}]
      BY <1>1, <3>1 DEF TypeOK
    <3> QED BY <2>1, <3>2, <3>3, <3>4, CacheConstants DEF FilesNamed
  <2>2. CASE Rename(c) /\ tmp[n] = None
    BY <2>2 DEF Rename, TypeOK, FilesNamed
  <2>3. CASE RemoveTmp(c)
    <3>1. dst' = dst /\ tmp' = [tmp EXCEPT ![n] = None]
      BY <2>3 DEF RemoveTmp
    <3>2. \A m \in Names : tmp'[m] = IF m = n THEN None ELSE tmp[m]
      BY <3>1 DEF TypeOK
    <3>3. tmp' \in [Names -> Inodes \cup {None}]
      BY <1>1, <3>1 DEF TypeOK
    <3> QED BY <3>1, <3>2, <3>3, CacheConstants DEF FilesNamed, TypeOK
  <2> QED BY <2>1, <2>2, <2>3
<1>4. PICK cl \in CallType :
        /\ Becomes(c, impl[c], cl) /\ cl.pc \in {"add", "remove"} /\ cl.fd = None
        /\ cl.want = call[c].want /\ cl.cached = call[c].cached
        /\ cl.module = call[c].module /\ cl.loaded = call[c].loaded
  <2>1. CASE Rename(c)
    <3> DEFINE next == IF tmp[n] # None THEN "add" ELSE "remove"
               cl == [call[c] EXCEPT !.pc = next, !.fd = None, !.off = 0]
    <3>1. call' = [call EXCEPT ![c] = cl]
      BY <1>0, <2>1 DEF Rename, TypeOK, CallType
    <3>2. next \in {"add", "remove"} /\ next \in Steps /\ 0 \in 0..Chunks
      BY CacheConstants DEF Steps
    <3>3. Becomes(c, impl[c], cl)
      BY <1>2, <3>1 DEF Becomes, TypeOK
    <3> HIDE DEF next
    <3>4. /\ cl \in CallType /\ cl.pc = next /\ cl.fd = None
          /\ cl.want = call[c].want /\ cl.cached = call[c].cached
          /\ cl.module = call[c].module /\ cl.loaded = call[c].loaded
      BY <1>0, <3>2 DEF CallType
    <3> HIDE DEF cl
    <3> QED BY <3>2, <3>3, <3>4
  <2>2. CASE RemoveTmp(c)
    <3> DEFINE cl == [call[c] EXCEPT !.pc = "add"]
    <3>1. call' = [call EXCEPT ![c] = cl]
      BY <1>0, <2>2 DEF RemoveTmp, Goto, TypeOK, CallType
    <3>2. Becomes(c, impl[c], cl)
      BY <1>2, <3>1 DEF Becomes, TypeOK
    <3>3. call[c].fd = None
      BY <2>2, Acting DEF RemoveTmp, At, CallOK
    <3>4. /\ cl \in CallType /\ cl.pc = "add" /\ cl.fd = call[c].fd
          /\ cl.want = call[c].want /\ cl.cached = call[c].cached
          /\ cl.module = call[c].module /\ cl.loaded = call[c].loaded
      BY <1>0 DEF CallType, Steps
    <3> HIDE DEF cl
    <3> QED BY <3>2, <3>3, <3>4
  <2> QED BY <2>1, <2>2
<1>5. call'[c] = cl /\ OnlyMoves(c)
  BY <1>4, OthersKept DEF OnlyMoves
<1>6. /\ impl' \in [Compilers -> ImplType] /\ call' \in [Compilers -> CallType]
      /\ ProcessesOK'
  <2>1. cl.pc \in Building /\ cl.pc # "write"
    BY <1>4 DEF Building
  <2>2. cl.fd # None <=> cl.pc \in {"write", "rename"}
    BY <1>4
  <2>3. call[c].pc \in {"open", "write", "rename", "remove"}
    BY <1>1
  <2> QED BY <1>4, <2>1, <2>2, <2>3, StageOK
<1>7. TypeOK'
  BY <1>2, <1>3, <1>6 DEF TypeOK
<1>8. FilesNamed'
  BY <1>1, <1>2, <1>3, <1>4, <1>5, NamesKept
<1>10. OneWriterEach'
  <2> SUFFICES ASSUME NEW m \in Names, m \notin shared PROVE OneWriter(m)'
    BY <1>2 DEF OneWriterEach
  <2>1. OneWriter(m)
    BY DEF OneWriterEach
  <2>2. NameOf(c)' = n /\ n = NameOf(c) /\ call'[c].fd = None
    BY <1>4, <1>5 DEF NameOf
  <2>3. \A d \in Compilers : call[d].fd \in Inodes \cup {None} /\ call[d].off \in 0..Chunks
    BY CallFields DEF TypeOK
  <2>4. CASE m # n
    <3>1. dst'[m] = dst[m] /\ tmp'[m] = tmp[m] /\ dst[m] \in Inodes \cup {None}
      BY <2>4 DEF Rename, RemoveTmp, TypeOK
    <3> HIDE DEF n
    <3> QED BY <1>2, <1>5, <2>1, <2>2, <2>3, <2>4, <3>1, WriterKept
  <2>5. CASE m = n
    <3>1. Rename(c) /\ call[c].pc = "rename" /\ call[c].fd # None
      BY <2>1, <2>2, <2>5, Acting DEF OneWriter, Rename, RemoveTmp, At, CallOK
    <3>2. call[c].fd = tmp[m] /\ Written(tmp[m], Chunks) /\ tmp[m] # None
      BY <2>1, <2>2, <2>5, <3>1 DEF OneWriter, At
    <3>3. dst'[m] = tmp[m] /\ call'[c].pc = "add"
      BY <1>0, <1>1, <3>1, <3>2 DEF Rename, TypeOK, CallType
    <3>4. Written(dst[m], Chunks)'
      BY <1>2, <3>2, <3>3 DEF Written
    <3>5. ASSUME NEW d \in Compilers, NameOf(d)' = m
          PROVE  call'[d].fd = None /\ ~At(d, "remove")'
      <4>1. CASE d = c
        BY <2>2, <3>3, <4>1 DEF At
      <4>2. CASE d # c
        <5>1. call'[d] = call[d] /\ NameOf(d) = m
          BY <1>5, <3>5, <4>2 DEF OnlyMoves, NameOf
        <5> QED BY <2>1, <2>2, <2>5, <3>1, <4>2, <5>1 DEF OneWriter, At
      <4> QED BY <4>1, <4>2
    <3> HIDE DEF n
    <3> QED BY <2>5, <3>4, <3>5 DEF OneWriter
  <2> QED BY <2>4, <2>5
<1>9. InodesBounded'
  <2>1. ~PendingCall(call'[c])
    BY <1>4, <1>5 DEF PendingCall
  <2>2. inodes \in Nat /\ compiles \in Nat
    BY DEF TypeOK
  <2> QED BY <1>2, <1>5, <1>7, <2>1, <2>2, PendingStep DEF InodesBounded
<1> QED BY <1>2, <1>6, <1>7, <1>8, <1>9, <1>10

\* Every step of every process preserves the invariant, and what a file under
\* a cached name holds stays.
LEMMA CacheStep ==
  ASSUME CacheIndInv, AllBindAlike, [Next]_vars
  PROVE  /\ CacheIndInv'
         /\ \A n \in Names : dst[n] # None =>
              \A k \in 1..Chunks : data[dst[n]][k] \in IR => data'[dst[n]][k] = data[dst[n]][k]
<1> USE DEF CacheIndInv
<1>t. /\ compiles \in Nat /\ compiles <= MaxCompiles /\ crashes \in Nat /\ crashes <= MaxCrashes
      /\ MaxCompiles \in Nat /\ MaxCrashes \in Nat
  BY CacheConstants DEF TypeOK
<1>1. CASE UNCHANGED vars
  <2>1. TypeOK' /\ ProcessesOK'
    BY <1>1 DEF vars, TypeOK, ProcessesOK
  <2>2. \A n, i : Refers(n, i)' <=> Refers(n, i)
    BY <1>1 DEF vars, Refers, NameOf
  <2>3. FilesNamed'
    BY <1>1, <2>2 DEF vars, FilesNamed
  <2>4. OneWriterEach'
    BY <1>1 DEF vars, OneWriterEach, OneWriter, Written, At, NameOf
  <2>5. InodesBounded'
    BY <1>1 DEF vars, InodesBounded, Pending
  <2> QED BY <1>1, <2>1, <2>3, <2>4, <2>5 DEF vars
<1>2. ASSUME NEW c \in Compilers, EnableModuleCache(c) \/ DisableModuleCache(c)
      PROVE  CacheIndInv' /\ data' = data
  <2>1. call' = call /\ UNCHANGED disk /\ compiles' = compiles /\ crashes' = crashes
        /\ call[c].pc = "idle"
    BY <1>2 DEF EnableModuleCache, DisableModuleCache, At
  <2>2. call'[c].fd = None /\ call'[c].pc # "remove" /\ OnlyMoves(c)
    BY <2>1, Acting DEF CallOK, OnlyMoves
  <2> QED BY <1>t, <1>2, <2>1, <2>2, SwitchOK, QuietInv DEF disk
<1>3. ASSUME NEW c \in Compilers, NEW ir \in Asked, CompileResident(c, ir)
      PROVE  CacheIndInv' /\ data' = data
  <2>1. /\ UNCHANGED disk /\ compiles' = compiles + 1 /\ compiles < MaxCompiles
        /\ crashes' = crashes /\ call[c].pc = "idle"
    BY <1>3 DEF CompileResident, At
  <2>2. call'[c].fd = None /\ call'[c].pc # "remove" /\ OnlyMoves(c)
    BY <1>3 DEF CompileResident, NoCall, OnlyMoves, TypeOK
  <2> QED BY <1>t, <1>3, <2>1, <2>2, ResidentOK, QuietInv DEF disk
<1>4. ASSUME NEW c \in Compilers, NEW ir \in Asked, CompileBegin(c, ir)
      PROVE  CacheIndInv' /\ data' = data
  <2>1. /\ UNCHANGED disk /\ compiles' = compiles + 1 /\ compiles < MaxCompiles
        /\ crashes' = crashes /\ call[c].pc = "idle"
    BY <1>4 DEF CompileBegin, At
  <2>2. call'[c].fd = None /\ call'[c].pc # "remove" /\ OnlyMoves(c)
    BY <1>4 DEF CompileBegin, NoCall, OnlyMoves, TypeOK
  <2> QED BY <1>t, <1>4, <2>1, <2>2, BeginOK, QuietInv DEF disk
<1>5. ASSUME NEW c \in Compilers, ReadModuleFromCache(c)
      PROVE  CacheIndInv' /\ data' = data
  <2>1. /\ UNCHANGED disk /\ compiles' = compiles /\ crashes' = crashes /\ call[c].pc = "read"
    BY <1>5 DEF ReadModuleFromCache, At
  <2>2. call[c].fd = None /\ call[c].cached
    BY <2>1, Acting DEF CallOK
  <2>3. /\ call'[c].fd = call[c].fd /\ call'[c].pc # "remove"
        /\ OnlyMoves(c)
    BY <1>5 DEF ReadModuleFromCache, Goto, OnlyMoves, TypeOK, CallType
  <2>4. PendingCall(call[c])
    BY <2>1, <2>2 DEF PendingCall
  <2>5. ProcessesOK' /\ impl' \in [Compilers -> ImplType] /\ call' \in [Compilers -> CallType]
    BY <1>5, ReadOK
  <2> QED BY <1>t, <2>1, <2>2, <2>3, <2>4, <2>5, QuietInv DEF disk
<1>6. ASSUME NEW c \in Compilers, Build(c) \/ BuildFails(c)
      PROVE  CacheIndInv' /\ data' = data
  <2>1. /\ UNCHANGED disk /\ compiles' = compiles /\ crashes' = crashes /\ call[c].pc = "build"
    BY <1>6 DEF Build, BuildFails, At
  <2>2. call[c].fd = None
    BY <2>1, Acting DEF CallOK
  <2>3. OnlyMoves(c) /\ call'[c].fd = None /\ call'[c].pc # "remove"
    BY <1>6, <2>2 DEF Build, BuildFails, Return, NoCall, OnlyMoves, TypeOK, CallType
  <2>4. call'[c].cached => call[c].cached
    BY <1>6 DEF Build, BuildFails, Return, NoCall, TypeOK, CallType
  <2>5. PendingCall(call'[c]) => PendingCall(call[c])
    BY <2>1, <2>4 DEF PendingCall
  <2> QED BY <1>t, <1>6, <2>1, <2>3, <2>5, BuildOK, QuietInv DEF disk
<1>7. ASSUME NEW c \in Compilers, OpenTmp(c)
      PROVE  CacheIndInv' /\ \A n \in Names : dst[n] # None => data'[dst[n]] = data[dst[n]]
  BY <1>7, OpenInv
<1>8. ASSUME NEW c \in Compilers, OpenFails(c)
      PROVE  CacheIndInv' /\ data' = data
  <2> DEFINE cl == [call[c] EXCEPT !.pc = "add"]
  <2>1. /\ UNCHANGED disk /\ compiles' = compiles /\ crashes' = crashes /\ call[c].pc = "open"
        /\ impl' = impl
    BY <1>8 DEF OpenFails, At
  <2>2. call[c].fd = None /\ call[c] \in CallType
    BY <2>1, Acting DEF CallOK
  <2>3. call' = [call EXCEPT ![c] = cl]
    BY <1>8, <2>2 DEF OpenFails, Goto, TypeOK, CallType
  <2>4. Becomes(c, impl[c], cl)
    BY <2>1, <2>3 DEF Becomes, TypeOK
  <2>5. /\ cl \in CallType /\ cl.pc = "add" /\ cl.fd = call[c].fd
        /\ cl.want = call[c].want /\ cl.cached = call[c].cached
        /\ cl.module = call[c].module /\ cl.loaded = call[c].loaded
    BY <2>2 DEF CallType, Steps
  <2> HIDE DEF cl
  <2>6. cl.pc \in Building /\ (cl.fd # None <=> cl.pc \in {"write", "rename"})
    BY <2>2, <2>5 DEF Building
  <2>7. call[c].pc \in {"open", "write", "rename", "remove"}
    BY <2>1
  <2>8. ProcessesOK' /\ impl' \in [Compilers -> ImplType] /\ call' \in [Compilers -> CallType]
    BY <2>4, <2>5, <2>6, <2>7, StageOK
  <2>9. call'[c] = cl /\ OnlyMoves(c)
    BY <2>4, OthersKept DEF OnlyMoves
  <2>10. ~PendingCall(call'[c])
    BY <2>5, <2>9 DEF PendingCall
  <2> QED BY <1>t, <2>1, <2>2, <2>5, <2>8, <2>9, <2>10, QuietInv DEF disk
<1>9. ASSUME NEW c \in Compilers, WriteChunk(c)
      PROVE  /\ CacheIndInv'
             /\ \A n \in Names : dst[n] # None =>
                  \A k \in 1..Chunks : data[dst[n]][k] \in IR => data'[dst[n]][k] = data[dst[n]][k]
  BY <1>9, WriteInv
<1>10. ASSUME NEW c \in Compilers, Rename(c) \/ RemoveTmp(c)
       PROVE  CacheIndInv' /\ data' = data
  BY <1>10, RenameInv
<1>11. ASSUME NEW c \in Compilers, AddIRModule(c)
       PROVE  CacheIndInv' /\ data' = data
  <2>1. /\ UNCHANGED disk /\ compiles' = compiles /\ crashes' = crashes /\ call[c].pc = "add"
        /\ call' = [call EXCEPT ![c] = [NoCall EXCEPT !.want = call[c].want]]
    BY <1>11 DEF AddIRModule, At, Return
  <2>2. call'[c].fd = None /\ call'[c].pc = "idle" /\ OnlyMoves(c)
    BY <2>1 DEF NoCall, OnlyMoves, TypeOK
  <2>3. ~PendingCall(call'[c])
    BY <2>2 DEF PendingCall
  <2> QED BY <1>t, <1>11, <2>1, <2>2, <2>3, AddOK, QuietInv DEF disk
<1>12. ASSUME NEW c \in Compilers, Die(c)
       PROVE  CacheIndInv' /\ data' = data
  <2>1. /\ UNCHANGED disk /\ compiles' = compiles /\ crashes' = crashes + 1 /\ crashes < MaxCrashes
        /\ call' = [call EXCEPT ![c] = NoCall]
    BY <1>12 DEF Die
  <2>2. call'[c].fd = None /\ call'[c].pc = "idle" /\ OnlyMoves(c)
    BY <2>1 DEF NoCall, OnlyMoves, TypeOK
  <2>3. ~PendingCall(call'[c])
    BY <2>2 DEF PendingCall
  <2>4. crashes' \in 0..MaxCrashes
    BY <1>t, <2>1
  <2> QED BY <1>t, <1>12, <2>1, <2>2, <2>3, <2>4, DieOK, QuietInv DEF disk
<1>13. CASE Next
  <2>1. PICK c \in Compilers :
          \/ EnableModuleCache(c) \/ DisableModuleCache(c)
          \/ \E ir \in Asked : CompileResident(c, ir)
          \/ \E ir \in Asked : CompileBegin(c, ir)
          \/ ReadModuleFromCache(c) \/ Build(c) \/ BuildFails(c)
          \/ OpenTmp(c) \/ OpenFails(c) \/ WriteChunk(c)
          \/ Rename(c) \/ RemoveTmp(c) \/ AddIRModule(c) \/ Die(c)
    BY <1>13, Zenon DEF Next, WriteFails, Crash
  <2> QED BY <2>1, <1>2, <1>3, <1>4, <1>5, <1>6, <1>7, <1>8, <1>9, <1>10, <1>11, <1>12
<1> QED BY <1>1, <1>13

\* An empty directory and fresh compilers.
LEMMA CacheInit == Init => CacheIndInv
<1> SUFFICES ASSUME Init PROVE CacheIndInv
  OBVIOUS
<1>1. TypeOK
  <2>1. EmptyFile \in FileData
    BY DEF EmptyFile, FileData
  <2>2. 0 \in 0..MaxCompiles /\ 0 \in 0..MaxCrashes
    BY CacheConstants
  <2> QED BY <2>1, <2>2, FreshTypes DEF Init, TypeOK
<1>2. ProcessesOK
  BY FreshOK DEF Init, ProcessesOK
<1>3. \A n \in Names, i \in Inodes : ~Refers(n, i)
  BY CacheConstants DEF Init, Refers, NoCall
<1>4. FilesNamed
  BY <1>3 DEF FilesNamed, Init
<1>5. OneWriterEach
  BY DEF OneWriterEach, OneWriter, Init, NoCall, At
<1>6. InodesBounded
  <2>1. Pending = {}
    BY DEF Pending, PendingCall, Init, NoCall
  <2> QED BY <2>1, FS_EmptySet DEF InodesBounded, Init
<1> QED BY <1>1, <1>2, <1>4, <1>5, <1>6 DEF CacheIndInv

-----------------------------------------------------------------------------
(* What it gives *)

\* A file all of whose pieces are modules of one name is whole.
LEMMA NamedWhole ==
  ASSUME CacheIndInv, AllBindAlike, NEW n \in Names, dst[n] # None,
         \A k \in 1..Chunks : data[dst[n]][k] \in IR
  PROVE  Whole(data[dst[n]])
<1>1. dst[n] \in Inodes /\ Refers(n, dst[n]) /\ 1 \in 1..Chunks
  BY CacheConstants DEF CacheIndInv, TypeOK, Refers
<1>2. \A k \in 1..Chunks : Name(data[dst[n]][k].kind, data[dst[n]][k].prog) = n
  BY <1>1 DEF CacheIndInv, FilesNamed
<1>3. \A k \in 1..Chunks : data[dst[n]][k] = data[dst[n]][1]
  BY <1>1, <1>2, KeyDetermines
<1> QED BY <1>1, <1>3 DEF Whole

\* The invariant gives each of the properties.
LEMMA CacheSafe ==
  ASSUME CacheIndInv, AllBindAlike
  PROVE  ServesRequested /\ CacheInv /\ GradientLinksIfFirst
<1>1. ServesRequested
  BY DEF CacheIndInv, ProcessesOK, ProcessOK, ResultOK, ServesRequested, At
<1>2. GradientLinksIfFirst
  BY DEF CacheIndInv, ProcessesOK, ProcessOK, LinkOK, NeedsGrad, GradientLinksIfFirst, At
<1>3. PublishedWhole
  BY NamedWhole DEF PublishedWhole, CacheIndInv, OneWriterEach, OneWriter, Written
<1>4. DiagnosticsOfLastCall
  BY DEF CacheIndInv, ProcessesOK, ProcessOK, DiagnosticsOK, DiagnosticsOfLastCall, At
<1> QED BY <1>1, <1>2, <1>3, <1>4 DEF CacheInv, CacheIndInv

-----------------------------------------------------------------------------
(* Theorems *)

\* The invariant of the cache, for any number of processes.
THEOREM CacheInvariance ==
  ASSUME AllBindAlike
  PROVE  Spec => []CacheIndInv
<1>1. CacheIndInv /\ [Next]_vars => CacheIndInv'
  BY CacheStep
<1> QED BY CacheInit, <1>1, PTL DEF Spec

\* "The cache cannot change observed behavior": whatever pointer a compile call
\* leaves is code for what it asked for, however the processes interleave and
\* wherever they die.
THEOREM CacheServes ==
  ASSUME AllBindAlike
  PROVE  Spec => []ServesRequested
<1>1. CacheIndInv => ServesRequested
  BY CacheSafe
<1> QED BY <1>1, CacheInvariance, PTL

\* Types, the diagnostics of the last call, and: without a death, a torn file
\* under a cached name is still being written.
THEOREM CacheAlwaysOK ==
  ASSUME AllBindAlike
  PROVE  Spec => []CacheInv
<1>1. CacheIndInv => CacheInv
  BY CacheSafe
<1> QED BY <1>1, CacheInvariance, PTL

\* A compile call the emitter accepts fails exactly when it is for a gradient
\* that needs the runtime and another kind got to ORC first.
THEOREM GradientLinking ==
  ASSUME AllBindAlike
  PROVE  Spec => []GradientLinksIfFirst
<1>1. CacheIndInv => GradientLinksIfFirst
  BY CacheSafe
<1> QED BY <1>1, CacheInvariance, PTL

\* The file under a cached name is only ever completed, or replaced whole.
THEOREM CachedFilesGrow ==
  ASSUME AllBindAlike
  PROVE  Spec => CachedFileOnlyGrows
<1>1. CacheIndInv /\ [Next]_vars =>
        [\A n \in Names :
           dst[n] # None /\ dst'[n] = dst[n] =>
             \A i \in 1..Chunks :
               data[dst[n]][i] \in IR => data'[dst[n]][i] = data[dst[n]][i]]_vars
  BY CacheStep
<1> QED BY <1>1, CacheInvariance, PTL DEF Spec, CachedFileOnlyGrows

-----------------------------------------------------------------------------
(* Tiering *)

\* A non-empty set of naturals has a least element.
LEMMA LeastNatural ==
  ASSUME NEW T \in SUBSET Nat, T # {}
  PROVE  \E x \in T : \A y \in T : x <= y
<1> DEFINE R == {ss \in Nat \X Nat : ss[1] < ss[2]}
<1>1. IsWellFoundedOn(R, Nat)
  BY NatLessThanWellFounded DEF OpToRel
<1> HIDE DEF R
<1>2. PICK x \in T : \A y \in T : ~(<<y, x>> \in R)
  BY <1>1, WFMin
<1>3. \A y \in T : <<y, x>> \in R <=> y < x
  BY DEF R
<1>4. \A y \in T : x <= y
  <2> TAKE y \in T
  <2>1. ~(y < x)
    BY <1>2, <1>3
  <2> QED BY <2>1
<1> QED BY <1>4, Zenon

\* A bounded non-empty set of naturals has a greatest element, Max(S).
LEMMA MaxIsGreatest ==
  ASSUME NEW S \in SUBSET Nat, S # {}, NEW b \in Nat, \A s \in S : s <= b
  PROVE  Max(S) \in S /\ \A s \in S : s <= Max(S)
<1> DEFINE T == {t \in Nat : \A s \in S : s <= t}
<1>1. T # {} /\ T \in SUBSET Nat
  OBVIOUS
<1>2. PICK m \in T : \A t \in T : m <= t
  BY <1>1, LeastNatural
<1>3. m \in S
  <2> SUFFICES ASSUME m \notin S PROVE FALSE
    OBVIOUS
  <2>1. \A s \in S : s < m
    BY <1>2
  <2>2. m - 1 \in T
    <3>1. m > 0
      <4>1. PICK s \in S : TRUE
        OBVIOUS
      <4> QED BY <4>1, <2>1
    <3> QED BY <2>1, <3>1, <1>2
  <2> QED BY <2>2, <1>2
<1>4. \E x \in S : \A y \in S : x >= y
  BY <1>2, <1>3
<1> QED BY <1>4 DEF Max

\* WarmupTickThreshold() is a natural number that no call's own warm-up
\* exceeds.
LEMMA ThresholdCovers ==
  /\ Threshold \in Nat
  /\ \A c \in Calls : OpThreshold(c) <= Threshold
<1> DEFINE S == {0} \cup {OpThreshold(c) : c \in Calls}
<1>1. \A c \in Calls : OpThreshold(c) \in 0 .. MaxInt
  BY ProgramAssumption DEF OpThreshold
<1>2. S \in SUBSET Nat /\ S # {} /\ \A s \in S : s <= MaxInt
  BY <1>1, ProgramAssumption
<1>3. MaxInt \in Nat
  BY ProgramAssumption
<1> HIDE DEF S
<1>4. Max(S) \in S /\ \A s \in S : s <= Max(S)
  BY <1>2, <1>3, MaxIsGreatest
<1>5. Threshold = Max(S)
  BY DEF Threshold, S
<1> QED BY <1>2, <1>4, <1>5 DEF S

\* The two analyses fit together: a call that is specialised needs no more
\* samples than the threshold gives it, and is reached by every tick.
LEMMA WarmSafeCovered ==
  ASSUME NEW c \in WarmSafe
  PROVE  c \in Calls /\ Need(c) <= Threshold /\ ~Conditional[c]
<1>1. Need(c) = OpThreshold(c)
  BY ProgramAssumption DEF WarmSafe, Need, Seeded, OpThreshold, WarmupBounded
<1> QED BY <1>1, ThresholdCovers DEF WarmSafe

\* Every call needs a positive number of samples to be warm.
LEMMA NeedType == \A c \in Calls : Need(c) \in Nat /\ Need(c) > 0
BY ProgramAssumption DEF Need

\* On a context whose warm-safe calls are all warm the two codes are the same.
LEMMA WarmRunsAgree ==
  ASSUME NEW f \in [Calls -> Nat], NEW run \in Reached,
         \A c \in WarmSafe : f[c] = Need(c)
  PROVE  RunSpecialised(f, run) = RunBaseline(f, run)
<1>1. \A c \in WarmSafe : Count(f, c) = f[c] /\ GuardedAnswer(f, c) = "value"
  BY NeedType DEF Count, GuardedAnswer, WarmSafe
<1>2. run \in SUBSET Calls
  BY DEF Reached
<1>3. RunSpecialised(f, run).state = RunBaseline(f, run).state
  BY <1>1, <1>2 DEF RunSpecialised, RunBaseline
<1>4. RunSpecialised(f, run).out = RunBaseline(f, run).out
  BY <1>1, <1>2 DEF RunSpecialised, RunBaseline
<1> QED BY <1>3, <1>4 DEF RunSpecialised, RunBaseline

\* Whoever may run specialised code finds every warm-safe call warm.
LEMMA WarmWhenHeld == IndInv => SpecialisedOnlyWhenWarm
<1> SUFFICES ASSUME IndInv, NEW e \in Evaluators, held[e] = "specialised",
                    NEW c \in WarmSafe
             PROVE  filled[e][c] = Need(c)
  BY DEF SpecialisedOnlyWhenWarm
<1>1. ticks[e] = Threshold
  <2>1. ticks[e] \in 0 .. Threshold
    BY DEF IndInv, TierTypeOK
  <2>2. ticks[e] >= Threshold
    BY DEF IndInv, AboutWhenWarm, WarmedUp
  <2> QED BY <2>1, <2>2, ThresholdCovers
<1>2. c \in Calls /\ Need(c) <= Threshold /\ ~Conditional[c]
  BY WarmSafeCovered
<1>3. filled[e][c] \in Nat /\ filled[e][c] <= Need(c)
      /\ (filled[e][c] >= ticks[e] \/ filled[e][c] = Need(c))
  BY <1>2 DEF IndInv, Counted, TierTypeOK
<1> QED BY <1>1, <1>2, <1>3, NeedType, ThresholdCovers

-----------------------------------------------------------------------------
\* Before Compile() the invariant holds.
LEMMA InitInv == TierInit => IndInv
<1> SUFFICES ASSUME TierInit PROVE IndInv
  OBVIOUS
<1>1. TierTypeOK
  <2>1. 0 \in 0 .. Threshold
    BY ThresholdCovers
  <2>2. ticks \in [Evaluators -> 0 .. Threshold]
    BY <2>1 DEF TierInit
  <2>3. visible \in [Evaluators -> SUBSET Fns] /\ held \in [Evaluators -> Fns]
    BY DEF TierInit, Fns
  <2> QED BY <2>2, <2>3 DEF TierInit, TierTypeOK, Fns
<1>2. Counted
  BY NeedType DEF TierInit, Counted
<1>3. AboutWhenWarm
  BY DEF TierInit, AboutWhenWarm
<1>4. PublishOrder
  BY DEF TierInit, PublishOrder, PromotedMeansSwapped
<1> QED BY <1>1, <1>2, <1>3, <1>4 DEF TierInit, IndInv

\* A tick counts each call it reaches once, up to what the call needs.
LEMMA TickInv ==
  ASSUME IndInv, NEW e \in Evaluators, Tick(e)
  PROVE  IndInv'
<1> PICK run \in Reached :
      /\ filled' = [filled EXCEPT ![e] = Run(held[e], @, run).state]
      /\ agrees' = (agrees /\ Run(held[e], filled[e], run) = RunBaseline(filled[e], run))
  BY DEF Tick
<1>1. filled[e] \in [Calls -> Nat] /\ held[e] \in Fns
  BY DEF IndInv, TierTypeOK
<1>2. Run(held[e], filled[e], run) = RunBaseline(filled[e], run)
  <2>1. CASE held[e] = "specialised"
    BY <2>1, <1>1, WarmWhenHeld, WarmRunsAgree DEF SpecialisedOnlyWhenWarm, Run
  <2>2. CASE held[e] # "specialised"
    BY <2>2 DEF Run
  <2> QED BY <2>1, <2>2
<1> DEFINE g == [c \in Calls |-> IF c \in run THEN Count(filled[e], c) ELSE filled[e][c]]
<1>3. filled' = [filled EXCEPT ![e] = g]
  BY <1>2 DEF RunBaseline
<1>4. \A c \in Calls : g[c] \in Nat
  BY <1>1 DEF Count
<1>5. \A c \in Calls : /\ g[c] <= Need(c)
                       /\ ~Conditional[c] => g[c] = filled[e][c] + 1 \/ g[c] = Need(c)
  <2> SUFFICES ASSUME NEW c \in Calls
               PROVE  /\ g[c] <= Need(c)
                      /\ ~Conditional[c] => g[c] = filled[e][c] + 1 \/ g[c] = Need(c)
    OBVIOUS
  <2>1. filled[e][c] \in Nat /\ filled[e][c] <= Need(c)
    BY <1>1 DEF IndInv, Counted
  <2>2. ~Conditional[c] => c \in run
    BY DEF Reached
  <2> QED BY <2>1, <2>2, NeedType DEF Count
<1>6. filled' \in [Evaluators -> [Calls -> Nat]]
  <2>1. g \in [Calls -> Nat]
    BY <1>4
  <2> HIDE DEF g
  <2> QED BY <2>1, <1>3 DEF IndInv, TierTypeOK
<1>7. ticks' = [ticks EXCEPT ![e] = IF @ < Threshold THEN @ + 1 ELSE @]
      /\ ticks \in [Evaluators -> 0 .. Threshold]
  BY DEF Tick, IndInv, TierTypeOK
<1>8. TierTypeOK'
  <2>1. ticks' \in [Evaluators -> 0 .. Threshold]
    BY <1>7, ThresholdCovers
  <2>2. agrees' \in BOOLEAN
    BY DEF IndInv, TierTypeOK
  <2>3. held' \in [Evaluators -> Fns]
    BY DEF Tick, IndInv, TierTypeOK, Fns
  <2> QED BY <1>6, <2>1, <2>2, <2>3 DEF Tick, IndInv, TierTypeOK
<1>9. Counted'
  <2> SUFFICES ASSUME NEW d \in Evaluators, NEW c \in Calls
               PROVE  /\ filled'[d][c] <= Need(c)
                      /\ ~Conditional[c] => filled'[d][c] >= ticks'[d]
                                             \/ filled'[d][c] = Need(c)
    BY DEF Counted, Need
  <2>1. CASE d # e
    <3>1. filled'[d] = filled[d] /\ ticks'[d] = ticks[d]
      BY <2>1, <1>7, <1>3 DEF IndInv, TierTypeOK
    <3> QED BY <3>1 DEF IndInv, Counted
  <2>2. CASE d = e
    <3>1. filled'[d][c] = g[c]
      BY <2>2, <1>3 DEF IndInv, TierTypeOK
    <3>2. ticks[e] \in Nat /\ ticks'[e] <= ticks[e] + 1 /\ ticks'[e] \in Nat
      BY <1>7, ThresholdCovers
    <3>3. filled[e][c] \in Nat /\ g[c] \in Nat
      BY <1>1, <1>4
    <3>4. ~Conditional[c] => filled[e][c] >= ticks[e] \/ filled[e][c] = Need(c)
      BY DEF IndInv, Counted
    <3> HIDE DEF g
    <3>5. g[c] <= Need(c) /\ (~Conditional[c] => g[c] = filled[e][c] + 1 \/ g[c] = Need(c))
      BY <1>5
    <3> QED BY <2>2, <3>1, <3>2, <3>3, <3>4, <3>5, NeedType
  <2> QED BY <2>1, <2>2
<1>10. AboutWhenWarm'
  <2>1. WarmedUp => WarmedUp'
    <3> SUFFICES ASSUME WarmedUp, NEW d \in Evaluators PROVE ticks'[d] >= Threshold
      BY DEF WarmedUp, Threshold, OpThreshold
    <3> QED BY <1>7, ThresholdCovers DEF WarmedUp
  <2>2. \A d \in Evaluators : held'[d] = "specialised" => held[d] = "specialised"
    BY DEF Tick, IndInv, TierTypeOK
  <2> QED BY <2>1, <2>2 DEF Tick, IndInv, AboutWhenWarm
<1>11. agrees'
  BY <1>2 DEF IndInv
<1>12. PublishOrder'
  BY DEF Tick, IndInv, PublishOrder, PromotedMeansSwapped
<1> QED BY <1>8, <1>9, <1>10, <1>11, <1>12 DEF IndInv

\* Every other step leaves the contexts alone.
LEMMA StepInv == IndInv /\ [TierNext]_tierVars => IndInv'
<1> SUFFICES ASSUME IndInv, [TierNext]_tierVars PROVE IndInv'
  OBVIOUS
<1>1. Counted /\ WarmedUp /\ UNCHANGED <<ticks, filled>> => Counted' /\ WarmedUp'
  BY DEF Counted, WarmedUp, Need, Threshold, OpThreshold
<1>2. Counted /\ UNCHANGED <<ticks, filled>> => Counted'
  BY DEF Counted, Need
<1> USE <1>1, <1>2 DEF IndInv
<1>3. CASE CompileStart
  BY <1>3 DEF CompileStart, Store, TierTypeOK, Fns, AboutWhenWarm, PublishOrder,
              PromotedMeansSwapped
<1>4. CASE CompileReset
  BY <1>4 DEF CompileReset, TierTypeOK, AboutWhenWarm, PublishOrder, PromotedMeansSwapped
<1>5. CASE CompileFail
  BY <1>5 DEF CompileFail, TierTypeOK, AboutWhenWarm, PublishOrder, PromotedMeansSwapped
<1>6. CASE CompileDone
  BY <1>6 DEF CompileDone, Store, TierTypeOK, Fns, AboutWhenWarm, PublishOrder,
              PromotedMeansSwapped
<1>7. CASE PromoteCall
  BY <1>7 DEF PromoteCall, TierTypeOK, AboutWhenWarm, PublishOrder, PromotedMeansSwapped
<1>8. CASE PromoteFail
  BY <1>8 DEF PromoteFail, TierTypeOK, AboutWhenWarm, PublishOrder, PromotedMeansSwapped
<1>9. CASE PromotePublish
  BY <1>9 DEF PromotePublish, Store, TierTypeOK, Fns, AboutWhenWarm, PublishOrder,
              PromotedMeansSwapped
<1>10. CASE PromoteMark
  BY <1>10 DEF PromoteMark, TierTypeOK, AboutWhenWarm, PublishOrder, PromotedMeansSwapped
<1>11. CASE \E e \in Evaluators : Load(e)
  <2> PICK e \in Evaluators : Load(e)
    BY <1>11
  <2> PICK fn \in visible[e] :
        /\ held' = [held EXCEPT ![e] = fn]
        /\ visible' = [visible EXCEPT ![e] = IF fn = active THEN {fn} ELSE @]
    BY DEF Load
  <2>1. fn \in Fns
    BY DEF TierTypeOK
  <2>2. TierTypeOK'
    BY <2>1 DEF Load, TierTypeOK
  <2>3. AboutWhenWarm'
    BY <2>1 DEF Load, TierTypeOK, AboutWhenWarm
  <2> QED BY <2>2, <2>3 DEF Load, PublishOrder, PromotedMeansSwapped
<1>12. CASE \E e \in Evaluators : Tick(e)
  BY <1>12, TickInv
<1>13. CASE UNCHANGED tierVars
  BY <1>13 DEF tierVars, TierTypeOK, AboutWhenWarm, PublishOrder, PromotedMeansSwapped
<1> QED BY <1>3, <1>4, <1>5, <1>6, <1>7, <1>8, <1>9, <1>10, <1>11, <1>12, <1>13 DEF TierNext

-----------------------------------------------------------------------------
\* The inductive invariant of tiering (jit_compiler.cpp:4206-4312) holds of
\* every program and any number of evaluators.
THEOREM TieredInvariance == TierSpec => []IndInv
<1>1. IndInv /\ [TierNext]_tierVars => IndInv'
  BY StepInv
<1> QED BY InitInv, <1>1, PTL DEF TierSpec

\* Specialised code only ever meets contexts in which every call it was
\* specialised for is warm.
THEOREM SpecialisedRunsWarm == TierSpec => []SpecialisedOnlyWhenWarm
BY TieredInvariance, WarmWhenHeld, PTL

\* Every tick of either tier gives the answers and leaves the states of the
\* baseline code.
THEOREM TieringInvisible == TierSpec => []TiersAgree
<1>1. IndInv => TiersAgree
  BY DEF IndInv, TiersAgree
<1> QED BY <1>1, TieredInvariance, PTL

\* A raised IsPromoted() means that the specialised function is published.
THEOREM PromotionPublished == TierSpec => []PromotedMeansSwapped
<1>1. IndInv => PromotedMeansSwapped
  BY DEF IndInv, PublishOrder
<1> QED BY <1>1, TieredInvariance, PTL
=============================================================================
