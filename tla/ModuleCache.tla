----------------------------- MODULE ModuleCache -----------------------------
(* JitCompiler (src/jit_compiler.cpp): the compile entry points and the      *)
(* persistent module cache they share.                                       *)
(*                                                                           *)
(* Every compiler here is one JitCompiler in a process of its own; the       *)
(* processes share one cache directory.  A compile call is a sequence of     *)
(* steps that interleave with the other processes: in-memory lookup, read of *)
(* the bitcode file, build, open, write (in Chunks pieces), rename and the   *)
(* hand-over to ORC.  A process can die between any two of them.             *)
(*                                                                           *)
(* The directory maps the file of a key, and its ".tmp" file, to inodes, for *)
(* a descriptor keeps its inode when the name is renamed or unlinked.  The   *)
(* ".tmp" name is derived from the key alone, so two processes that compile  *)
(* the same key write the same file.                                         *)
(*                                                                           *)
(* What a compile call is asked for is its kind, a program (text, lowering   *)
(* flags, host features: what BuildCacheKeyString reads; the 64-bit hash is  *)
(* taken as injective) and a binding (the symbol_id that BindSymbolIds wrote *)
(* into the AST, which EmitExpr bakes into the code).  The post-O2 module is *)
(* a function of all three.                                                  *)
EXTENDS Integers, FiniteSets

CONSTANTS Compilers, Programs, Bindings,
          Requests,      \* the <<kind, program>> pairs that are compiled
          Rejected,      \* the <<kind, program>> pairs EmitExpr throws on
          GradRuntime,   \* programs whose gradient calls a jit_rt_*_grad
          Chunks,        \* pieces in which a bitcode file is written
          MaxCompiles,   \* bound: compile calls, all processes together
          MaxCrashes     \* bound: process deaths

Kinds == {"signal", "program", "warm", "grad", "vec"}
CachedKinds == {"program", "warm", "grad"}

ASSUME CacheAssumption ==
  /\ Requests \subseteq Kinds \X Programs
  /\ Rejected \subseteq Requests
  /\ GradRuntime \subseteq Programs
  /\ Chunks \in Nat \ {0}
  /\ MaxCompiles \in Nat
  /\ MaxCrashes \in Nat

CONSTANTS None,    \* a null pointer, an empty string, a missing file
          Eof,     \* past the end of the file
          Hole,    \* zeros: skipped by a write beyond a truncated end
          Broken   \* a symbol ORC failed to materialise

(* The post-O2 module of a request, and the file and symbol name of its key. *)
IR == [kind : Kinds, prog : Programs, bind : Bindings]
Asked == {ir \in IR : <<ir.kind, ir.prog>> \in Requests}
\* Mutant: assume_warm is not part of the key.
NameWithoutWarm(kind, prog) == <<IF kind = "warm" THEN "program" ELSE kind, prog>>
Name(kind, prog) == <<kind, prog>>
Names == CachedKinds \X Programs

(* The sentinels are told apart from what they stand beside.                 *)
ASSUME SentinelAssumption ==
  /\ None \notin IR /\ Eof \notin IR /\ Hole \notin IR /\ Broken \notin IR
  /\ None # Broken
  /\ None \notin Kinds \cup {"program", "gradient", "built", "disk"}
  /\ None \notin 1..MaxCompiles
  /\ IsFiniteSet(Compilers)

(* impl_->fn, program_fn, program_gradient_fn, program_fn_vec.               *)
Slots == {"fn", "program", "gradient", "vec"}
SlotOf(kind) == CASE kind = "signal" -> "fn"
                  [] kind \in {"program", "warm"} -> "program"
                  [] kind = "grad" -> "gradient"
                  [] kind = "vec" -> "vec"

Inodes == 1..MaxCompiles
FileData == [1..Chunks -> IR \cup {Eof, Hole}]

VARIABLES impl,     \* per compiler: JitCompiler::Impl
          call,     \* per compiler: the locals of the running compile call
          dst,      \* cache directory: <hash>.<variant>.bc -> inode
          tmp,      \* cache directory: <hash>.<variant>.bc.tmp -> inode
          data,     \* inode -> contents
          inodes,   \* inodes allocated so far
          shared,   \* ghost: names whose ".tmp" two processes had open at once
          compiles, \* compile calls so far
          crashes   \* process deaths so far

vars == <<impl, call, dst, tmp, data, inodes, shared, compiles, crashes>>
disk == <<dst, tmp, data, inodes, shared>>

Steps == {"idle", "read", "build", "open", "write", "rename", "remove", "add"}

ImplType ==
  [cache_on : BOOLEAN,                      \* !cache_dir.empty()
   last_cache_hit : BOOLEAN,
   last_ir : IR \cup {None},                \* last_ir_post_opt, None: empty
   slots : [Slots -> IR \cup {None}],
   registered : {None, "program", "gradient"}, \* runtime symbols defined
   first : Kinds \cup {None},               \* ghost: first kind to get to ORC
   dylib : [Names -> IR \cup {None, Broken}],
   served : {None, "built", "disk", "memory"}] \* ghost: source of the last
                              \* success, None: none since the cache was left on

CallType ==
  [pc : Steps,
   want : IR \cup {None},                   \* the arguments
   cached : BOOLEAN,                        \* cache_enabled
   module : IR \cup {None},
   loaded : BOOLEAN,                        \* loaded_from_cache
   fd : Inodes \cup {None}, off : 0..Chunks]

TypeOK ==
  /\ impl \in [Compilers -> ImplType]
  /\ call \in [Compilers -> CallType]
  /\ dst \in [Names -> Inodes \cup {None}]
  /\ tmp \in [Names -> Inodes \cup {None}]
  /\ data \in [Inodes -> FileData]
  /\ inodes \in 0..MaxCompiles
  /\ shared \subseteq Names
  /\ compiles \in 0..MaxCompiles
  /\ crashes \in 0..MaxCrashes

EmptyFile == [i \in 1..Chunks |-> Eof]
NoSlots == [s \in Slots |-> None]

FreshImpl ==
  [cache_on |-> FALSE, last_cache_hit |-> FALSE, last_ir |-> None,
   slots |-> NoSlots, registered |-> None, first |-> None,
   dylib |-> [n \in Names |-> None], served |-> None]

NoCall ==
  [pc |-> "idle", want |-> None, cached |-> FALSE, module |-> None,
   loaded |-> FALSE, fd |-> None, off |-> 0]

Init ==
  /\ impl = [c \in Compilers |-> FreshImpl]
  /\ call = [c \in Compilers |-> NoCall]
  /\ dst = [n \in Names |-> None]
  /\ tmp = [n \in Names |-> None]
  /\ data = [i \in Inodes |-> EmptyFile]
  /\ inodes = 0
  /\ shared = {}
  /\ compiles = 0
  /\ crashes = 0

At(c, pc) == call[c].pc = pc
NameOf(c) == Name(call[c].want.kind, call[c].want.prog)

(* A call that ends: its locals are gone, its arguments are kept to judge    *)
(* the result by.                                                            *)
Return(c) == call' = [call EXCEPT ![c] = [NoCall EXCEPT !.want = call[c].want]]
Goto(c, pc) == call' = [call EXCEPT ![c].pc = pc]

------------------------------------------------------------------------------
(* EnableModuleCache, DisableModuleCache.                                    *)
EnableModuleCache(c) ==
  /\ At(c, "idle")
  /\ ~impl[c].cache_on
  /\ impl' = [impl EXCEPT ![c].cache_on = TRUE]
  /\ UNCHANGED <<call, disk, compiles, crashes>>

DisableModuleCache(c) ==
  /\ At(c, "idle")
  /\ impl[c].cache_on
  /\ impl' = [impl EXCEPT ![c].cache_on = FALSE, ![c].last_cache_hit = FALSE,
                          ![c].served = None]
  /\ UNCHANGED <<call, disk, compiles, crashes>>

(* The pointers an entry point resets: Compile() leaves program_fn_vec.      *)
ClearSlots(kind, slots) ==
  IF kind = "signal" THEN [NoSlots EXCEPT !["vec"] = slots["vec"]]
                     ELSE NoSlots

(* The Impl fields reset on entry.  Only the cached kinds reset the hit.     *)
Entered(im, kind) ==
  [im EXCEPT !.slots = ClearSlots(kind, im.slots),
             !.last_ir = None,
             !.last_cache_hit = im.last_cache_hit /\ kind \notin CachedKinds]

(* The tail of a successful call: out_fn and last_cache_hit.                 *)
Published(im, ir, kind, source) ==
  [im EXCEPT !.slots[SlotOf(kind)] = ir,
             !.last_cache_hit = IF kind \in CachedKinds THEN source # "built"
                                                        ELSE im.last_cache_hit,
             !.served = source]

(* A compile call whose code is resident: the ORC fast path.                 *)
CompileResident(c, ir) ==
  LET n == Name(ir.kind, ir.prog)
  IN /\ At(c, "idle")
     /\ compiles < MaxCompiles
     /\ impl[c].cache_on
     /\ ir.kind \in CachedKinds
     /\ impl[c].dylib[n] \in IR
     /\ impl' = [impl EXCEPT ![c] =
                   Published(Entered(impl[c], ir.kind), impl[c].dylib[n],
                             ir.kind, "memory")]
     /\ call' = [call EXCEPT ![c] = [NoCall EXCEPT !.want = ir]]
     /\ compiles' = compiles + 1
     /\ UNCHANGED <<disk, crashes>>

(* Any other compile call, up to the read of the cache or the build.         *)
CompileBegin(c, ir) ==
  LET useCache == impl[c].cache_on /\ ir.kind \in CachedKinds
  IN /\ At(c, "idle")
     /\ compiles < MaxCompiles
     /\ useCache => impl[c].dylib[Name(ir.kind, ir.prog)] \notin IR
     /\ impl' = [impl EXCEPT ![c] = Entered(impl[c], ir.kind)]
     /\ call' = [call EXCEPT ![c] =
                   [NoCall EXCEPT !.want = ir, !.cached = useCache,
                                  !.pc = IF useCache THEN "read" ELSE "build"]]
     /\ compiles' = compiles + 1
     /\ UNCHANGED <<disk, crashes>>

------------------------------------------------------------------------------
(* ReadModuleFromCache.  parseBitcodeFile accepts a file only if it is one   *)
(* module, whole.                                                            *)
Whole(f) == \E ir \in IR : \A i \in 1..Chunks : f[i] = ir
Parses(f) == Whole(f)

ReadModuleFromCache(c) ==
  /\ At(c, "read")
  /\ LET i == dst[NameOf(c)]
     IN IF i # None /\ Parses(data[i])
          THEN LET ir == data[i][Chunks]
               IN /\ call' = [call EXCEPT ![c].pc = "add", ![c].module = ir,
                                          ![c].loaded = TRUE]
                  (* the gradient path does not render the loaded module *)
                  /\ impl' = IF call[c].want.kind = "grad" THEN impl
                             ELSE [impl EXCEPT ![c].last_ir = ir]
          ELSE /\ Goto(c, "build")
               /\ UNCHANGED impl
  /\ UNCHANGED <<disk, compiles, crashes>>

(* AST to IR, verifyFunction, the O2 pipeline.                               *)
Build(c) ==
  /\ At(c, "build")
  /\ <<call[c].want.kind, call[c].want.prog>> \notin Rejected
  /\ call' = [call EXCEPT ![c].module = call[c].want,
                          ![c].pc = IF call[c].cached THEN "open" ELSE "add"]
  /\ impl' = [impl EXCEPT ![c].last_ir = call[c].want]
  /\ UNCHANGED <<disk, compiles, crashes>>

(* EmitExpr throws; last_error is set and the call returns false.            *)
BuildFails(c) ==
  /\ At(c, "build")
  /\ <<call[c].want.kind, call[c].want.prog>> \in Rejected
  /\ Return(c)
  /\ UNCHANGED <<impl, disk, compiles, crashes>>

------------------------------------------------------------------------------
(* WriteModuleToCache: opening the ".tmp" name creates or truncates it.      *)
\* Mutant: an existing cache file is opened in place.
OpenPathInPlace(n) == IF dst[n] # None THEN dst[n] ELSE tmp[n]
OpenPath(n) == tmp[n]

\* Some other process has the file of c's key open.
OpenElsewhere(c) ==
  \E d \in Compilers \ {c} :
    call[d].pc \in {"write", "rename"} /\ NameOf(d) = NameOf(c)

OpenTmp(c) ==
  LET n == NameOf(c)
      fresh == OpenPath(n) = None
      i == IF fresh THEN inodes + 1 ELSE OpenPath(n)
  IN /\ At(c, "open")
     /\ data' = [data EXCEPT ![i] = EmptyFile]
     /\ tmp' = [tmp EXCEPT ![n] = i]
     /\ inodes' = IF fresh THEN inodes + 1 ELSE inodes
     /\ shared' = IF OpenElsewhere(c) THEN shared \cup {n} ELSE shared
     /\ call' = [call EXCEPT ![c].pc = "write", ![c].fd = i, ![c].off = 0]
     /\ UNCHANGED <<impl, dst, compiles, crashes>>

(* open_ec: no cache directory, no permission.  The call goes on uncached.   *)
OpenFails(c) ==
  /\ At(c, "open")
  /\ Goto(c, "add")
  /\ UNCHANGED <<impl, disk, compiles, crashes>>

(* One piece, at the descriptor's own offset.                                *)
Write(f, k, ir) ==
  [i \in 1..Chunks |-> IF i = k THEN ir
                       ELSE IF i < k /\ f[i] = Eof THEN Hole ELSE f[i]]

\* Mutant: the file is renamed before it is flushed.
LastChunkShort == Chunks - 1
LastChunk == Chunks

WriteChunk(c) ==
  LET k == call[c].off + 1
  IN /\ At(c, "write")
     /\ data' = [data EXCEPT ![call[c].fd] = Write(@, k, call[c].module)]
     /\ call' = [call EXCEPT ![c].off = k,
                             ![c].pc = IF k >= LastChunk THEN "rename" ELSE "write"]
     /\ UNCHANGED <<impl, dst, tmp, inodes, shared, compiles, crashes>>

(* A failing write (a full disk).  The function returns with the error flag of the   *)
(* stream still set, and the destructor of an llvm::raw_fd_ostream with an   *)
(* unhandled error calls report_fatal_error: the process dies.               *)
Die(c) ==
  /\ crashes < MaxCrashes
  /\ crashes' = crashes + 1
  /\ impl' = [impl EXCEPT ![c] = FreshImpl]
  /\ call' = [call EXCEPT ![c] = NoCall]
  /\ UNCHANGED <<disk, compiles>>

WriteFails(c) ==
  /\ At(c, "write")
  /\ Die(c)

(* rename: whatever inode has the ".tmp" name now becomes the cached file.   *)
Rename(c) ==
  LET n == NameOf(c)
  IN /\ At(c, "rename")
     /\ IF tmp[n] # None
          THEN /\ dst' = [dst EXCEPT ![n] = tmp[n]]
               /\ tmp' = [tmp EXCEPT ![n] = None]
               /\ call' = [call EXCEPT ![c].pc = "add", ![c].fd = None,
                                       ![c].off = 0]
          ELSE /\ call' = [call EXCEPT ![c].pc = "remove", ![c].fd = None,
                                       ![c].off = 0]
               /\ UNCHANGED <<dst, tmp>>
     /\ UNCHANGED <<impl, data, inodes, shared, compiles, crashes>>

(* The rename has failed: remove(tmp_path), whoever created it since.        *)
RemoveTmp(c) ==
  /\ At(c, "remove")
  /\ tmp' = [tmp EXCEPT ![NameOf(c)] = None]
  /\ Goto(c, "add")
  /\ UNCHANGED <<impl, dst, data, inodes, shared, compiles, crashes>>

------------------------------------------------------------------------------
(* The runtime symbols are defined once, by the first compile that gets      *)
(* here; only the gradient path's list has the jit_rt_*_grad names.          *)
\* Mutant: one list of names for all entry points, without the gradient ones.
RegisterPlain(old, kind) == "program"

Register(old, kind) ==
  IF old # None THEN old ELSE IF kind = "grad" THEN "gradient" ELSE "program"

Links(kind, prog, registered) ==
  kind = "grad" /\ prog \in GradRuntime => registered = "gradient"

(* addIRModule and lookup: out_fn, or failure on a duplicate definition or   *)
(* an unresolved symbol.  Names of uncached calls end in a counter and are   *)
(* always new; nobody looks them up again.                                   *)
AddIRModule(c) ==
  LET kind == call[c].want.kind
      cached == call[c].cached
      reg == Register(impl[c].registered, kind)
      duplicate == cached /\ impl[c].dylib[NameOf(c)] # None
      ok == ~duplicate /\ Links(kind, call[c].want.prog, reg)
      added == [impl[c] EXCEPT
                  !.registered = reg,
                  !.first = IF @ = None THEN kind ELSE @,
                  !.dylib = IF cached /\ ~duplicate
                              THEN [@ EXCEPT ![NameOf(c)] =
                                      IF ok THEN call[c].module ELSE Broken]
                              ELSE @]
  IN /\ At(c, "add")
     /\ impl' = [impl EXCEPT ![c] =
                   IF ok THEN Published(added, call[c].module, kind,
                                        IF call[c].loaded THEN "disk" ELSE "built")
                         ELSE added]
     /\ Return(c)
     /\ UNCHANGED <<disk, compiles, crashes>>

(* The process dies; its next incarnation starts with a new JitCompiler.     *)
Crash(c) ==
  /\ ~At(c, "idle")
  /\ Die(c)

Next ==
  \E c \in Compilers :
    \/ EnableModuleCache(c)
    \/ DisableModuleCache(c)
    \/ \E ir \in Asked : CompileResident(c, ir)
    \/ \E ir \in Asked : CompileBegin(c, ir)
    \/ ReadModuleFromCache(c)
    \/ Build(c)
    \/ BuildFails(c)
    \/ OpenTmp(c)
    \/ OpenFails(c)
    \/ WriteChunk(c)
    \/ WriteFails(c)
    \/ Rename(c)
    \/ RemoveTmp(c)
    \/ AddIRModule(c)
    \/ Crash(c)

Spec == Init /\ [][Next]_vars

------------------------------------------------------------------------------
(* jit_module_cache_test.cpp: "The cache cannot change observed behavior."   *)
(* Whatever pointer a compile call leaves to be run is code for exactly what *)
(* that call asked for, however files were shared, torn or abandoned by a    *)
(* dead process, as long as all of them bind symbols alike.  (The one        *)
(* pointer that outlives a later call is the vector program, which Compile() *)
(* does not reset.)                                                          *)
ServesRequested ==
  \A c \in Compilers, s \in Slots :
    At(c, "idle") /\ impl[c].slots[s] # None =>
      \/ impl[c].slots[s] = call[c].want
      \/ s = "vec" /\ call[c].want.kind = "signal"

(* What MemoryBuffer::getFile may have mapped never shrinks or changes: the  *)
(* file under the cached name is only ever completed, or replaced whole.     *)
CachedFileOnlyGrows ==
  [][\A n \in Names :
       dst[n] # None /\ dst'[n] = dst[n] =>
         \A i \in 1..Chunks :
           data[dst[n]][i] \in IR => data'[dst[n]][i] = data[dst[n]][i]]_vars

(* jit_compiler.h: the module is "written atomically (write-to-temp +        *)
(* rename)".  The file under a cached name is one module, whole, wherever a  *)
(* process has died, even between two pieces or before its rename: what it   *)
(* left under the ".tmp" name is truncated and filled again by the next one. *)
(* Nothing is claimed of a key whose ".tmp" two processes had open at once.  *)
PublishedWhole ==
  \A n \in Names :
    dst[n] # None /\ n \notin shared => Whole(data[dst[n]])

(* jit_compiler.h on LastCacheHit(): true iff the last successful call "was  *)
(* served from the on-disk cache".  LastIRPostOpt() has the IR of the code   *)
(* just published, for a module built or (but for a gradient) loaded, and    *)
(* never that of an earlier call.  Nothing is claimed of the flag after a    *)
(* vector compile, a hit in memory or DisableModuleCache, nor that there is  *)
(* IR after a hit in memory or one of the gradient path.                     *)
DiagnosticsOfLastCall ==
  \A c \in Compilers :
    LET im == impl[c]
        kind == call[c].want.kind
        code == im.slots[SlotOf(kind)]
    IN (At(c, "idle") /\ call[c].want # None /\ code # None) =>
         /\ kind \in CachedKinds /\ im.served \in {"built", "disk"} =>
              (im.last_cache_hit <=> im.served = "disk")
         /\ im.served = "built" \/ (im.served = "disk" /\ kind # "grad") =>
              im.last_ir # None
         /\ im.last_ir # None => im.last_ir = code

(* Locals, flags and files keep their types, and the above.                  *)
CacheInv == TypeOK /\ PublishedWhole /\ DiagnosticsOfLastCall

(* The runtime symbols are registered once per compiler (jit_compiler.cpp:   *)
(* 3674).  So a compile call that the emitter accepts fails exactly when it  *)
(* is for a gradient that calls the runtime and some other entry point of    *)
(* the same JitCompiler got to ORC first, whatever other processes do to the *)
(* cache and whether the module was built or read from disk.                 *)
GradientLinksIfFirst ==
  \A c \in Compilers :
    LET want == call[c].want
        needsGrad == want.kind = "grad" /\ want.prog \in GradRuntime
    IN  (At(c, "idle") /\ want # None /\ <<want.kind, want.prog>> \notin Rejected) =>
          (impl[c].slots[SlotOf(want.kind)] = None
             <=> needsGrad /\ impl[c].first # "grad")

------------------------------------------------------------------------------
(* jit_compiler.cpp on BuildCacheKeyString: "Anything that would make the    *)
(* post-O2 IR differ MUST be in here."  A call served from the cache gets    *)
(* the module that building it would have given.                             *)
KeyDeterminesModule ==
  \A c \in Compilers :
    At(c, "add") => call[c].module = call[c].want
=============================================================================
