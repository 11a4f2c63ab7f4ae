------------------------------ MODULE CodeRegistry ------------------------------
(***************************************************************************)
(* What a launch event says about the code it runs: the registry           *)
(* (native/src/code_registry.cc), the hooks that fill it                   *)
(* (native/src/hook.cc) and the CUPTI callback (native/src/                *)
(* cupti_capture.cc).                                                      *)
(*                                                                         *)
(* The driver is external: it hands out owner handles (modules and         *)
(* libraries) and kernel handles (functions and kernels), and may hand a   *)
(* freed handle out again.  Unloading is not hooked.  An image is a code   *)
(* object; its id is a hash of its bytes, so the image stands for its id.  *)
(* A hooked load that failed in the driver changes nothing and is left     *)
(* out, as are the launch's dimensions, stream and device.                 *)
(***************************************************************************)
EXTENDS Naturals, FiniteSets

CONSTANTS
    Threads, Owners, Kernels, Names,
    Images,
    Loadable,      \* the images the process loads; the others are parts of them
    Format,        \* Format[i]: the container, from its magic number
    Inner,         \* Inner[i]: what a wrapper points to
    Compiled,      \* Compiled[i]: the cubin the driver runs for image i
    Sections,      \* Sections[c]: symbol tables of cubin c, as read by the registry
    MaxCalls,      \* bound: calls that make or look up a handle
    Nil

ASSUME RegistryAssumption ==
    /\ Nil \notin Images \cup Owners \cup Kernels \cup Names
    /\ Loadable \subseteq Images /\ MaxCalls \in Nat
    /\ Format \in [Images -> {"wrapper", "fatbin", "cubin", "ptx"}]
    /\ Inner \in [Images -> Images \cup {Nil}]
    /\ Compiled \in [Images -> Images]
    /\ Sections \in [Images -> SUBSET [fits : BOOLEAN, names : SUBSET Names]]

VARIABLES
    idOfHandle,       \* code_id_by_handle
    libraryOf,        \* module_to_library_map
    kernelMap,        \* kernel_map
    idOfName,         \* code_id_by_kernel_name
    captured,         \* captured_code_ids
    cupti,            \* module callbacks are delivered
    pc, work,         \* a thread's place in a hooked call, and its arguments
    sent,             \* what the ring did with the code event of an image
    early,            \* a launch event named code the ring does not hold
    owner, kernel,    \* external: what the driver's live handles stand for
    freed,            \* external: handles the driver took back at least once
    calls             \* bound: such calls so far

registry == <<idOfHandle, libraryOf, kernelMap, idOfName, captured>>
driver   == <<owner, kernel, freed, calls>>
vars     == <<registry, cupti, pc, work, sent, early, driver>>

\* The symbol names index_cubin_symbols accepts: of the tables that lie inside
\* the image (range_fits), the defined functions with a terminated name.
IndexedNames(c) == UNION {s.names : s \in {x \in Sections[c] : x.fits}}

\* The kernels an image really has.
Symbols(i) == UNION {s.names : s \in Sections[Compiled[i]]}

\* The part of a container that load_code captures; Nil if it recognises none.
CodeImage(i) ==
    CASE Format[i] # "wrapper" -> i
      [] Inner[i] # Nil /\ Format[Inner[i]] = "fatbin" -> Inner[i]
      [] OTHER -> Nil

Work   == [owner : Owners \cup {Nil}, image : Images \cup {Nil}, code : Images \cup {Nil},
           then : {"idle", "read", "register", "index"}, back : {"idle", "read"}]
NoWork == [owner |-> Nil, image |-> Nil, code |-> Nil, then |-> "idle", back |-> "idle"]

\* A live owner: the image in it, whether the call that loaded it was hooked,
\* the library a module was obtained from, and whether CUPTI reported it.
Loaded == [image : Images, hooked : BOOLEAN, library : Owners \cup {Nil}, reported : BOOLEAN]
Record == [name : Names, code : Images \cup {Nil}]
Kernel == [owner : Owners, name : Names, via : {"get", "enumerate", "copy"}]

\* Nil is no entry of a map.
ASSUME NilAssumption == Nil \notin Loaded \cup Record \cup Kernel

TypeOK ==
    /\ idOfHandle \in [Owners -> Images \cup {Nil}]
    /\ libraryOf \in [Owners -> Owners \cup {Nil}]
    /\ kernelMap \in [Kernels -> Record \cup {Nil}]
    /\ idOfName \in [Names -> Images \cup {Nil}]
    /\ captured \subseteq Images
    /\ cupti \in {"unset", "on", "off"}
    /\ pc \in [Threads -> {"idle", "read", "capture", "enqueue", "register", "index"}]
    /\ work \in [Threads -> Work]
    /\ sent \in [Images -> {"no", "stored", "dropped"}]
    /\ early \in BOOLEAN
    /\ owner \in [Owners -> Loaded \cup {Nil}]
    /\ kernel \in [Kernels -> Kernel \cup {Nil}]
    /\ freed \subseteq Owners \cup Kernels
    /\ calls \in 0..MaxCalls

Init ==
    /\ idOfHandle = [o \in Owners |-> Nil]
    /\ libraryOf = [o \in Owners |-> Nil]
    /\ kernelMap = [k \in Kernels |-> Nil]
    /\ idOfName = [n \in Names |-> Nil]
    /\ captured = {}
    /\ cupti = "unset"
    /\ pc = [t \in Threads |-> "idle"]
    /\ work = [t \in Threads |-> NoWork]
    /\ sent = [i \in Images |-> "no"]
    /\ early = FALSE
    /\ owner = [o \in Owners |-> Nil]
    /\ kernel = [k \in Kernels |-> Nil]
    /\ freed = {}
    /\ calls = 0
-----------------------------------------------------------------------------
(* The process: constructor and destructor. *)

\* start_cupti_capture: the library opens, has the three entry points, and
\* accepts the subscription and its enabling, or everything is undone again.
StartCapture ==
    /\ cupti = "unset"
    /\ \E opened, complete, subscribed, enabled \in BOOLEAN :
         cupti' = IF opened /\ complete /\ subscribed /\ enabled THEN "on" ELSE "off"
    /\ UNCHANGED <<registry, pc, work, sent, early, driver>>

StopCapture ==
    /\ cupti = "on"
    /\ cupti' = "off"
    /\ UNCHANGED <<registry, pc, work, sent, early, driver>>
-----------------------------------------------------------------------------
(* External: what the driver does by itself or in calls that are not hooked. *)

\* A call that makes or looks up a handle; the constructor runs before all of them.
Call == cupti # "unset" /\ calls < MaxCalls /\ calls' = calls + 1

\* An owner handle is usable once the call that created it has returned.
Usable(o) == owner[o] # Nil /\ \A t \in Threads : work[t].owner # o

\* A CUDA library loads its private code through entry points without a hook.
PrivateLoad(o, i) ==
    /\ Call
    /\ owner[o] = Nil
    /\ owner' = [owner EXCEPT ![o] = [image |-> i, hooked |-> FALSE, library |-> Nil,
                                      reported |-> FALSE]]
    /\ UNCHANGED <<registry, cupti, pc, work, sent, early, kernel, freed>>

\* An unload frees the owner, the modules obtained from it and their kernels.
Unload(o) ==
    LET gone  == {o} \cup {x \in Owners : owner[x] # Nil /\ owner[x].library = o}
        goneK == {k \in Kernels : kernel[k] # Nil /\ kernel[k].owner \in gone}
    IN  /\ Usable(o) /\ owner[o].library = Nil
        /\ \A x \in gone : Usable(x)
        /\ owner' = [x \in Owners |-> IF x \in gone THEN Nil ELSE owner[x]]
        /\ kernel' = [k \in Kernels |-> IF k \in goneK THEN Nil ELSE kernel[k]]
        /\ freed' = freed \cup gone \cup goneK
        /\ UNCHANGED <<registry, cupti, pc, work, sent, early, calls>>

\* The handle the driver returns for a kernel: the one it already has, else a free one.
HandleFor(o, n, how, k) ==
    LET made == {x \in Kernels : kernel[x] # Nil /\ kernel[x].owner = o
                                 /\ kernel[x].name = n /\ (kernel[x].via = "copy") = (how = "copy")}
    IN  IF made = {} THEN kernel[k] = Nil ELSE k \in made

Made(o, n, how) == [owner |-> o, name |-> n, via |-> how]
-----------------------------------------------------------------------------
(* Loading: the six hooks that load a module or a library, and load_code. *)

\* The driver's call has succeeded; the hook calls load_code with the new handle.
HookedLoad(t, o, i) ==
    /\ Call
    /\ pc[t] = "idle" /\ owner[o] = Nil
    /\ owner' = [owner EXCEPT ![o] = [image |-> i, hooked |-> FALSE, library |-> Nil,
                                      reported |-> FALSE]]
    /\ pc' = [pc EXCEPT ![t] = "read"]
    /\ work' = [work EXCEPT ![t] = [NoWork EXCEPT !.owner = o, !.image = i]]
    /\ UNCHANGED <<registry, cupti, sent, early, kernel, freed>>

\* load_code gives up: the file (two hooks pass a path) cannot be read again, or
\* the container is unknown.
GiveUp(t) ==
    /\ pc[t] = "read"
    /\ pc' = [pc EXCEPT ![t] = "idle"]
    /\ work' = [work EXCEPT ![t] = NoWork]
    /\ UNCHANGED <<registry, cupti, sent, early, driver>>

ReadCode(t) ==
    LET code == CodeImage(work[t].image)
    IN  /\ pc[t] = "read" /\ code # Nil
        /\ pc' = [pc EXCEPT ![t] = "capture"]
        /\ work' = [work EXCEPT ![t].code = code, ![t].then = "register"]
        /\ owner' = [owner EXCEPT ![work[t].owner].hooked = TRUE]
        /\ UNCHANGED <<registry, cupti, sent, early, kernel, freed, calls>>

\* Mutant: the result of the insertion is read the wrong way round.
FirstCaptureNegated(t) == work[t].code \in captured

FirstCapture(t) == work[t].code \notin captured

\* capture_code's locked section: only the thread that inserts the id sends it.
Capture(t) ==
    /\ pc[t] = "capture"
    /\ captured' = captured \cup {work[t].code}
    /\ pc' = [pc EXCEPT ![t] = IF FirstCapture(t) THEN "enqueue" ELSE work[t].then]
    /\ UNCHANGED <<idOfHandle, libraryOf, kernelMap, idOfName, cupti, work, sent, early, driver>>

\* sg_enqueue_code: the ring stores the event or drops it.
Enqueue(t) ==
    /\ pc[t] = "enqueue"
    /\ \E outcome \in {"stored", "dropped"} : sent' = [sent EXCEPT ![work[t].code] = outcome]
    /\ pc' = [pc EXCEPT ![t] = work[t].then]
    /\ UNCHANGED <<registry, cupti, work, early, driver>>

RegisterCodeHandle(t) ==
    /\ pc[t] = "register"
    /\ idOfHandle' = [idOfHandle EXCEPT ![work[t].owner] = work[t].code]
    /\ pc' = [pc EXCEPT ![t] = "idle"]
    /\ work' = [work EXCEPT ![t] = NoWork]
    /\ UNCHANGED <<libraryOf, kernelMap, idOfName, captured, cupti, sent, early, driver>>

\* resource_callback: the driver, inside a call of this thread, reports the cubin it
\* made resident: at once for a module, at the first use for a library.
ModuleLoaded(t, o) ==
    /\ cupti = "on"
    /\ owner[o] # Nil /\ owner[o].library = Nil /\ ~owner[o].reported
    /\ \/ pc[t] = "idle" /\ Usable(o)
       \/ pc[t] = "read" /\ work[t].owner = o
    /\ owner' = [owner EXCEPT ![o].reported = TRUE]
    /\ work' = [work EXCEPT ![t].code = Compiled[owner[o].image], ![t].then = "index",
                            ![t].back = pc[t]]
    /\ pc' = [pc EXCEPT ![t] = "capture"]
    /\ UNCHANGED <<registry, cupti, sent, early, kernel, freed, calls>>

\* capture_cubin's second locked section; the last cubin with a name keeps it.
IndexSymbols(t) ==
    /\ pc[t] = "index"
    /\ idOfName' = [n \in Names |-> IF n \in IndexedNames(work[t].code)
                                    THEN work[t].code ELSE idOfName[n]]
    /\ pc' = [pc EXCEPT ![t] = work[t].back]
    /\ work' = [work EXCEPT ![t].code = Nil, ![t].then = "idle", ![t].back = "idle"]
    /\ UNCHANGED <<idOfHandle, libraryOf, kernelMap, captured, cupti, sent, early, driver>>
-----------------------------------------------------------------------------
(* Looking kernels up. *)

\* Mutant: module handles are not translated.
CodeIdByHandle(o) == idOfHandle[o]

\* get_code_id_locked: a module stands for the library it was obtained from.
CodeIdOf(o) == idOfHandle[IF libraryOf[o] # Nil THEN libraryOf[o] ELSE o]

\* The owner's code, else the last cubin with a kernel of that name.
RegisterKernel(k, o, n) ==
    kernelMap' = [kernelMap EXCEPT ![k] =
        [name |-> n, code |-> IF CodeIdOf(o) # Nil THEN CodeIdOf(o) ELSE idOfName[n]]]

MapModuleToLibrary(m, lib) == libraryOf' = [libraryOf EXCEPT ![m] = lib]

\* A kernel without metadata leaves the function's entry alone.
CopyKernelInfo(f, k) ==
    kernelMap' = IF kernelMap[k] = Nil THEN kernelMap
                 ELSE [kernelMap EXCEPT ![f] = kernelMap[k]]

\* cuModuleGetFunction and cuLibraryGetKernel.
GetKernel(t, o, n, k) ==
    /\ Call
    /\ pc[t] = "idle" /\ Usable(o)
    /\ n \in Symbols(owner[o].image) /\ HandleFor(o, n, "get", k)
    /\ kernel' = [kernel EXCEPT ![k] = Made(o, n, "get")]
    /\ RegisterKernel(k, o, n)
    /\ UNCHANGED <<idOfHandle, libraryOf, idOfName, captured, cupti, pc, work, sent, early,
                   owner, freed>>

\* cuLibraryEnumerateKernels returns one handle; the count or the name may fail,
\* and then the handle is not registered.  Several handles are several such steps.
EnumerateKernel(t, o, n, k) ==
    /\ Call
    /\ pc[t] = "idle" /\ Usable(o) /\ owner[o].library = Nil
    /\ n \in Symbols(owner[o].image) /\ HandleFor(o, n, "enumerate", k)
    /\ kernel' = [kernel EXCEPT ![k] = IF kernel[k] = Nil THEN Made(o, n, "enumerate") ELSE @]
    /\ RegisterKernel(k, o, n) \/ UNCHANGED kernelMap
    /\ UNCHANGED <<idOfHandle, libraryOf, idOfName, captured, cupti, pc, work, sent, early,
                   owner, freed>>

\* cuLibraryGetModule.
GetModule(t, lib, m) ==
    /\ Call
    /\ pc[t] = "idle" /\ Usable(lib) /\ owner[lib].library = Nil
    /\ IF \E x \in Owners : owner[x] # Nil /\ owner[x].library = lib
       THEN owner[m] # Nil /\ owner[m].library = lib
       ELSE owner[m] = Nil
    /\ owner' = [owner EXCEPT ![m] = [owner[lib] EXCEPT !.library = lib]]
    /\ MapModuleToLibrary(m, lib)
    /\ UNCHANGED <<idOfHandle, kernelMap, idOfName, captured, cupti, pc, work, sent, early,
                   kernel, freed>>

\* cuKernelGetFunction.
GetFunction(t, k, f) ==
    /\ Call
    /\ pc[t] = "idle" /\ kernel[k] # Nil /\ kernel[k].via # "copy"
    /\ HandleFor(kernel[k].owner, kernel[k].name, "copy", f)
    /\ kernel' = [kernel EXCEPT ![f] = [kernel[k] EXCEPT !.via = "copy"]]
    /\ CopyKernelInfo(f, k)
    /\ UNCHANGED <<idOfHandle, libraryOf, idOfName, captured, cupti, pc, work, sent, early,
                   owner, freed>>

\* get_kernel_info: the code a launch of this handle names.
NamedCode(k) == IF kernelMap[k] = Nil THEN Nil ELSE kernelMap[k].code

\* The event names the code in the kernel's record, whatever the ring did with it.
SendKernelLaunch(k) ==
    early' = (early \/ (NamedCode(k) # Nil /\ sent[NamedCode(k)] # "stored"))

\* The six launch hooks send the event before they ask the driver to launch.
Launch(t, k) ==
    /\ pc[t] = "idle" /\ kernel[k] # Nil
    /\ SendKernelLaunch(k)
    /\ UNCHANGED <<registry, cupti, pc, work, sent, driver>>
-----------------------------------------------------------------------------
Step(t) ==
    \/ \E o \in Owners, i \in Loadable : HookedLoad(t, o, i)
    \/ GiveUp(t) \/ ReadCode(t) \/ Capture(t) \/ Enqueue(t) \/ RegisterCodeHandle(t)
    \/ \E o \in Owners : ModuleLoaded(t, o)
    \/ IndexSymbols(t)
    \/ \E o \in Owners, n \in Names, k \in Kernels :
          GetKernel(t, o, n, k) \/ EnumerateKernel(t, o, n, k)
    \/ \E lib, m \in Owners : GetModule(t, lib, m)
    \/ \E k, f \in Kernels : GetFunction(t, k, f)
    \/ \E k \in Kernels : Launch(t, k)

\* The process goes on without further calls of interest once the bound is reached.
NoCall == calls = MaxCalls /\ UNCHANGED vars

Next ==
    \/ StartCapture \/ StopCapture \/ NoCall
    \/ \E o \in Owners : Unload(o) \/ (\E i \in Loadable : PrivateLoad(o, i))
    \/ \E t \in Threads : Step(t)

Spec == Init /\ [][Next]_vars
-----------------------------------------------------------------------------
(* Properties. *)

\* The latest call that returned the handle registered it, with an owner that
\* load_code knew and no module entry left over from an earlier owner.
FreshlyRegistered(k) ==
    LET o == kernel[k].owner
    IN  kernel[k].via = "get" /\ owner[o].hooked /\ libraryOf[o] \in {Nil, owner[o].library}

\* A launch reports the kernel's own name, and the code its owner was loaded from when
\* a hook saw the load; otherwise no code, or a reported cubin with a kernel of that
\* name.  This holds until the driver reuses a handle, and after it for kernels
\* registered from a fresh owner: the maps are never cleared (get_code_id_locked,
\* register_kernel, copy_kernel_info).
AttributionExact ==
    \A k \in Kernels :
        (kernel[k] # Nil /\ kernelMap[k] # Nil /\ (freed = {} \/ FreshlyRegistered(k))) =>
            LET o == kernel[k].owner
                r == kernelMap[k]
            IN  /\ r.name = kernel[k].name
                /\ owner[o].hooked => r.code = CodeImage(owner[o].image)
                /\ r.code = Nil \/ r.code = CodeImage(owner[o].image)
                      \/ r.name \in IndexedNames(r.code)

Offering(t, i) == pc[t] = "enqueue" /\ work[t].code = i

\* Threads that load the same code race for capture_code's set: an id in it was offered
\* to the ring, or exactly one thread is about to offer it.  No id is offered
\* twice, so code the ring drops stays unsent while the process lives.
OfferedOnce ==
    \A i \in Images :
        /\ i \in captured <=> (sent[i] # "no" \/ \E t \in Threads : Offering(t, i))
        /\ \A t \in Threads : Offering(t, i) =>
              sent[i] = "no" /\ \A u \in Threads : Offering(u, i) => u = t

\* A launch event names code the ring does not hold only if the ring dropped that
\* code, or while another thread is between its insertion into the set and
\* the ring (send_kernel_launch against capture_code).
LaunchFollowsCode ==
    [][early' # early =>
         \E k \in Kernels : LET i == NamedCode(k) IN
            i # Nil /\ (sent[i] = "dropped" \/ \E t \in Threads : Offering(t, i))]_vars
================================================================================
