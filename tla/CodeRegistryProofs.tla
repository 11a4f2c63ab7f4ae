--------------------------- MODULE CodeRegistryProofs ---------------------------
(***************************************************************************)
(* Theorems about CodeRegistry for any number of threads, handles, kernels *)
(* and images.                                                             *)
(*                                                                         *)
(* OfferedOnce is not inductive alone: a thread that is about to insert,   *)
(* send or register an image must hold one, and what the three maps name   *)
(* must already be in the set.  Held and Named say so.                     *)
(*                                                                         *)
(* AttributionExact rests on what the registry's maps say of the driver's  *)
(* present owners (LinkedInv, RegisteredInv, PresentInv, MapsInv), and on  *)
(* where a thread is in a hooked load (WorkInv): no kernel can be looked   *)
(* up in an owner whose load is not over.                                  *)
(***************************************************************************)
EXTENDS CodeRegistry, TLAPS

\* A thread between two steps of a hooked call still has what it works on.
Held ==
    \A t \in Threads :
        /\ pc[t] \in {"capture", "enqueue", "register", "index"} => work[t].code \in Images
        /\ pc[t] \in {"capture", "enqueue"} => work[t].then \in {"register", "index"}
        /\ pc[t] = "read" \/ work[t].back = "read" => work[t].image \in Images
                                                      /\ work[t].owner \in Owners
        /\ work[t].owner \in Owners => owner[work[t].owner] \in Loaded

Shape == TypeOK /\ Held

LEMMA NoWorkType == NoWork \in Work
BY DEF NoWork, Work

LEMMA InitShape == Init => Shape
<1> SUFFICES ASSUME Init PROVE Shape
  OBVIOUS
<1>1. work \in [Threads -> Work]
  BY NoWorkType DEF Init
<1>2. \A t \in Threads : pc[t] = "idle" /\ work[t].back = "idle" /\ work[t].owner = Nil
  BY DEF Init, NoWork
<1>3. Held
  BY <1>2, RegistryAssumption DEF Held
<1>4. /\ kernelMap \in [Kernels -> Record \cup {Nil}] /\ owner \in [Owners -> Loaded \cup {Nil}]
      /\ kernel \in [Kernels -> Kernel \cup {Nil}]
  BY DEF Init
<1>5. early \in BOOLEAN /\ calls \in 0..MaxCalls
  <2>1. MaxCalls \in Nat /\ calls = 0
    BY RegistryAssumption DEF Init
  <2>2. early \in BOOLEAN
    BY Zenon DEF Init
  <2> QED
    BY <2>1, <2>2
<1>6. /\ idOfHandle \in [Owners -> Images \cup {Nil}] /\ libraryOf \in [Owners -> Owners \cup {Nil}]
      /\ idOfName \in [Names -> Images \cup {Nil}] /\ sent \in [Images -> {"no", "stored", "dropped"}]
      /\ captured \subseteq Images /\ freed \subseteq Owners \cup Kernels
      /\ cupti \in {"unset", "on", "off"}
      /\ pc \in [Threads -> {"idle", "read", "capture", "enqueue", "register", "index"}]
  BY DEF Init
<1>7. TypeOK
  BY <1>1, <1>4, <1>5, <1>6 DEF TypeOK
<1> QED
  BY <1>3, <1>7 DEF Shape

\* load_code captures an image.
LEMMA CodeImageType ==
    ASSUME NEW i \in Images
    PROVE  CodeImage(i) \in Images \cup {Nil}
BY RegistryAssumption DEF CodeImage

\* The code id of an owner, and what its kernel's record becomes.
LEMMA RegisterKernelType ==
    ASSUME TypeOK, NEW o \in Owners, NEW n \in Names, NEW k \in Kernels, RegisterKernel(k, o, n)
    PROVE  kernelMap' \in [Kernels -> Record \cup {Nil}]
<1>1. CodeIdOf(o) \in Images \cup {Nil}
  BY RegistryAssumption DEF TypeOK, CodeIdOf
<1> DEFINE r == [name |-> n, code |-> IF CodeIdOf(o) # Nil THEN CodeIdOf(o) ELSE idOfName[n]]
<1>2. r \in Record
  BY <1>1 DEF TypeOK, Record
<1> HIDE DEF r
<1>3. kernelMap' = [kernelMap EXCEPT ![k] = r]
  BY DEF RegisterKernel, r
<1> QED
  BY <1>2, <1>3 DEF TypeOK

LEMMA ShapeStep ==
    ASSUME Shape, [Next]_vars
    PROVE  Shape'
<1> USE DEF Shape
<1>1. CASE UNCHANGED vars
  BY <1>1 DEF TypeOK, Held, vars, registry, driver, Work, Loaded, Record
<1>2. CASE StartCapture \/ StopCapture
  BY <1>2 DEF StartCapture, StopCapture, TypeOK, Held, registry, driver
<1>3. ASSUME NEW o \in Owners, Unload(o)
      PROVE  Shape'
  BY <1>3 DEF Unload, Usable, TypeOK, Held, registry
<1>4. ASSUME NEW o \in Owners, NEW i \in Loadable, PrivateLoad(o, i)
      PROVE  Shape'
  BY <1>4, RegistryAssumption DEF PrivateLoad, Call, TypeOK, Held, registry, Loaded
<1>5. ASSUME NEW t \in Threads, NEW o \in Owners, NEW i \in Loadable, HookedLoad(t, o, i)
      PROVE  Shape'
  <2> DEFINE x == [NoWork EXCEPT !.owner = o, !.image = i]
             l == [image |-> i, hooked |-> FALSE, library |-> Nil, reported |-> FALSE]
  <2>1. x \in Work /\ x.owner = o /\ x.image = i /\ x.back = "idle"
    BY RegistryAssumption DEF NoWork, Work
  <2>2. l \in Loaded
    BY RegistryAssumption DEF Loaded
  <2>3. work' = [work EXCEPT ![t] = x] /\ owner' = [owner EXCEPT ![o] = l]
    BY <1>5 DEF HookedLoad
  <2> HIDE DEF x, l
  <2>4. TypeOK'
    <3>1. work' \in [Threads -> Work] /\ owner' \in [Owners -> Loaded \cup {Nil}]
      BY <2>1, <2>2, <2>3 DEF TypeOK
    <3>2. pc' \in [Threads -> {"idle", "read", "capture", "enqueue", "register", "index"}]
      BY <1>5 DEF HookedLoad, TypeOK
    <3>3. calls' \in 0..MaxCalls
      BY <1>5, RegistryAssumption DEF HookedLoad, Call, TypeOK
    <3> QED
      BY <1>5, <3>1, <3>2, <3>3 DEF HookedLoad, TypeOK, registry
  <2>5. ASSUME NEW u \in Threads
        PROVE  Held!(u)'
    <3>1. CASE u = t
      <4>1. pc'[u] = "read" /\ work'[u] = x /\ owner'[o] = l /\ i \in Images
        BY <1>5, <2>3, <3>1, RegistryAssumption DEF HookedLoad, TypeOK
      <4> QED
        BY <2>1, <2>2, <4>1
    <3>2. CASE u # t
      <4>1. work'[u] = work[u] /\ pc'[u] = pc[u]
        BY <1>5, <2>3, <3>2 DEF HookedLoad, TypeOK
      <4>2. \A p \in Owners : owner[p] \in Loaded => owner'[p] \in Loaded
        BY <2>2, <2>3 DEF TypeOK
      <4> QED
        BY <4>1, <4>2 DEF Held
    <3> QED
      BY <3>1, <3>2
  <2> QED
    BY <2>4, <2>5 DEF Held
<1>6. ASSUME NEW t \in Threads, GiveUp(t)
      PROVE  Shape'
  BY <1>6, RegistryAssumption DEF GiveUp, TypeOK, Held, registry, driver, Work, NoWork
<1>7. ASSUME NEW t \in Threads, ReadCode(t)
      PROVE  Shape'
  <2>1. work[t].image \in Images /\ work[t].owner \in Owners /\ owner[work[t].owner] \in Loaded
    BY <1>7 DEF ReadCode, Held
  <2>2. CodeImage(work[t].image) \in Images
    BY <1>7, <2>1, CodeImageType DEF ReadCode
  <2> DEFINE x == [work[t] EXCEPT !.code = CodeImage(work[t].image), !.then = "register"]
             l == [owner[work[t].owner] EXCEPT !.hooked = TRUE]
  <2>3. /\ x \in Work /\ x.code \in Images /\ x.then = "register"
        /\ x.owner = work[t].owner /\ x.image = work[t].image /\ x.back = work[t].back
    <3>1. work[t] \in Work
      BY DEF TypeOK
    <3> QED
      BY <2>2, <3>1 DEF Work
  <2>4. l \in Loaded
    BY <2>1 DEF Loaded
  <2>5. work' = [work EXCEPT ![t] = x] /\ owner' = [owner EXCEPT ![work[t].owner] = l]
    BY <1>7 DEF ReadCode
  <2> HIDE DEF x, l
  <2>6. TypeOK'
    <3>1. work' \in [Threads -> Work] /\ owner' \in [Owners -> Loaded \cup {Nil}]
      BY <2>3, <2>4, <2>5 DEF TypeOK
    <3>2. pc' \in [Threads -> {"idle", "read", "capture", "enqueue", "register", "index"}]
      BY <1>7 DEF ReadCode, TypeOK
    <3> QED
      BY <1>7, <3>1, <3>2 DEF ReadCode, TypeOK, registry
  <2>7. ASSUME NEW u \in Threads
        PROVE  Held!(u)'
    <3>1. \A p \in Owners : owner[p] \in Loaded => owner'[p] \in Loaded
      BY <2>4, <2>5 DEF TypeOK
    <3>2. CASE u = t
      BY <1>7, <2>1, <2>3, <2>5, <3>1, <3>2 DEF ReadCode, TypeOK, Held
    <3>3. CASE u # t
      <4>1. work'[u] = work[u] /\ pc'[u] = pc[u]
        BY <1>7, <2>5, <3>3 DEF ReadCode, TypeOK
      <4> QED
        BY <3>1, <4>1 DEF Held
    <3> QED
      BY <3>2, <3>3
  <2> QED
    BY <2>6, <2>7 DEF Held
<1>8. ASSUME NEW t \in Threads, Capture(t)
      PROVE  Shape'
  BY <1>8 DEF Capture, TypeOK, Held, driver, Work
<1>9. ASSUME NEW t \in Threads, Enqueue(t)
      PROVE  Shape'
  BY <1>9 DEF Enqueue, TypeOK, Held, registry, driver, Work
<1>10. ASSUME NEW t \in Threads, RegisterCodeHandle(t)
       PROVE  Shape'
  BY <1>10, RegistryAssumption DEF RegisterCodeHandle, TypeOK, Held, driver, Work, NoWork
<1>11. ASSUME NEW t \in Threads, NEW o \in Owners, ModuleLoaded(t, o)
       PROVE  Shape'
  <2>1. owner[o] \in Loaded /\ Compiled[owner[o].image] \in Images /\ pc[t] \in {"idle", "read"}
    BY <1>11, RegistryAssumption DEF ModuleLoaded, TypeOK, Loaded
  <2> DEFINE x == [work[t] EXCEPT !.code = Compiled[owner[o].image], !.then = "index",
                                  !.back = pc[t]]
             l == [owner[o] EXCEPT !.reported = TRUE]
  <2>2. /\ x \in Work /\ x.code \in Images /\ x.then = "index"
        /\ x.owner = work[t].owner /\ x.image = work[t].image /\ x.back = pc[t]
    BY <2>1 DEF TypeOK, Work
  <2>3. l \in Loaded
    BY <2>1 DEF Loaded
  <2>4. work' = [work EXCEPT ![t] = x] /\ owner' = [owner EXCEPT ![o] = l]
    BY <1>11 DEF ModuleLoaded
  <2> HIDE DEF x, l
  <2>5. TypeOK'
    <3>1. work' \in [Threads -> Work] /\ owner' \in [Owners -> Loaded \cup {Nil}]
      BY <2>2, <2>3, <2>4 DEF TypeOK
    <3>2. pc' \in [Threads -> {"idle", "read", "capture", "enqueue", "register", "index"}]
      BY <1>11 DEF ModuleLoaded, TypeOK
    <3> QED
      BY <1>11, <3>1, <3>2 DEF ModuleLoaded, TypeOK, registry
  <2>6. ASSUME NEW u \in Threads
        PROVE  Held!(u)'
    <3>1. \A p \in Owners : owner[p] \in Loaded => owner'[p] \in Loaded
      BY <2>3, <2>4 DEF TypeOK
    <3>2. CASE u = t
      BY <1>11, <2>1, <2>2, <2>4, <3>1, <3>2 DEF ModuleLoaded, TypeOK, Held
    <3>3. CASE u # t
      <4>1. work'[u] = work[u] /\ pc'[u] = pc[u]
        BY <1>11, <2>4, <3>3 DEF ModuleLoaded, TypeOK
      <4> QED
        BY <3>1, <4>1 DEF Held
    <3> QED
      BY <3>2, <3>3
  <2> QED
    BY <2>5, <2>6 DEF Held
<1>12. ASSUME NEW t \in Threads, IndexSymbols(t)
       PROVE  Shape'
  <2> DEFINE x == [work[t] EXCEPT !.code = Nil, !.then = "idle", !.back = "idle"]
  <2>1. /\ x \in Work /\ x.owner = work[t].owner /\ x.image = work[t].image /\ x.back = "idle"
    <3>1. work[t] \in Work
      BY DEF TypeOK
    <3> QED
      BY <3>1 DEF Work
  <2>2. work' = [work EXCEPT ![t] = x] /\ work[t].back \in {"idle", "read"}
    BY <1>12 DEF IndexSymbols, TypeOK, Work
  <2> HIDE DEF x
  <2>3. idOfName' \in [Names -> Images \cup {Nil}]
    BY <1>12 DEF IndexSymbols, TypeOK, Held
  <2>4. TypeOK'
    BY <1>12, <2>1, <2>2, <2>3 DEF IndexSymbols, TypeOK, driver
  <2>5. Held'
    BY <1>12, <2>1, <2>2 DEF IndexSymbols, TypeOK, Held, driver
  <2> QED
    BY <2>4, <2>5
<1>13. ASSUME NEW t \in Threads, NEW o \in Owners, NEW n \in Names, NEW k \in Kernels,
              GetKernel(t, o, n, k) \/ EnumerateKernel(t, o, n, k)
       PROVE  Shape'
  <2>1. kernelMap' \in [Kernels -> Record \cup {Nil}]
    BY <1>13, RegisterKernelType DEF GetKernel, EnumerateKernel, TypeOK
  <2>2. kernel' \in [Kernels -> Kernel \cup {Nil}]
    BY <1>13 DEF GetKernel, EnumerateKernel, TypeOK, Made, Kernel
  <2>3. UNCHANGED <<idOfHandle, libraryOf, idOfName, captured, cupti, pc, work, sent, early,
                    owner, freed>> /\ calls' \in 0..MaxCalls
    BY <1>13, RegistryAssumption DEF GetKernel, EnumerateKernel, Call, TypeOK
  <2> QED
    BY <2>1, <2>2, <2>3 DEF TypeOK, Held
<1>14. ASSUME NEW t \in Threads, NEW lib \in Owners, NEW mod \in Owners, GetModule(t, lib, mod)
       PROVE  Shape'
  <2>1. owner[lib] \in Loaded
    BY <1>14 DEF GetModule, Usable, TypeOK
  <2> QED
    BY <1>14, <2>1, RegistryAssumption
       DEF GetModule, MapModuleToLibrary, Call, TypeOK, Held, Loaded
<1>15. ASSUME NEW t \in Threads, NEW k \in Kernels, NEW f \in Kernels, GetFunction(t, k, f)
       PROVE  Shape'
  <2>1. kernelMap' \in [Kernels -> Record \cup {Nil}]
    BY <1>15 DEF GetFunction, CopyKernelInfo, TypeOK
  <2>2. kernel' \in [Kernels -> Kernel \cup {Nil}]
    BY <1>15 DEF GetFunction, TypeOK, Kernel
  <2>3. UNCHANGED <<idOfHandle, libraryOf, idOfName, captured, cupti, pc, work, sent, early,
                    owner, freed>> /\ calls' \in 0..MaxCalls
    BY <1>15, RegistryAssumption DEF GetFunction, Call, TypeOK
  <2> QED
    BY <2>1, <2>2, <2>3 DEF TypeOK, Held
<1>16. ASSUME NEW t \in Threads, NEW k \in Kernels, Launch(t, k)
       PROVE  Shape'
  <2>1. early' \in BOOLEAN
    BY <1>16, Zenon DEF Launch, SendKernelLaunch, TypeOK
  <2> QED
    BY <1>16, <2>1 DEF Launch, TypeOK, Held, registry, driver
<1> QED
  BY <1>1, <1>2, <1>3, <1>4, <1>5, <1>6, <1>7, <1>8, <1>9, <1>10, <1>11, <1>12, <1>13, <1>14,
     <1>15, <1>16 DEF Next, Step, NoCall

\* Every variable of the registry keeps its type, and a call its arguments.
LEMMA ShapeHolds == Spec => []Shape
<1> QED
  BY InitShape, ShapeStep, PTL DEF Spec

\* Type correctness of the registry, for any number of threads, handles and images.
THEOREM RegistryTypeOK == Spec => []TypeOK
BY ShapeHolds, PTL DEF Shape

-----------------------------------------------------------------------------
(* What the maps name was captured, and each captured image is offered once. *)

Known(i) == i \in captured \cup {Nil}

\* Every code id the registry can hand to a launch is in the set of captured ids.
Named ==
    /\ \A o \in Owners : Known(idOfHandle[o])
    /\ \A n \in Names : Known(idOfName[n])
    /\ \A k \in Kernels : Known(NamedCode(k))
    /\ \A t \in Threads : pc[t] \in {"enqueue", "register", "index"} => work[t].code \in captured

IInv == Shape /\ OfferedOnce /\ Named

\* Steps that leave the set, the ring and the offering threads alone keep OfferedOnce.
LEMMA OfferedOnceKept ==
    ASSUME OfferedOnce, UNCHANGED <<captured, sent>>,
           \A u \in Threads : pc'[u] = "enqueue" <=> pc[u] = "enqueue",
           \A u \in Threads : pc[u] = "enqueue" => work'[u].code = work[u].code
    PROVE  OfferedOnce'
BY DEF OfferedOnce, Offering

LEMMA NamedKept ==
    ASSUME Named, UNCHANGED <<idOfHandle, idOfName, kernelMap, captured>>,
           \A u \in Threads : pc'[u] \in {"enqueue", "register", "index"} =>
                pc[u] \in {"enqueue", "register", "index"} /\ work'[u].code = work[u].code
    PROVE  Named'
BY DEF Named, Known, NamedCode

LEMMA InitIInv == Init => IInv
<1> SUFFICES ASSUME Init PROVE IInv
  OBVIOUS
<1>1. OfferedOnce
  BY DEF Init, OfferedOnce, Offering
<1>2. Named
  BY DEF Init, Named, Known, NamedCode
<1> QED
  BY <1>1, <1>2, InitShape DEF IInv

LEMMA CaptureStep ==
    ASSUME IInv, NEW t \in Threads, Capture(t)
    PROVE  OfferedOnce' /\ Named'
<1> DEFINE c == work[t].code
<1>1. /\ pc \in [Threads -> {"idle", "read", "capture", "enqueue", "register", "index"}]
      /\ work[t].then \in {"register", "index"} /\ c \in Images
      /\ UNCHANGED <<work, sent, idOfHandle, idOfName, kernelMap>>
      /\ captured' = captured \cup {c}
      /\ pc' = [pc EXCEPT ![t] = IF c \notin captured THEN "enqueue" ELSE work[t].then]
      /\ pc[t] = "capture"
  BY DEF IInv, Shape, TypeOK, Held, Capture, FirstCapture
<1>2. Named'
  BY <1>1 DEF IInv, Named, Known, NamedCode
<1>3. ASSUME NEW i \in Images
      PROVE  OfferedOnce!(i)'
  <2>1. /\ i \in captured <=> (sent[i] # "no" \/ \E u \in Threads : Offering(u, i))
        /\ \A u \in Threads : Offering(u, i) =>
              sent[i] = "no" /\ \A v \in Threads : Offering(v, i) => v = u
    BY DEF IInv, OfferedOnce
  <2>2. \A u \in Threads : Offering(u, i)' <=>
            (Offering(u, i) \/ (u = t /\ i = c /\ c \notin captured))
    BY <1>1 DEF Offering
  <2> QED
    BY <1>1, <2>1, <2>2
<1> QED
  BY <1>2, <1>3 DEF OfferedOnce

LEMMA EnqueueStep ==
    ASSUME IInv, NEW t \in Threads, Enqueue(t)
    PROVE  OfferedOnce' /\ Named'
<1> DEFINE c == work[t].code
<1>1. PICK outcome \in {"stored", "dropped"} : sent' = [sent EXCEPT ![c] = outcome]
  BY DEF Enqueue
<1>2. /\ pc \in [Threads -> {"idle", "read", "capture", "enqueue", "register", "index"}]
      /\ work[t].then \in {"register", "index"} /\ c \in Images
      /\ UNCHANGED <<work, captured, idOfHandle, idOfName, kernelMap>>
      /\ pc' = [pc EXCEPT ![t] = work[t].then]
      /\ pc[t] = "enqueue" /\ sent \in [Images -> {"no", "stored", "dropped"}]
  BY DEF IInv, Shape, TypeOK, Held, Enqueue, registry
<1>3. Named'
  BY <1>2, NamedKept DEF IInv
<1>4. ASSUME NEW i \in Images
      PROVE  OfferedOnce!(i)'
  <2>1. /\ i \in captured <=> (sent[i] # "no" \/ \E u \in Threads : Offering(u, i))
        /\ \A u \in Threads : Offering(u, i) =>
              sent[i] = "no" /\ \A v \in Threads : Offering(v, i) => v = u
    BY DEF IInv, OfferedOnce
  <2>2. \A u \in Threads : Offering(u, i)' <=> (Offering(u, i) /\ u # t)
    BY <1>2 DEF Offering
  <2>3. Offering(t, c)
    BY <1>2 DEF Offering
  <2>4. CASE i = c
    <3>1. i \in captured /\ sent'[i] # "no" /\ \A u \in Threads : ~Offering(u, i)'
      BY <1>1, <1>2, <2>1, <2>2, <2>3, <2>4
    <3> QED
      BY <1>2, <3>1
  <2>5. CASE i # c
    <3>1. sent'[i] = sent[i] /\ \A u \in Threads : Offering(u, i)' <=> Offering(u, i)
      BY <1>1, <1>2, <2>2, <2>5 DEF Offering
    <3> QED
      BY <1>2, <2>1, <3>1
  <2> QED
    BY <2>4, <2>5
<1> QED
  BY <1>3, <1>4 DEF OfferedOnce

\* The lookups store what get_code_id_locked, the name map or another record held.
LEMMA LookupStep ==
    ASSUME IInv, NEW t \in Threads, NEW o \in Owners, NEW n \in Names, NEW k \in Kernels,
           GetKernel(t, o, n, k) \/ EnumerateKernel(t, o, n, k)
    PROVE  OfferedOnce' /\ Named'
<1>1. UNCHANGED <<idOfHandle, libraryOf, idOfName, captured, pc, work, sent>>
  BY DEF GetKernel, EnumerateKernel
<1>2. CodeIdOf(o) \in captured \cup {Nil} /\ idOfName[n] \in captured \cup {Nil}
  BY RegistryAssumption DEF IInv, Named, Known, Shape, TypeOK, CodeIdOf
<1>3. kernelMap \in [Kernels -> Record \cup {Nil}]
  BY DEF IInv, Shape, TypeOK
<1> DEFINE r == [name |-> n, code |-> IF CodeIdOf(o) # Nil THEN CodeIdOf(o) ELSE idOfName[n]]
<1>4. r.code \in captured \cup {Nil}
  BY <1>2
<1> HIDE DEF r
<1>5. kernelMap' = [kernelMap EXCEPT ![k] = r] \/ kernelMap' = kernelMap
  BY DEF GetKernel, EnumerateKernel, RegisterKernel, r
<1>6. \A x \in Kernels : NamedCode(x)' \in captured \cup {Nil}
  <2>1. \A x \in Kernels : NamedCode(x) \in captured \cup {Nil}
    BY DEF IInv, Named, Known
  <2> QED
    BY <1>3, <1>4, <1>5, <2>1 DEF NamedCode
<1> QED
  BY <1>1, <1>6, OfferedOnceKept DEF IInv, Named, Known

LEMMA GetFunctionStep ==
    ASSUME IInv, NEW t \in Threads, NEW k \in Kernels, NEW f \in Kernels, GetFunction(t, k, f)
    PROVE  OfferedOnce' /\ Named'
<1>1. UNCHANGED <<idOfHandle, libraryOf, idOfName, captured, pc, work, sent>>
  BY DEF GetFunction
<1>2. \A x \in Kernels : NamedCode(x)' \in captured \cup {Nil}
  <2>1. \A x \in Kernels : NamedCode(x) \in captured \cup {Nil}
    BY DEF IInv, Named, Known
  <2>2. kernelMap \in [Kernels -> Record \cup {Nil}]
    BY DEF IInv, Shape, TypeOK
  <2>3. kernelMap' = kernelMap \/ kernelMap' = [kernelMap EXCEPT ![f] = kernelMap[k]]
    BY DEF GetFunction, CopyKernelInfo
  <2> QED
    BY <2>1, <2>2, <2>3 DEF NamedCode
<1> QED
  BY <1>1, <1>2, OfferedOnceKept DEF IInv, Named, Known

LEMMA IInvStep ==
    ASSUME IInv, [Next]_vars
    PROVE  IInv'
<1>1. Shape'
  BY ShapeStep DEF IInv
<1>2. /\ pc \in [Threads -> {"idle", "read", "capture", "enqueue", "register", "index"}]
      /\ work \in [Threads -> Work] /\ idOfHandle \in [Owners -> Images \cup {Nil}]
  BY DEF IInv, Shape, TypeOK
<1>3. OfferedOnce /\ Named
  BY DEF IInv
<1>4. ASSUME UNCHANGED <<registry, sent, pc, work>>
      PROVE  OfferedOnce' /\ Named'
  BY <1>3, <1>4, OfferedOnceKept, NamedKept DEF registry
<1>5. ASSUME NEW t \in Threads, NEW o \in Owners, NEW i \in Loadable, HookedLoad(t, o, i)
      PROVE  OfferedOnce' /\ Named'
  BY <1>2, <1>3, <1>5, OfferedOnceKept, NamedKept DEF HookedLoad, registry
<1>6. ASSUME NEW t \in Threads, GiveUp(t) \/ ReadCode(t)
      PROVE  OfferedOnce' /\ Named'
  BY <1>2, <1>3, <1>6, OfferedOnceKept, NamedKept DEF GiveUp, ReadCode, registry
<1>7. ASSUME NEW t \in Threads, RegisterCodeHandle(t)
      PROVE  OfferedOnce' /\ Named'
  <2>1. OfferedOnce'
    BY <1>2, <1>3, <1>7, OfferedOnceKept DEF RegisterCodeHandle
  <2>2. work[t].code \in captured
    BY <1>3, <1>7 DEF RegisterCodeHandle, Named
  <2>3. Named'
    BY <1>2, <1>3, <1>7, <2>2 DEF RegisterCodeHandle, Named, Known, NamedCode
  <2> QED
    BY <2>1, <2>3
<1>8. ASSUME NEW t \in Threads, NEW o \in Owners, ModuleLoaded(t, o)
      PROVE  OfferedOnce' /\ Named'
  BY <1>2, <1>3, <1>8, OfferedOnceKept, NamedKept DEF ModuleLoaded, registry
<1>9. ASSUME NEW t \in Threads, IndexSymbols(t)
      PROVE  OfferedOnce' /\ Named'
  <2>1. work[t].code \in captured /\ work[t].back \in {"idle", "read"}
    BY <1>2, <1>3, <1>9 DEF IndexSymbols, Named, Work
  <2>2. OfferedOnce'
    BY <1>2, <1>3, <1>9, <2>1, OfferedOnceKept DEF IndexSymbols
  <2>3. Named'
    BY <1>2, <1>3, <1>9, <2>1 DEF IndexSymbols, Named, Known, NamedCode
  <2> QED
    BY <2>2, <2>3
<1>10. ASSUME NEW t \in Threads, NEW lib \in Owners, NEW mod \in Owners, GetModule(t, lib, mod)
       PROVE  OfferedOnce' /\ Named'
  BY <1>3, <1>10, OfferedOnceKept, NamedKept DEF GetModule
<1>11. ASSUME NEW t \in Threads, NEW k \in Kernels, Launch(t, k)
       PROVE  OfferedOnce' /\ Named'
  BY <1>4, <1>11 DEF Launch
<1>12. ASSUME StartCapture \/ StopCapture \/ NoCall \/ UNCHANGED vars
       PROVE  OfferedOnce' /\ Named'
  BY <1>4, <1>12 DEF StartCapture, StopCapture, NoCall, vars
<1>13. ASSUME NEW o \in Owners, Unload(o) \/ \E i \in Loadable : PrivateLoad(o, i)
       PROVE  OfferedOnce' /\ Named'
  BY <1>4, <1>13 DEF Unload, PrivateLoad
<1>14. OfferedOnce' /\ Named'
  BY <1>5, <1>6, <1>7, <1>8, <1>9, <1>10, <1>11, <1>12, <1>13, CaptureStep, EnqueueStep,
     LookupStep, GetFunctionStep DEF Next, Step
<1> QED
  BY <1>1, <1>14 DEF IInv

LEMMA IInvHolds == Spec => []IInv
BY InitIInv, IInvStep, PTL DEF Spec

\* However many threads load the same code at once, its event is offered to the ring once
\* (capture_code).
THEOREM OfferedOnceHolds == Spec => []OfferedOnce
BY IInvHolds, PTL DEF IInv

\* A launch event names code the ring lacks only if the ring dropped it or another thread is
\* still on its way to the ring (send_kernel_launch against capture_code).
THEOREM LaunchFollowsCodeHolds == Spec => LaunchFollowsCode
<1> DEFINE A == early' # early =>
                  \E k \in Kernels : LET i == NamedCode(k) IN
                    i # Nil /\ (sent[i] = "dropped" \/ \E t \in Threads : Offering(t, i))
<1>1. ASSUME IInv, [Next]_vars
      PROVE  [A]_vars
  <2>1. SUFFICES ASSUME early' # early
                 PROVE  \E k \in Kernels : LET i == NamedCode(k) IN
                          i # Nil /\ (sent[i] = "dropped" \/ \E t \in Threads : Offering(t, i))
    OBVIOUS
  <2>2. PICK t \in Threads, k \in Kernels : Launch(t, k)
    <3>1. ~UNCHANGED vars /\ ~StartCapture /\ ~StopCapture /\ ~NoCall
      BY <2>1, Zenon DEF vars, StartCapture, StopCapture, NoCall
    <3>2. \A o \in Owners : ~Unload(o) /\ \A i \in Loadable : ~PrivateLoad(o, i)
      BY <2>1, Zenon DEF Unload, PrivateLoad
    <3>3. \A t \in Threads : /\ \A o \in Owners, i \in Loadable : ~HookedLoad(t, o, i)
                             /\ ~GiveUp(t) /\ ~ReadCode(t) /\ ~Capture(t) /\ ~Enqueue(t)
                             /\ ~RegisterCodeHandle(t) /\ ~IndexSymbols(t)
      BY <2>1, Zenon DEF HookedLoad, GiveUp, ReadCode, Capture, Enqueue, RegisterCodeHandle, IndexSymbols
    <3>4. \A t \in Threads, o \in Owners : ~ModuleLoaded(t, o) /\ \A m \in Owners : ~GetModule(t, o, m)
      BY <2>1, Zenon DEF ModuleLoaded, GetModule
    <3>6. \A t \in Threads, o \in Owners, n \in Names, k \in Kernels :
             ~GetKernel(t, o, n, k) /\ ~EnumerateKernel(t, o, n, k)
      <4>1. ASSUME NEW t \in Threads, NEW o \in Owners, NEW n \in Names, NEW k \in Kernels,
                   GetKernel(t, o, n, k) \/ EnumerateKernel(t, o, n, k)
            PROVE  UNCHANGED early
        BY <4>1, SMT DEF GetKernel, EnumerateKernel
      <4> QED
        BY <2>1, <4>1, Zenon
    <3>5. \A t \in Threads : \A k, f \in Kernels : ~GetFunction(t, k, f)
      BY <2>1, Zenon DEF GetFunction
    <3> QED
      BY <1>1, <3>1, <3>2, <3>3, <3>4, <3>5, <3>6 DEF Next, Step
  <2> DEFINE i == NamedCode(k)
  <2>3. i # Nil /\ sent[i] # "stored"
    <3>1. early' = (early \/ (i # Nil /\ sent[i] # "stored"))
      BY <2>2, Zenon DEF Launch, SendKernelLaunch
    <3>2. CASE i # Nil /\ sent[i] # "stored"
      BY <3>2
    <3>3. CASE ~(i # Nil /\ sent[i] # "stored")
      <4>1. early \in BOOLEAN
        BY <1>1 DEF IInv, Shape, TypeOK
      <4> HIDE DEF i
      <4>2. early' = early
        BY <3>1, <3>3, <4>1, Zenon
      <4> QED
        BY <2>1, <4>2
    <3> QED
      BY <3>2, <3>3
  <2>4. i \in captured /\ i \in Images /\ sent[i] \in {"no", "stored", "dropped"}
    BY <1>1, <2>3 DEF IInv, Named, Known, Shape, TypeOK
  <2>5. sent[i] = "dropped" \/ \E u \in Threads : Offering(u, i)
    BY <1>1, <2>3, <2>4 DEF IInv, OfferedOnce
  <2> QED
    BY <2>3, <2>5
<1> QED
  BY <1>1, IInvHolds, PTL DEF LaunchFollowsCode, Spec
-----------------------------------------------------------------------------
(* What a launch says about its kernel: the owner's code, or code with its   *)
(* kernel's name.                                                            *)

Live(o) == owner[o] # Nil

\* A module obtained from a library stands for it, and the registry knows.
LinkedInv ==
    \A o \in Owners : Live(o) /\ owner[o].library # Nil =>
        LET lib == owner[o].library
        IN  /\ Usable(o) /\ Usable(lib) /\ owner[lib].library = Nil
            /\ owner[lib].image = owner[o].image /\ owner[lib].hooked = owner[o].hooked
            /\ libraryOf[o] = lib

\* A hooked load that is over left its code under its handle.
RegisteredInv ==
    \A o \in Owners : Usable(o) /\ owner[o].hooked /\ owner[o].library = Nil =>
        CodeImage(owner[o].image) # Nil /\ idOfHandle[o] = CodeImage(owner[o].image)

\* An entry of a handle that was never freed is about its present owner.
PresentInv ==
    \A o \in Owners :
        /\ idOfHandle[o] # Nil => o \in freed \/ (Live(o) /\ owner[o].hooked)
        /\ libraryOf[o] # Nil => o \in freed \/ (Live(o) /\ owner[o].library = libraryOf[o])

Registering(t) ==
    pc[t] = "register" \/ (pc[t] \in {"capture", "enqueue"} /\ work[t].then = "register")
Reporting(t) ==
    pc[t] = "index" \/ (pc[t] \in {"capture", "enqueue"} /\ work[t].then = "index")

\* Where a thread is in a hooked load, or in a callback outside of one or inside one.
Place(t) ==
    /\ pc[t] = "idle" \/ (Reporting(t) /\ work[t].back = "idle") => work[t].owner = Nil
    /\ pc[t] = "read" \/ (Reporting(t) /\ work[t].back = "read") =>
          work[t].owner \in Owners /\ ~owner[work[t].owner].hooked
    /\ Registering(t) => /\ work[t].owner \in Owners /\ owner[work[t].owner].hooked
                         /\ work[t].code = CodeImage(work[t].image) /\ work[t].code # Nil
    /\ work[t].owner # Nil => /\ Live(work[t].owner) /\ owner[work[t].owner].library = Nil
                              /\ owner[work[t].owner].image = work[t].image

\* No two threads load into one owner.
Alone ==
    \A t, u \in Threads : work[t].owner # Nil /\ work[u].owner = work[t].owner => u = t

WorkInv == Alone /\ \A t \in Threads : Place(t)

\* A kernel's owner is loaded, its record is not of a handle that never was, and a name
\* leads to a cubin that has it.
MapsInv ==
    /\ \A k \in Kernels : kernel[k] # Nil => Usable(kernel[k].owner)
    /\ \A k \in Kernels : kernelMap[k] # Nil => k \in freed \/ kernel[k] # Nil
    /\ \A n \in Names : idOfName[n] = Nil \/ n \in IndexedNames(idOfName[n])

AttrInv == LinkedInv /\ RegisteredInv /\ PresentInv /\ WorkInv /\ MapsInv /\ AttributionExact

\* The owners, what threads do with them, and the maps as they were: nothing to show.
LEMMA AttrKept ==
    ASSUME AttrInv, UNCHANGED <<registry, pc, work, owner, kernel, freed>>
    PROVE  AttrInv'
BY DEF AttrInv, LinkedInv, RegisteredInv, PresentInv, WorkInv, MapsInv, AttributionExact,
       Alone, Place, FreshlyRegistered, Usable, Live, Registering, Reporting, registry

LEMMA InitAttr == Init => AttrInv
<1> SUFFICES ASSUME Init PROVE AttrInv
  OBVIOUS
<1>1. \A t \in Threads : pc[t] = "idle" /\ work[t].owner = Nil /\ work[t].back = "idle"
  BY DEF Init, NoWork
<1> QED
  BY <1>1 DEF Init, AttrInv, LinkedInv, RegisteredInv, PresentInv, WorkInv, MapsInv,
              AttributionExact, Alone, Place, Usable, Live, Registering, Reporting

LEMMA LoadedNotNil == Nil \notin Loaded /\ Nil \notin Record
BY NilAssumption

\* A kernel is one of a loaded owner that no thread is still loading.
LEMMA KernelOwner ==
    ASSUME Shape, AttrInv, NEW k \in Kernels, kernel[k] # Nil
    PROVE  kernel[k] \in Kernel /\ kernel[k].owner \in Owners /\ Usable(kernel[k].owner)
<1>1. kernel[k] \in Kernel
  BY DEF Shape, TypeOK
<1> QED
  BY <1>1 DEF Kernel, AttrInv, MapsInv

\* A thread that does not move keeps its place while its owner stays as it was.
LEMMA PlaceKept ==
    ASSUME NEW t \in Threads, Place(t), work[t] \in Work, pc'[t] = pc[t], work'[t] = work[t],
           work[t].owner # Nil =>
               /\ owner'[work[t].owner].image = owner[work[t].owner].image
               /\ owner'[work[t].owner].hooked = owner[work[t].owner].hooked
               /\ owner'[work[t].owner].library = owner[work[t].owner].library
               /\ Live(work[t].owner)'
    PROVE  Place(t)'
<1>1. work[t].owner \in Owners \cup {Nil} /\ Nil \notin Owners
  BY RegistryAssumption DEF Work
<1>2. (Registering(t)' <=> Registering(t)) /\ (Reporting(t)' <=> Reporting(t))
  BY DEF Registering, Reporting
<1> QED
  BY <1>1, <1>2 DEF Place

\* The owners as they were, and as usable as they were.
LEMMA OwnersKept ==
    ASSUME Shape, LinkedInv, RegisteredInv, PresentInv,
           UNCHANGED <<idOfHandle, libraryOf, owner, freed>>,
           \A o \in Owners : Usable(o)' <=> Usable(o)
    PROVE  LinkedInv' /\ RegisteredInv' /\ PresentInv'
<1>1. \A o \in Owners : Live(o)' <=> Live(o)
  BY DEF Live
<1>2. LinkedInv'
  <2>1. \A o \in Owners : Live(o) => owner[o].library \in Owners \cup {Nil}
    BY DEF Shape, TypeOK, Live, Loaded
  <2> QED
    BY <1>1, <2>1 DEF LinkedInv
<1> QED
  BY <1>1, <1>2 DEF RegisteredInv, PresentInv

\* No kernel was looked up, and the owners stay usable.
LEMMA MapsKept ==
    ASSUME Shape, MapsInv, AttributionExact,
           UNCHANGED <<libraryOf, kernelMap, idOfName, owner, kernel, freed>>,
           \A o \in Owners : Usable(o) => Usable(o)'
    PROVE  MapsInv' /\ AttributionExact'
<1>1. AttributionExact'
  BY DEF AttributionExact, FreshlyRegistered
<1>2. \A k \in Kernels : kernel[k] # Nil => kernel[k].owner \in Owners
  BY DEF Shape, TypeOK, Kernel
<1> QED
  BY <1>1, <1>2 DEF MapsInv

LEMMA PrivateLoadAttr ==
    ASSUME Shape, AttrInv, NEW o \in Owners, NEW i \in Loadable, PrivateLoad(o, i)
    PROVE  AttrInv'
<1> DEFINE l == [image |-> i, hooked |-> FALSE, library |-> Nil, reported |-> FALSE]
<1>1. l.image = i /\ ~l.hooked /\ l.library = Nil /\ l # Nil /\ l \in Loaded
  <2>1. l \in Loaded
    BY RegistryAssumption DEF Loaded
  <2> QED
    BY <2>1, LoadedNotNil
<1>2. owner' = [owner EXCEPT ![o] = l] /\ owner[o] = Nil
  BY DEF PrivateLoad
<1> HIDE DEF l
<1>3. UNCHANGED <<idOfHandle, libraryOf, kernelMap, idOfName, pc, work, kernel, freed>>
  BY DEF PrivateLoad, registry
<1>4. owner \in [Owners -> Loaded \cup {Nil}]
  BY DEF Shape, TypeOK
<1>5. \A x \in Owners : x # o => owner'[x] = owner[x] /\ (Usable(x)' <=> Usable(x))
  BY <1>2, <1>3, <1>4 DEF Usable
<1>6. owner'[o] = l
  BY <1>2, <1>4
<1>7. \A t \in Threads : work[t].owner # Nil => work[t].owner \in Owners /\ work[t].owner # o
  BY <1>2 DEF AttrInv, WorkInv, Place, Live, Shape, TypeOK, Work
<1>8. LinkedInv'
  BY <1>1, <1>2, <1>3, <1>4, <1>5, <1>6 DEF AttrInv, LinkedInv, Live, Usable, Loaded
<1>9. RegisteredInv' /\ PresentInv'
  BY <1>1, <1>2, <1>3, <1>5, <1>6 DEF AttrInv, RegisteredInv, PresentInv, Live
<1>10. WorkInv'
  <2>1. ASSUME NEW t \in Threads, work[t].owner # Nil
        PROVE  Live(work[t].owner)'
    <3>1. Live(work[t].owner)
      BY <2>1 DEF AttrInv, WorkInv, Place
    <3> QED
      BY <1>3, <1>5, <1>7, <2>1, <3>1 DEF Live
  <2>2. \A t \in Threads : Place(t)'
    BY <1>3, <1>5, <1>7, <2>1, PlaceKept DEF AttrInv, WorkInv, Shape, TypeOK
  <2> QED
    BY <1>3, <2>2 DEF AttrInv, WorkInv, Alone
<1>11. \A k \in Kernels : kernel[k] # Nil => kernel[k].owner \in Owners /\ kernel[k].owner # o
  BY <1>2, KernelOwner DEF Usable
<1>12. MapsInv' /\ AttributionExact'
  BY <1>3, <1>5, <1>11 DEF AttrInv, MapsInv, AttributionExact, FreshlyRegistered
<1> QED
  BY <1>8, <1>9, <1>10, <1>12 DEF AttrInv

LEMMA HookedLoadAttr ==
    ASSUME Shape, AttrInv, NEW t \in Threads, NEW o \in Owners, NEW i \in Loadable,
           HookedLoad(t, o, i)
    PROVE  AttrInv'
<1> DEFINE l == [image |-> i, hooked |-> FALSE, library |-> Nil, reported |-> FALSE]
           x == [NoWork EXCEPT !.owner = o, !.image = i]
<1>1. l.image = i /\ ~l.hooked /\ l.library = Nil /\ l # Nil
  <2>1. l \in Loaded
    BY RegistryAssumption DEF Loaded
  <2> QED
    BY <2>1, LoadedNotNil
<1>2. owner' = [owner EXCEPT ![o] = l] /\ owner[o] = Nil
  BY DEF HookedLoad
<1>3. x.owner = o /\ x.image = i /\ x.back = "idle" /\ o # Nil
  BY RegistryAssumption DEF NoWork
<1>4. work' = [work EXCEPT ![t] = x] /\ pc' = [pc EXCEPT ![t] = "read"] /\ pc[t] = "idle"
  BY DEF HookedLoad
<1> HIDE DEF l, x
<1>5. UNCHANGED <<idOfHandle, libraryOf, kernelMap, idOfName, kernel, freed>>
  BY DEF HookedLoad, registry
<1>6. owner \in [Owners -> Loaded \cup {Nil}] /\ work \in [Threads -> Work]
      /\ pc \in [Threads -> {"idle", "read", "capture", "enqueue", "register", "index"}]
  BY DEF Shape, TypeOK
<1>7. work[t].owner = Nil
  BY <1>4 DEF AttrInv, WorkInv, Place
<1>8. \A p \in Owners : p # o => owner'[p] = owner[p] /\ (Usable(p)' <=> Usable(p))
  BY <1>2, <1>3, <1>4, <1>6, <1>7, RegistryAssumption DEF Usable
<1>9. owner'[o] = l /\ ~Usable(o)'
  BY <1>2, <1>3, <1>4, <1>6 DEF Usable
<1>10. \A u \in Threads : work[u].owner # Nil => work[u].owner \in Owners /\ work[u].owner # o
  BY <1>2, <1>6 DEF AttrInv, WorkInv, Place, Live, Work
<1>11. LinkedInv'
  <2>1. \A p \in Owners : Usable(p) => p # o
    BY <1>2 DEF Usable
  <2> QED
    BY <1>1, <1>5, <1>6, <1>8, <1>9, <2>1 DEF AttrInv, LinkedInv, Live, Loaded
<1>12. RegisteredInv' /\ PresentInv'
  BY <1>1, <1>2, <1>5, <1>8, <1>9 DEF AttrInv, RegisteredInv, PresentInv, Live
<1>13. \A u \in Threads : Place(u)'
  <2>1. ASSUME NEW u \in Threads, u # t
        PROVE  Place(u)'
    <3>1. pc'[u] = pc[u] /\ work'[u] = work[u] /\ Place(u)
      BY <1>4, <1>6, <2>1 DEF AttrInv, WorkInv
    <3>2. work[u].owner # Nil => Live(work[u].owner)'
      BY <1>8, <1>10, <3>1 DEF Place, Live
    <3> QED
      BY <1>6, <1>8, <1>10, <3>1, <3>2, PlaceKept
  <2>2. Place(t)'
    BY <1>1, <1>3, <1>4, <1>6, <1>9 DEF Place, Live, Registering, Reporting
  <2> QED
    BY <2>1, <2>2
<1>14. Alone'
  BY <1>3, <1>4, <1>6, <1>10 DEF AttrInv, WorkInv, Alone
<1>15. \A k \in Kernels : kernel[k] # Nil => kernel[k].owner \in Owners /\ kernel[k].owner # o
  BY <1>2, KernelOwner DEF Usable
<1>16. MapsInv' /\ AttributionExact'
  BY <1>5, <1>8, <1>15 DEF AttrInv, MapsInv, AttributionExact, FreshlyRegistered
<1> QED
  BY <1>11, <1>12, <1>13, <1>14, <1>16 DEF AttrInv, WorkInv

\* A load that gives up leaves an owner without a hook; one that registers leaves its code.
LEMMA LoadEndsAttr ==
    ASSUME Shape, AttrInv, NEW t \in Threads, GiveUp(t) \/ RegisterCodeHandle(t)
    PROVE  AttrInv'
<1>0. PICK o \in Owners \cup {Nil} : o = work[t].owner
  BY DEF Shape, TypeOK, Work
<1>1. /\ UNCHANGED <<libraryOf, kernelMap, idOfName, owner, kernel, freed>>
      /\ pc' = [pc EXCEPT ![t] = "idle"] /\ work' = [work EXCEPT ![t] = NoWork]
  BY DEF GiveUp, RegisterCodeHandle, registry, driver
<1>2. NoWork.owner = Nil /\ NoWork.back = "idle"
  BY DEF NoWork
<1>3. /\ work \in [Threads -> Work] /\ idOfHandle \in [Owners -> Images \cup {Nil}]
      /\ pc \in [Threads -> {"idle", "read", "capture", "enqueue", "register", "index"}]
  BY DEF Shape, TypeOK
<1>4. /\ o \in Owners /\ o # Nil /\ Live(o) /\ owner[o].library = Nil
      /\ owner[o].image = work[t].image
      /\ \A u \in Threads : work[u].owner = o => u = t
  <2>1. Place(t) /\ Alone
    BY DEF AttrInv, WorkInv
  <2>2. pc[t] = "read" \/ Registering(t)
    BY DEF GiveUp, RegisterCodeHandle, Registering
  <2>3. o \in Owners /\ o # Nil
    BY <1>0, <2>1, <2>2, RegistryAssumption DEF Place
  <2> QED
    BY <1>0, <2>1, <2>3 DEF Place, Alone
<1>5. ~Usable(o) /\ Usable(o)' /\ \A p \in Owners : p # o => (Usable(p)' <=> Usable(p))
  <2>1. ~Usable(o)
    BY <1>0 DEF Usable
  <2>2. \A u \in Threads : work'[u] = IF u = t THEN NoWork ELSE work[u]
    BY <1>1, <1>3
  <2>3. Nil \notin Owners
    BY RegistryAssumption
  <2>4. Usable(o)'
    BY <1>1, <1>2, <1>4, <2>2, <2>3 DEF Usable, Live
  <2>5. ASSUME NEW p \in Owners, p # o
        PROVE  Usable(p)' <=> Usable(p)
    <3>1. \A u \in Threads : work'[u].owner = p <=> work[u].owner = p
      BY <1>0, <1>2, <2>2, <2>3, <2>5
    <3> QED
      BY <1>1, <3>1 DEF Usable
  <2> QED
    BY <2>1, <2>4, <2>5
<1>6. /\ \A p \in Owners : p # o => idOfHandle'[p] = idOfHandle[p]
      /\ owner[o].hooked => /\ CodeImage(owner[o].image) # Nil
                            /\ idOfHandle'[o] = CodeImage(owner[o].image)
      /\ ~owner[o].hooked => idOfHandle'[o] = idOfHandle[o]
  <2>1. Place(t)
    BY DEF AttrInv, WorkInv
  <2>2. ASSUME GiveUp(t)
        PROVE  idOfHandle' = idOfHandle /\ ~owner[o].hooked
    BY <1>0, <2>1, <2>2 DEF GiveUp, registry, Place
  <2>3. ASSUME RegisterCodeHandle(t)
        PROVE  /\ idOfHandle' = [idOfHandle EXCEPT ![o] = CodeImage(owner[o].image)]
               /\ CodeImage(owner[o].image) # Nil /\ owner[o].hooked
    BY <1>0, <1>4, <2>1, <2>3 DEF RegisterCodeHandle, Place, Registering
  <2> QED
    BY <1>3, <1>4, <2>2, <2>3
<1>7. LinkedInv'
  <2>1. \A p \in Owners : Live(p) /\ owner[p].library # Nil =>
           Usable(p) /\ Usable(owner[p].library)'
    BY <1>1, <1>2, <1>3, RegistryAssumption DEF AttrInv, LinkedInv, Usable
  <2> QED
    BY <1>1, <1>5, <2>1 DEF AttrInv, LinkedInv, Live
<1>8. RegisteredInv'
  BY <1>1, <1>5, <1>6 DEF AttrInv, RegisteredInv
<1>9. PresentInv'
  BY <1>1, <1>4, <1>6 DEF AttrInv, PresentInv, Live
<1>10. WorkInv'
  <2>1. ASSUME NEW u \in Threads, u # t
        PROVE  Place(u)'
    <3>1. pc'[u] = pc[u] /\ work'[u] = work[u] /\ Place(u)
      BY <1>1, <1>3, <2>1 DEF AttrInv, WorkInv
    <3> QED
      BY <1>1, <1>3, <3>1, PlaceKept DEF Place, Live
  <2>2. Place(t)'
    BY <1>1, <1>2, <1>3 DEF Place, Registering, Reporting
  <2>3. Alone'
    BY <1>1, <1>2, <1>3 DEF AttrInv, WorkInv, Alone
  <2> QED
    BY <2>1, <2>2, <2>3 DEF WorkInv
<1>11. \A p \in Owners : Usable(p) => Usable(p)'
  BY <1>5
<1> QED
  BY <1>1, <1>7, <1>8, <1>9, <1>10, <1>11, MapsKept DEF AttrInv

\* Inserting and sending an event move the thread and nothing these invariants speak of.
LEMMA SendCodeAttr ==
    ASSUME Shape, AttrInv, NEW t \in Threads, Capture(t) \/ Enqueue(t)
    PROVE  AttrInv'
<1>1. UNCHANGED <<idOfHandle, libraryOf, kernelMap, idOfName, work, owner, kernel, freed>>
  BY DEF Capture, Enqueue, registry, driver
<1>2. /\ pc[t] \in {"capture", "enqueue"}
      /\ pc' = [pc EXCEPT ![t] = "enqueue"] \/ pc' = [pc EXCEPT ![t] = work[t].then]
      /\ work[t].then \in {"register", "index"}
  BY DEF Capture, Enqueue, Shape, Held
<1>3. /\ pc \in [Threads -> {"idle", "read", "capture", "enqueue", "register", "index"}]
      /\ work \in [Threads -> Work]
  BY DEF Shape, TypeOK
<1>4. \A p \in Owners : Usable(p)' <=> Usable(p)
  BY <1>1 DEF Usable
<1>5. LinkedInv' /\ RegisteredInv' /\ PresentInv'
  BY <1>1, <1>4, OwnersKept DEF AttrInv
<1>6. \A u \in Threads : Place(u)'
  <2>1. ASSUME NEW u \in Threads, u # t
        PROVE  Place(u)'
    <3>1. pc'[u] = pc[u] /\ work'[u] = work[u] /\ Place(u)
      BY <1>1, <1>2, <1>3, <2>1 DEF AttrInv, WorkInv
    <3> QED
      BY <1>1, <1>3, <3>1, PlaceKept DEF Place, Live
  <2>2. Place(t)'
    <3>1. Place(t)
      BY DEF AttrInv, WorkInv
    <3>2. (Registering(t)' <=> Registering(t)) /\ (Reporting(t)' <=> Reporting(t))
      BY <1>1, <1>2, <1>3 DEF Registering, Reporting
    <3>3. pc'[t] \notin {"idle", "read"}
      BY <1>2, <1>3
    <3> QED
      BY <1>1, <3>1, <3>2, <3>3 DEF Place, Live
  <2> QED
    BY <2>1, <2>2
<1>7. Alone'
  BY <1>1 DEF AttrInv, WorkInv, Alone
<1> QED
  BY <1>1, <1>4, <1>5, <1>6, <1>7, MapsKept DEF AttrInv, WorkInv

\* load_code has recognised the container: from here on the load counts as hooked.
LEMMA ReadCodeAttr ==
    ASSUME Shape, AttrInv, NEW t \in Threads, ReadCode(t)
    PROVE  AttrInv'
<1>0. PICK o \in Owners \cup {Nil} : o = work[t].owner
  BY DEF Shape, TypeOK, Work
<1>1. PICK code \in Images \cup {Nil} : code = CodeImage(work[t].image)
  BY CodeImageType DEF Shape, Held, ReadCode
<1> DEFINE x == [work[t] EXCEPT !.code = code, !.then = "register"]
           l == [owner[o] EXCEPT !.hooked = TRUE]
<1>2. Place(t) /\ Alone /\ pc[t] = "read" /\ code # Nil
  BY <1>1 DEF AttrInv, WorkInv, ReadCode
<1>3. /\ o \in Owners /\ o # Nil /\ owner[o] \in Loaded /\ Live(o) /\ owner[o].library = Nil
      /\ owner[o].image = work[t].image /\ ~owner[o].hooked
      /\ \A u \in Threads : work[u].owner = o => u = t
  <2>1. o \in Owners /\ o # Nil
    BY <1>0, <1>2, RegistryAssumption DEF Place
  <2> QED
    BY <1>0, <1>2, <2>1 DEF Place, Alone, Shape, Held
<1>4. /\ x.owner = o /\ x.image = work[t].image /\ x.code = code /\ x.then = "register"
      /\ x.back = work[t].back
  <2>1. work[t] \in Work
    BY DEF Shape, TypeOK
  <2> QED
    BY <1>0, <2>1 DEF Work
<1>5. l.image = owner[o].image /\ l.hooked /\ l.library = Nil /\ l # Nil
  <2>1. l \in Loaded /\ l.image = owner[o].image /\ l.hooked /\ l.library = Nil
    BY <1>3 DEF Loaded
  <2> QED
    BY <2>1, LoadedNotNil
<1>6. /\ work' = [work EXCEPT ![t] = x] /\ owner' = [owner EXCEPT ![o] = l]
      /\ pc' = [pc EXCEPT ![t] = "capture"]
  BY <1>0, <1>1 DEF ReadCode
<1> HIDE DEF x, l
<1>7. UNCHANGED <<idOfHandle, libraryOf, kernelMap, idOfName, kernel, freed>>
  BY DEF ReadCode, registry
<1>8. /\ pc \in [Threads -> {"idle", "read", "capture", "enqueue", "register", "index"}]
      /\ work \in [Threads -> Work] /\ owner \in [Owners -> Loaded \cup {Nil}]
  BY DEF Shape, TypeOK
<1>9. ~Usable(o) /\ ~Usable(o)'
  BY <1>0, <1>4, <1>6, <1>8 DEF Usable
<1>10. \A p \in Owners : p # o => owner'[p] = owner[p] /\ (Usable(p)' <=> Usable(p))
  <2>1. \A u \in Threads : work'[u].owner = work[u].owner
    BY <1>0, <1>4, <1>6, <1>8
  <2> QED
    BY <1>6, <1>8, <2>1 DEF Usable
<1>11. LinkedInv'
  <2>1. \A p \in Owners : Live(p) /\ owner[p].library # Nil => p # o /\ owner[p].library # o
    BY <1>3, <1>9 DEF AttrInv, LinkedInv
  <2>2. \A p \in Owners : Live(p) => owner[p].library \in Owners \cup {Nil}
    BY <1>8 DEF Live, Loaded
  <2>3. owner'[o].library = Nil
    BY <1>3, <1>5, <1>6, <1>8
  <2> QED
    BY <1>7, <1>10, <2>1, <2>2, <2>3 DEF AttrInv, LinkedInv, Live
<1>12. RegisteredInv'
  BY <1>7, <1>9, <1>10 DEF AttrInv, RegisteredInv
<1>13. PresentInv'
  BY <1>3, <1>5, <1>6, <1>7, <1>8, <1>10 DEF AttrInv, PresentInv, Live
<1>14. \A u \in Threads : Place(u)'
  <2>1. ASSUME NEW u \in Threads, u # t
        PROVE  Place(u)'
    <3>1. pc'[u] = pc[u] /\ work'[u] = work[u] /\ Place(u) /\ work[u].owner # o
      BY <1>3, <1>6, <1>8, <2>1 DEF AttrInv, WorkInv
    <3>2. work[u].owner # Nil => work[u].owner \in Owners /\ owner'[work[u].owner] = owner[work[u].owner]
      BY <1>8, <1>10, <3>1 DEF Work
    <3> QED
      BY <1>8, <3>1, <3>2, PlaceKept DEF Place, Live
  <2>2. Place(t)'
    <3>1. /\ pc'[t] = "capture" /\ work'[t] = x /\ owner'[o] = l /\ code = CodeImage(x.image)
      BY <1>1, <1>3, <1>4, <1>6, <1>8
    <3> QED
      BY <1>2, <1>3, <1>4, <1>5, <3>1 DEF Place, Live, Registering, Reporting
  <2> QED
    BY <2>1, <2>2
<1>15. Alone'
  BY <1>0, <1>2, <1>4, <1>6, <1>8 DEF Alone
<1>16. \A k \in Kernels : kernel[k] # Nil => kernel[k].owner \in Owners /\ kernel[k].owner # o
  BY <1>9, KernelOwner
<1>17. MapsInv' /\ AttributionExact'
  BY <1>7, <1>10, <1>16 DEF AttrInv, MapsInv, AttributionExact, FreshlyRegistered
<1> QED
  BY <1>11, <1>12, <1>13, <1>14, <1>15, <1>17 DEF AttrInv, WorkInv

\* A callback marks the owner as reported and sends its thread to the set and the index.
LEMMA ModuleLoadedAttr ==
    ASSUME Shape, AttrInv, NEW t \in Threads, NEW o \in Owners, ModuleLoaded(t, o)
    PROVE  AttrInv'
<1> DEFINE x == [work[t] EXCEPT !.code = Compiled[owner[o].image], !.then = "index",
                                !.back = pc[t]]
           l == [owner[o] EXCEPT !.reported = TRUE]
<1>1. pc[t] \in {"idle", "read"} /\ owner[o] \in Loaded
  BY DEF ModuleLoaded, Shape, TypeOK
<1>2. /\ x.owner = work[t].owner /\ x.image = work[t].image /\ x.then = "index"
      /\ x.back = pc[t]
  <2>1. work[t] \in Work
    BY DEF Shape, TypeOK
  <2> QED
    BY <2>1 DEF Work
<1>3. /\ l.image = owner[o].image /\ l.hooked = owner[o].hooked /\ l.library = owner[o].library
      /\ l # Nil
  <2>1. /\ l \in Loaded /\ l.image = owner[o].image /\ l.hooked = owner[o].hooked
        /\ l.library = owner[o].library
    BY <1>1 DEF Loaded
  <2> QED
    BY <2>1, LoadedNotNil
<1>4. /\ work' = [work EXCEPT ![t] = x] /\ owner' = [owner EXCEPT ![o] = l]
      /\ pc' = [pc EXCEPT ![t] = "capture"]
  BY DEF ModuleLoaded
<1> HIDE DEF x, l
<1>5. UNCHANGED <<idOfHandle, libraryOf, kernelMap, idOfName, kernel, freed>>
  BY DEF ModuleLoaded, registry
<1>6. /\ pc \in [Threads -> {"idle", "read", "capture", "enqueue", "register", "index"}]
      /\ work \in [Threads -> Work] /\ owner \in [Owners -> Loaded \cup {Nil}]
      /\ owner[o] # Nil
  BY DEF ModuleLoaded, Shape, TypeOK
<1>7. \A p \in Owners : /\ owner'[p].image = owner[p].image
                        /\ owner'[p].hooked = owner[p].hooked
                        /\ owner'[p].library = owner[p].library
                        /\ owner'[p] = Nil <=> owner[p] = Nil
  BY <1>3, <1>4, <1>6
<1>8. \A u \in Threads : work'[u].owner = work[u].owner
  BY <1>2, <1>4, <1>6
<1>9. \A p \in Owners : Usable(p)' <=> Usable(p)
  BY <1>7, <1>8 DEF Usable
<1>10. LinkedInv'
  <2>1. \A p \in Owners : Live(p) => owner[p].library \in Owners \cup {Nil}
    BY <1>6 DEF Live, Loaded
  <2> QED
    BY <1>5, <1>7, <1>9, <2>1 DEF AttrInv, LinkedInv, Live
<1>11. RegisteredInv' /\ PresentInv'
  BY <1>5, <1>7, <1>9 DEF AttrInv, RegisteredInv, PresentInv, Live
<1>12. \A u \in Threads : Place(u)'
  <2>1. \A u \in Threads : Place(u) /\ work[u].owner \in Owners \cup {Nil}
    BY <1>6 DEF AttrInv, WorkInv, Work
  <2>2. ASSUME NEW u \in Threads, u # t
        PROVE  Place(u)'
    <3>1. pc'[u] = pc[u] /\ work'[u] = work[u]
      BY <1>4, <1>6, <2>2
    <3> QED
      BY <1>6, <1>7, <2>1, <3>1, PlaceKept DEF Place, Live
  <2>3. Place(t)'
    <3>1. pc'[t] = "capture" /\ work'[t] = x
      BY <1>4, <1>6
    <3>2. ~Registering(t)' /\ Reporting(t)'
      BY <1>2, <3>1 DEF Registering, Reporting
    <3>3. pc[t] = "read" => work[t].owner \in Owners /\ ~owner[work[t].owner].hooked
      BY <2>1 DEF Place
    <3>4. pc[t] = "idle" => work[t].owner = Nil
      BY <2>1 DEF Place
    <3>5. work[t].owner # Nil => /\ Live(work[t].owner) /\ owner[work[t].owner].library = Nil
                                 /\ owner[work[t].owner].image = work[t].image
      BY <2>1 DEF Place
    <3>6. work[t].owner # Nil =>
            /\ owner'[work[t].owner] # Nil /\ owner'[work[t].owner].library = Nil
            /\ owner'[work[t].owner].image = work[t].image
      BY <1>7, <2>1, <3>5 DEF Live
    <3> QED
      BY <1>1, <1>2, <1>7, <3>1, <3>2, <3>3, <3>4, <3>6 DEF Place, Live
  <2> QED
    BY <2>2, <2>3
<1>13. Alone'
  BY <1>8 DEF AttrInv, WorkInv, Alone
<1>14. \A k \in Kernels : kernel[k] # Nil => kernel[k].owner \in Owners
  BY KernelOwner
<1>15. MapsInv' /\ AttributionExact'
  BY <1>5, <1>7, <1>9, <1>14 DEF AttrInv, MapsInv, AttributionExact, FreshlyRegistered
<1> QED
  BY <1>10, <1>11, <1>12, <1>13, <1>15 DEF AttrInv, WorkInv

\* The index names a cubin only for symbols it accepted.
LEMMA IndexSymbolsAttr ==
    ASSUME Shape, AttrInv, NEW t \in Threads, IndexSymbols(t)
    PROVE  AttrInv'
<1> DEFINE x == [work[t] EXCEPT !.code = Nil, !.then = "idle", !.back = "idle"]
<1>1. /\ x.owner = work[t].owner /\ x.image = work[t].image /\ x.then = "idle"
      /\ work[t].back \in {"idle", "read"}
  <2>1. work[t] \in Work
    BY DEF Shape, TypeOK
  <2> QED
    BY <2>1 DEF Work
<1>2. /\ work' = [work EXCEPT ![t] = x] /\ pc' = [pc EXCEPT ![t] = work[t].back]
      /\ pc[t] = "index"
  BY DEF IndexSymbols
<1> HIDE DEF x
<1>3. UNCHANGED <<idOfHandle, libraryOf, kernelMap, owner, kernel, freed>>
  BY DEF IndexSymbols, driver
<1>4. /\ pc \in [Threads -> {"idle", "read", "capture", "enqueue", "register", "index"}]
      /\ work \in [Threads -> Work]
  BY DEF Shape, TypeOK
<1>5. \A u \in Threads : work'[u].owner = work[u].owner
  BY <1>1, <1>2, <1>4
<1>6. \A p \in Owners : Usable(p)' <=> Usable(p)
  BY <1>3, <1>5 DEF Usable
<1>7. LinkedInv' /\ RegisteredInv' /\ PresentInv'
  BY <1>3, <1>6, OwnersKept DEF AttrInv
<1>8. \A u \in Threads : Place(u)'
  <2>1. \A u \in Threads : Place(u)
    BY DEF AttrInv, WorkInv
  <2>2. ASSUME NEW u \in Threads, u # t
        PROVE  Place(u)'
    <3>1. pc'[u] = pc[u] /\ work'[u] = work[u]
      BY <1>2, <1>4, <2>2
    <3> QED
      BY <1>3, <1>4, <2>1, <3>1, PlaceKept DEF Place, Live
  <2>3. Place(t)'
    <3>1. pc'[t] = work[t].back /\ work'[t] = x
      BY <1>2, <1>4
    <3>2. ~Registering(t)' /\ ~Reporting(t)'
      BY <1>1, <3>1 DEF Registering, Reporting
    <3>3. Reporting(t) /\ Place(t)
      BY <1>2, <2>1 DEF Reporting
    <3> QED
      BY <1>1, <1>3, <3>1, <3>2, <3>3 DEF Place, Live
  <2> QED
    BY <2>2, <2>3
<1>9. Alone'
  BY <1>5 DEF AttrInv, WorkInv, Alone
<1>10. AttributionExact'
  BY <1>3 DEF AttrInv, AttributionExact, FreshlyRegistered
<1>11. MapsInv'
  <2>1. \A k \in Kernels : kernel[k] # Nil => kernel[k].owner \in Owners
    BY KernelOwner
  <2>2. \A n \in Names : idOfName'[n] = Nil \/ n \in IndexedNames(idOfName'[n])
    BY DEF IndexSymbols, AttrInv, MapsInv
  <2> QED
    BY <1>3, <1>6, <2>1, <2>2 DEF AttrInv, MapsInv
<1> QED
  BY <1>7, <1>8, <1>9, <1>10, <1>11 DEF AttrInv, WorkInv

LEMMA UnloadAttr ==
    ASSUME Shape, AttrInv, NEW o \in Owners, Unload(o)
    PROVE  AttrInv'
<1> DEFINE gone  == {o} \cup {x \in Owners : owner[x] # Nil /\ owner[x].library = o}
           goneK == {k \in Kernels : kernel[k] # Nil /\ kernel[k].owner \in gone}
<1>1. /\ Usable(o) /\ owner[o].library = Nil /\ \A x \in gone : Usable(x)
      /\ owner' = [x \in Owners |-> IF x \in gone THEN Nil ELSE owner[x]]
      /\ kernel' = [k \in Kernels |-> IF k \in goneK THEN Nil ELSE kernel[k]]
      /\ freed' = freed \cup gone \cup goneK
  BY DEF Unload
<1>2. \A x \in Owners : x \in gone <=> x = o \/ (owner[x] # Nil /\ owner[x].library = o)
  OBVIOUS
<1>3. \A k \in Kernels : k \in goneK <=> kernel[k] # Nil /\ kernel[k].owner \in gone
  OBVIOUS
<1>4. o \in gone
  OBVIOUS
<1> HIDE DEF gone, goneK
<1>5. UNCHANGED <<idOfHandle, libraryOf, kernelMap, idOfName, pc, work>>
  BY DEF Unload, registry
<1>6. /\ work \in [Threads -> Work] /\ owner \in [Owners -> Loaded \cup {Nil}]
      /\ kernel \in [Kernels -> Kernel \cup {Nil}]
  BY DEF Shape, TypeOK
<1>7. \A x \in Owners : /\ x \in gone => owner'[x] = Nil
                        /\ x \notin gone => owner'[x] = owner[x] /\ (Usable(x)' <=> Usable(x))
  BY <1>1, <1>5 DEF Usable
<1>8. LinkedInv'
  <2> SUFFICES ASSUME NEW x \in Owners, Live(x)', owner'[x].library # Nil
               PROVE  LinkedInv!(x)!2'
    BY DEF LinkedInv
  <2>1. x \notin gone /\ owner'[x] = owner[x] /\ Live(x)
    BY <1>7 DEF Live
  <2>2. owner[x].library \in Owners /\ owner[x].library # o
    BY <1>2, <1>6, <2>1 DEF Live, Loaded
  <2>3. owner[x].library \notin gone
    BY <1>1, <1>2, <2>1, <2>2, RegistryAssumption DEF AttrInv, LinkedInv
  <2> QED
    BY <1>5, <1>7, <2>1, <2>2, <2>3 DEF AttrInv, LinkedInv
<1>9. RegisteredInv'
  BY <1>5, <1>7 DEF AttrInv, RegisteredInv, Usable
<1>10. PresentInv'
  BY <1>1, <1>5, <1>7 DEF AttrInv, PresentInv, Live
<1>11. WorkInv'
  <2>1. ASSUME NEW u \in Threads
        PROVE  Place(u)'
    <3>1. Place(u) /\ work[u].owner \in Owners \cup {Nil}
      BY <1>6 DEF AttrInv, WorkInv, Work
    <3>2. work[u].owner # Nil => work[u].owner \in Owners /\ work[u].owner \notin gone
      <4>1. work[u].owner \in gone => Usable(work[u].owner)
        BY <1>1
      <4> QED
        BY <3>1, <4>1 DEF Usable
    <3> QED
      BY <1>5, <1>6, <1>7, <3>1, <3>2, PlaceKept DEF Place, Live
  <2> QED
    BY <1>5, <2>1 DEF AttrInv, WorkInv, Alone
<1>12. \A k \in Kernels : kernel'[k] # Nil =>
          /\ kernel'[k] = kernel[k] /\ kernel[k].owner \in Owners /\ Usable(kernel[k].owner)
          /\ kernel[k].owner \notin gone
  BY <1>1, <1>3, KernelOwner
<1>13. MapsInv'
  <2>1. \A k \in Kernels : kernelMap[k] # Nil => k \in freed' \/ kernel'[k] # Nil
    BY <1>1 DEF AttrInv, MapsInv
  <2> QED
    BY <1>5, <1>7, <1>12, <2>1 DEF AttrInv, MapsInv
<1>14. AttributionExact'
  <2>1. freed' # {}
    BY <1>1, <1>4
  <2>2. \A k \in Kernels : kernel'[k] # Nil => owner'[kernel[k].owner] = owner[kernel[k].owner]
    BY <1>7, <1>12
  <2> QED
    BY <1>5, <1>12, <2>1, <2>2 DEF AttrInv, AttributionExact, FreshlyRegistered
<1> QED
  BY <1>8, <1>9, <1>10, <1>11, <1>13, <1>14 DEF AttrInv

LEMMA GetModuleAttr ==
    ASSUME Shape, AttrInv, NEW t \in Threads, NEW lib \in Owners, NEW m \in Owners,
           GetModule(t, lib, m)
    PROVE  AttrInv'
<1> DEFINE l == [owner[lib] EXCEPT !.library = lib]
<1>1. /\ Usable(lib) /\ owner[lib] \in Loaded /\ owner[lib].library = Nil /\ lib # Nil
      /\ owner[m] = Nil \/ (owner[m] # Nil /\ owner[m].library = lib)
  BY RegistryAssumption DEF GetModule, Usable, Shape, TypeOK
<1>2. /\ l.image = owner[lib].image /\ l.hooked = owner[lib].hooked /\ l.library = lib
      /\ l # Nil
  <2>1. l \in Loaded /\ l.image = owner[lib].image /\ l.hooked = owner[lib].hooked /\ l.library = lib
    BY <1>1 DEF Loaded
  <2> QED
    BY <2>1, LoadedNotNil
<1>3. owner' = [owner EXCEPT ![m] = l] /\ libraryOf' = [libraryOf EXCEPT ![m] = lib]
  BY DEF GetModule, MapModuleToLibrary
<1> HIDE DEF l
<1>4. UNCHANGED <<idOfHandle, kernelMap, idOfName, pc, work, kernel, freed>>
  BY DEF GetModule
<1>5. /\ work \in [Threads -> Work] /\ owner \in [Owners -> Loaded \cup {Nil}]
      /\ libraryOf \in [Owners -> Owners \cup {Nil}]
  BY DEF Shape, TypeOK
<1>6. m # lib
  BY <1>1 DEF Usable
<1>7. owner'[m] = l /\ libraryOf'[m] = lib
  BY <1>3, <1>5
<1>8. \A x \in Owners : x # m => owner'[x] = owner[x] /\ libraryOf'[x] = libraryOf[x]
                                 /\ (Usable(x)' <=> Usable(x))
  BY <1>3, <1>4, <1>5 DEF Usable
<1>9. \A u \in Threads : work[u].owner # m
  <2>1. ASSUME NEW u \in Threads, work[u].owner = m
        PROVE  FALSE
    <3>1. Place(u) /\ m # Nil
      BY RegistryAssumption DEF AttrInv, WorkInv
    <3>2. owner[m] # Nil /\ owner[m].library = Nil
      BY <2>1, <3>1 DEF Place, Live
    <3> QED
      BY <1>1, <3>2
  <2> QED
    BY <2>1
<1>10. Usable(m)' /\ Usable(lib)' /\ owner'[lib] = owner[lib]
  BY <1>1, <1>2, <1>4, <1>6, <1>7, <1>8, <1>9 DEF Usable
\* A module's library is never the module that is being looked up.
<1>11. \A x \in Owners : Live(x) /\ owner[x].library # Nil =>
          owner[x].library \in Owners /\ owner[x].library # m
  <2> SUFFICES ASSUME NEW x \in Owners, Live(x), owner[x].library # Nil
               PROVE  owner[x].library \in Owners /\ owner[x].library # m
    OBVIOUS
  <2>1. owner[x].library \in Owners
    BY <1>5 DEF Live, Loaded
  <2>2. owner[owner[x].library] # Nil /\ owner[owner[x].library].library = Nil
    BY DEF AttrInv, LinkedInv, Usable
  <2> QED
    BY <1>1, <2>1, <2>2
<1>12. LinkedInv'
  <2>1. ASSUME NEW x \in Owners, x # m
        PROVE  LinkedInv!(x)'
    BY <1>8, <1>11, <2>1 DEF AttrInv, LinkedInv, Live
  <2>2. LinkedInv!(m)'
    BY <1>1, <1>2, <1>7, <1>10
  <2> QED
    BY <2>1, <2>2 DEF LinkedInv
<1>13. RegisteredInv'
  BY <1>1, <1>2, <1>4, <1>7, <1>8 DEF AttrInv, RegisteredInv
<1>14. PresentInv'
  <2>1. ASSUME NEW x \in Owners, x # m
        PROVE  PresentInv!(x)'
    BY <1>4, <1>8, <2>1 DEF AttrInv, PresentInv, Live
  <2>2. PresentInv!(m)'
    <3>1. idOfHandle[m] # Nil => m \in freed \/ (owner[m] # Nil /\ owner[m].hooked)
      BY DEF AttrInv, PresentInv, Live
    <3>2. owner[m] # Nil => owner[m].hooked = owner[lib].hooked
      BY <1>1 DEF AttrInv, LinkedInv, Live
    <3> QED
      BY <1>2, <1>4, <1>7, <3>1, <3>2 DEF Live
  <2> QED
    BY <2>1, <2>2 DEF PresentInv
<1>15. WorkInv'
  <2>1. ASSUME NEW u \in Threads
        PROVE  Place(u)'
    <3>1. Place(u) /\ work[u].owner \in Owners \cup {Nil} /\ work[u].owner # m
      BY <1>5, <1>9 DEF AttrInv, WorkInv, Work
    <3> QED
      BY <1>4, <1>5, <1>8, <3>1, PlaceKept DEF Place, Live
  <2> QED
    BY <1>4, <2>1 DEF AttrInv, WorkInv, Alone
<1>16. \A k \in Kernels : kernel[k] # Nil => kernel[k].owner \in Owners /\ Usable(kernel[k].owner)
  BY KernelOwner
<1>17. MapsInv'
  BY <1>4, <1>8, <1>10, <1>16 DEF AttrInv, MapsInv
<1>18. AttributionExact'
  <2>1. ASSUME NEW k \in Kernels, kernel[k] # Nil
        PROVE  LET p == kernel[k].owner IN
               /\ owner'[p].image = owner[p].image /\ owner'[p].hooked = owner[p].hooked
               /\ libraryOf'[p] = libraryOf[p] /\ owner'[p].library = owner[p].library
    <3> DEFINE p == kernel[k].owner
    <3>1. CASE p # m
      BY <1>8, <1>16, <2>1, <3>1
    <3>2. CASE p = m
      <4>1. owner[m] # Nil /\ owner[m].library = lib
        BY <1>1, <1>16, <2>1, <3>2 DEF Usable
      <4>2. /\ owner[lib].image = owner[m].image /\ owner[lib].hooked = owner[m].hooked
            /\ libraryOf[m] = lib
        BY <1>1, <4>1 DEF AttrInv, LinkedInv, Live
      <4> QED
        BY <1>2, <1>7, <3>2, <4>1, <4>2
    <3> QED
      BY <3>1, <3>2
  <2> QED
    BY <1>4, <2>1 DEF AttrInv, AttributionExact, FreshlyRegistered
<1> QED
  BY <1>12, <1>13, <1>14, <1>15, <1>17, <1>18 DEF AttrInv

\* What a kernel's record says when it is registered: get_code_id_locked finds the code its
\* owner was loaded from, through the library if there is one, or nothing.
LEMMA CodeOfOwner ==
    ASSUME Shape, AttrInv, NEW o \in Owners, Usable(o),
           freed = {} \/ (owner[o].hooked /\ libraryOf[o] \in {Nil, owner[o].library})
    PROVE  /\ owner[o].hooked => /\ CodeIdOf(o) = CodeImage(owner[o].image)
                                 /\ CodeImage(owner[o].image) # Nil
           /\ ~owner[o].hooked => CodeIdOf(o) = Nil
<1>1. owner[o] # Nil /\ owner[o].library \in Owners \cup {Nil} /\ Nil \notin Owners
      /\ owner[o].hooked \in BOOLEAN
  BY RegistryAssumption DEF Usable, Shape, TypeOK, Loaded
<1>2. ASSUME owner[o].library = Nil
      PROVE  libraryOf[o] = Nil
  BY <1>1, <1>2 DEF AttrInv, PresentInv, Live
<1>3. ASSUME owner[o].library # Nil
      PROVE  LET lib == owner[o].library
             IN  /\ libraryOf[o] = lib /\ lib \in Owners /\ Usable(lib) /\ owner[lib].library = Nil
                 /\ owner[lib].image = owner[o].image /\ owner[lib].hooked = owner[o].hooked
  BY <1>1, <1>3 DEF AttrInv, LinkedInv, Live
<1> DEFINE h == IF libraryOf[o] # Nil THEN libraryOf[o] ELSE o
<1>4. /\ h \in Owners /\ Usable(h) /\ owner[h].library = Nil
      /\ owner[h].image = owner[o].image /\ owner[h].hooked = owner[o].hooked
  BY <1>1, <1>2, <1>3
<1>5. CodeIdOf(o) = idOfHandle[h]
  BY DEF CodeIdOf
<1> HIDE DEF h
<1>6. ASSUME owner[o].hooked
      PROVE  CodeIdOf(o) = CodeImage(owner[o].image) /\ CodeImage(owner[o].image) # Nil
  BY <1>4, <1>5, <1>6 DEF AttrInv, RegisteredInv
<1>7. ASSUME ~owner[o].hooked
      PROVE  CodeIdOf(o) = Nil
  BY <1>4, <1>5, <1>7 DEF AttrInv, PresentInv
<1> QED
  BY <1>6, <1>7

\* Looking up a kernel changes neither the owners nor the threads.
LEMMA OwnersUntouched ==
    ASSUME AttrInv, Shape, UNCHANGED <<idOfHandle, libraryOf, pc, work, owner, freed>>
    PROVE  LinkedInv' /\ RegisteredInv' /\ PresentInv' /\ WorkInv'
<1>1. \A p \in Owners : Usable(p)' <=> Usable(p)
  BY DEF Usable
<1>2. LinkedInv' /\ RegisteredInv' /\ PresentInv'
  BY <1>1, OwnersKept DEF AttrInv
<1>3. WorkInv'
  BY DEF AttrInv, WorkInv, Alone, Place, Registering, Reporting, Live
<1> QED
  BY <1>2, <1>3

LEMMA LookupAttr ==
    ASSUME Shape, AttrInv, NEW t \in Threads, NEW o \in Owners, NEW n \in Names, NEW k \in Kernels,
           GetKernel(t, o, n, k) \/ EnumerateKernel(t, o, n, k)
    PROVE  AttrInv'
<1>1. UNCHANGED <<idOfHandle, libraryOf, idOfName, pc, work, owner, freed>> /\ Usable(o)
  BY DEF GetKernel, EnumerateKernel
<1>2. LinkedInv' /\ RegisteredInv' /\ PresentInv' /\ WorkInv'
  BY <1>1, OwnersUntouched
<1>3. kernel \in [Kernels -> Kernel \cup {Nil}] /\ kernelMap \in [Kernels -> Record \cup {Nil}]
  BY DEF Shape, TypeOK
<1> DEFINE r == [name |-> n, code |-> IF CodeIdOf(o) # Nil THEN CodeIdOf(o) ELSE idOfName[n]]
<1>4. /\ \A x \in Kernels : x # k => kernel'[x] = kernel[x]
      /\ kernel'[k] # Nil /\ kernel'[k].owner = o /\ kernel'[k].name = n
      /\ kernel'[k].via # "copy"
      /\ kernelMap' = [kernelMap EXCEPT ![k] = r]
            \/ (kernelMap' = kernelMap /\ (kernel'[k] = kernel[k] \/ kernel[k] = Nil)
                /\ EnumerateKernel(t, o, n, k))
  <2>1. \A how \in {"get", "enumerate"} :
           /\ Made(o, n, how) # Nil /\ Made(o, n, how).owner = o
           /\ Made(o, n, how).name = n /\ Made(o, n, how).via = how
    <3>1. \A how \in {"get", "enumerate"} : Made(o, n, how) \in Kernel
      BY DEF Made, Kernel
    <3> QED
      BY <3>1, NilAssumption DEF Made
  <2>2. ASSUME GetKernel(t, o, n, k)
        PROVE  kernel' = [kernel EXCEPT ![k] = Made(o, n, "get")]
               /\ kernelMap' = [kernelMap EXCEPT ![k] = r]
    BY <2>2 DEF GetKernel, RegisterKernel
  <2>3. ASSUME EnumerateKernel(t, o, n, k)
        PROVE  /\ kernel' = [kernel EXCEPT ![k] = IF kernel[k] = Nil THEN Made(o, n, "enumerate")
                                                  ELSE kernel[k]]
               /\ kernelMap' = [kernelMap EXCEPT ![k] = r] \/ kernelMap' = kernelMap
               /\ kernel[k] # Nil => /\ kernel[k].owner = o /\ kernel[k].name = n
                                     /\ kernel[k].via # "copy"
    BY <2>3 DEF EnumerateKernel, RegisterKernel, HandleFor
  <2> HIDE DEF r
  <2>4. CASE GetKernel(t, o, n, k)
    BY <1>3, <2>1, <2>2, <2>4
  <2>5. CASE EnumerateKernel(t, o, n, k)
    BY <1>3, <2>1, <2>3, <2>5
  <2> QED
    BY <2>4, <2>5
<1>5. r.name = n /\ r.code = IF CodeIdOf(o) # Nil THEN CodeIdOf(o) ELSE idOfName[n]
  OBVIOUS
<1> HIDE DEF r
<1>6. \A x \in Kernels : x # k => kernelMap'[x] = kernelMap[x]
  BY <1>3, <1>4
<1>7. kernelMap'[k] = r \/ (kernelMap'[k] = kernelMap[k]
                           /\ (kernel'[k] = kernel[k] \/ kernel[k] = Nil))
  BY <1>3, <1>4
<1>8. \A p \in Owners : Usable(p)' <=> Usable(p)
  BY <1>1 DEF Usable
<1>9. MapsInv'
  <2>1. \A x \in Kernels : kernel[x] # Nil => kernel[x].owner \in Owners /\ Usable(kernel[x].owner)
    BY KernelOwner
  <2>2. \A x \in Kernels : (kernel[x] # Nil => Usable(kernel[x].owner))'
    <3>1. \A x \in Kernels : kernel'[x] # Nil => kernel'[x].owner \in Owners
                                                 /\ Usable(kernel'[x].owner)
      BY <1>1, <1>4, <2>1
    <3> QED
      BY <1>1, <3>1 DEF Usable
  <2>3. \A x \in Kernels : kernelMap'[x] # Nil => x \in freed' \/ kernel'[x] # Nil
    BY <1>1, <1>4, <1>6 DEF AttrInv, MapsInv
  <2>4. \A x \in Names : idOfName'[x] = Nil \/ x \in IndexedNames(idOfName'[x])
    BY <1>1 DEF AttrInv, MapsInv
  <2> QED
    BY <2>2, <2>3, <2>4 DEF MapsInv
<1>10. AttributionExact'
  <2>1. ASSUME NEW x \in Kernels, x # k
        PROVE  AttributionExact!(x)'
    <3>1. kernel'[x] = kernel[x] /\ kernelMap'[x] = kernelMap[x]
      BY <1>4, <1>6, <2>1
    <3> QED
      BY <1>1, <3>1 DEF AttrInv, AttributionExact, FreshlyRegistered
  <2>2. ASSUME freed = {} \/ FreshlyRegistered(k)', kernelMap'[k] # Nil
        PROVE  AttributionExact!(k)!2'
    <3>1. freed = {} \/ (owner[o].hooked /\ libraryOf[o] \in {Nil, owner[o].library})
      BY <1>1, <1>4, <2>2 DEF FreshlyRegistered
    <3>2. CASE kernelMap'[k] = r
      <4>1. r.name = kernel'[k].name
        BY <1>4, <1>5
      <4>2. owner[o].hooked => r.code = CodeImage(owner[o].image)
        BY <1>1, <1>5, <3>1, CodeOfOwner
      <4>3. r.code = Nil \/ r.code = CodeImage(owner[o].image) \/ r.name \in IndexedNames(r.code)
        <5>1. owner[o].hooked \in BOOLEAN
          BY <1>1 DEF Usable, Shape, TypeOK, Loaded
        <5>2. idOfName[n] = Nil \/ n \in IndexedNames(idOfName[n])
          BY DEF AttrInv, MapsInv
        <5> QED
          BY <1>1, <1>5, <3>1, <4>2, <5>1, <5>2, CodeOfOwner
      <4> QED
        BY <1>1, <1>4, <3>2, <4>1, <4>2, <4>3
    <3>3. CASE kernelMap'[k] = kernelMap[k] /\ kernel'[k] = kernel[k]
      BY <1>1, <1>4, <2>2, <3>3 DEF AttrInv, AttributionExact, FreshlyRegistered
    <3>4. CASE kernelMap'[k] = kernelMap[k] /\ kernel[k] = Nil /\ kernelMap'[k] # r
      <4>1. k \in freed
        BY <2>2, <3>4 DEF AttrInv, MapsInv
      <4>2. FreshlyRegistered(k)' /\ EnumerateKernel(t, o, n, k)
        BY <1>3, <1>4, <2>2, <3>4, <4>1
      <4>3. kernel'[k] = Made(o, n, "enumerate")
        BY <1>3, <3>4, <4>2 DEF EnumerateKernel
      <4> QED
        BY <4>2, <4>3 DEF FreshlyRegistered, Made
    <3> QED
      BY <1>7, <3>2, <3>3, <3>4
  <2> QED
    BY <1>1, <2>1, <2>2 DEF AttributionExact
<1> QED
  BY <1>2, <1>9, <1>10 DEF AttrInv

\* A function handle made from a kernel takes its record over, or keeps its own.
LEMMA GetFunctionAttr ==
    ASSUME Shape, AttrInv, NEW t \in Threads, NEW k \in Kernels, NEW f \in Kernels,
           GetFunction(t, k, f)
    PROVE  AttrInv'
<1>1. UNCHANGED <<idOfHandle, libraryOf, idOfName, pc, work, owner, freed>>
  BY DEF GetFunction
<1>2. LinkedInv' /\ RegisteredInv' /\ PresentInv' /\ WorkInv'
  BY <1>1, OwnersUntouched
<1>3. /\ kernel \in [Kernels -> Kernel \cup {Nil}] /\ kernelMap \in [Kernels -> Record \cup {Nil}]
      /\ kernel[k] \in Kernel /\ kernel[k].owner \in Owners /\ Usable(kernel[k].owner)
      /\ kernel[k] # Nil
  BY KernelOwner DEF Shape, TypeOK, GetFunction
<1> DEFINE c == [kernel[k] EXCEPT !.via = "copy"]
<1>4. c # Nil /\ c.owner = kernel[k].owner /\ c.name = kernel[k].name /\ c.via = "copy"
  <2>1. c \in Kernel /\ c.owner = kernel[k].owner /\ c.name = kernel[k].name /\ c.via = "copy"
    BY <1>3 DEF Kernel
  <2> QED
    BY <2>1, NilAssumption
<1>5. kernel' = [kernel EXCEPT ![f] = c]
  BY DEF GetFunction
<1> HIDE DEF c
<1>6. /\ kernel'[f] = c /\ \A x \in Kernels : x # f => kernel'[x] = kernel[x]
      /\ \A x \in Kernels : x # f => kernelMap'[x] = kernelMap[x]
      /\ kernelMap[k] # Nil => kernelMap'[f] = kernelMap[k]
      /\ kernelMap[k] = Nil => kernelMap'[f] = kernelMap[f]
  BY <1>3, <1>5 DEF GetFunction, CopyKernelInfo
<1>7. kernel[f] # Nil => kernel[f].owner = c.owner /\ kernel[f].name = c.name
  BY <1>4 DEF GetFunction, HandleFor
<1>8. MapsInv'
  <2>1. \A x \in Kernels : (kernel[x] # Nil => Usable(kernel[x].owner))'
    <3>1. \A x \in Kernels : kernel'[x] # Nil => kernel'[x].owner \in Owners
                                                 /\ Usable(kernel'[x].owner)
      BY <1>3, <1>4, <1>6, KernelOwner
    <3> QED
      BY <1>1, <3>1 DEF Usable
  <2>2. \A x \in Kernels : kernelMap'[x] # Nil => x \in freed' \/ kernel'[x] # Nil
    BY <1>1, <1>4, <1>6 DEF AttrInv, MapsInv
  <2>3. \A x \in Names : idOfName'[x] = Nil \/ x \in IndexedNames(idOfName'[x])
    BY <1>1 DEF AttrInv, MapsInv
  <2> QED
    BY <2>1, <2>2, <2>3 DEF MapsInv
<1>9. AttributionExact'
  <2>1. ASSUME NEW x \in Kernels, x # f
        PROVE  AttributionExact!(x)'
    <3>1. kernel'[x] = kernel[x] /\ kernelMap'[x] = kernelMap[x]
      BY <1>6, <2>1
    <3> QED
      BY <1>1, <3>1 DEF AttrInv, AttributionExact, FreshlyRegistered
  <2>2. ASSUME freed = {} \/ FreshlyRegistered(f)', kernelMap'[f] # Nil
        PROVE  AttributionExact!(f)!2'
    <3>1. freed = {}
      BY <1>4, <1>6, <2>2 DEF FreshlyRegistered
    <3>2. CASE kernelMap[k] # Nil
      BY <1>1, <1>3, <1>4, <1>6, <3>1, <3>2 DEF AttrInv, AttributionExact
    <3>3. CASE kernelMap[k] = Nil
      <4>1. kernel[f] # Nil
        BY <1>6, <2>2, <3>1, <3>3 DEF AttrInv, MapsInv
      <4> QED
        BY <1>1, <1>6, <1>7, <2>2, <3>1, <3>3, <4>1 DEF AttrInv, AttributionExact
    <3> QED
      BY <3>2, <3>3
  <2> QED
    BY <1>1, <2>1, <2>2 DEF AttributionExact
<1> QED
  BY <1>2, <1>8, <1>9 DEF AttrInv

LEMMA AttrStep ==
    ASSUME Shape, AttrInv, [Next]_vars
    PROVE  AttrInv'
<1>1. ASSUME StartCapture \/ StopCapture \/ NoCall \/ UNCHANGED vars
      PROVE  AttrInv'
  BY <1>1, AttrKept DEF StartCapture, StopCapture, NoCall, vars, driver
<1>2. ASSUME NEW t \in Threads, NEW k \in Kernels, Launch(t, k)
      PROVE  AttrInv'
  BY <1>2, AttrKept DEF Launch, driver
<1>3. ASSUME NEW t \in Threads, Step(t)
      PROVE  AttrInv'
  BY <1>2, <1>3, HookedLoadAttr, LoadEndsAttr, SendCodeAttr, ReadCodeAttr, ModuleLoadedAttr,
     IndexSymbolsAttr, LookupAttr, GetModuleAttr, GetFunctionAttr DEF Step
<1>4. ASSUME NEW o \in Owners, Unload(o) \/ \E i \in Loadable : PrivateLoad(o, i)
      PROVE  AttrInv'
  BY <1>4, UnloadAttr, PrivateLoadAttr
<1> QED
  BY <1>1, <1>3, <1>4 DEF Next

LEMMA AttrInvHolds == Spec => []AttrInv
BY ShapeHolds, InitAttr, AttrStep, PTL DEF Spec

\* Until the driver reuses a handle, and after it for kernels registered from a fresh
\* owner, a launch names its kernel, and the code the kernel's owner was loaded from or
\* a reported cubin that has a kernel of that name (get_code_id_locked, register_kernel,
\* copy_kernel_info).
THEOREM AttributionExactHolds == Spec => []AttributionExact
BY AttrInvHolds, PTL DEF AttrInv
================================================================================
