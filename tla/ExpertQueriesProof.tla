------------------------- MODULE ExpertQueriesProof -------------------------
(***************************************************************************)
(* Proofs about the queries and caches of the expert object, for any set   *)
(* of queries and any number of modem objects: the pending flags, the      *)
(* fresh serving cell, and the refinement of Arbitration.                  *)
(*                                                                         *)
(* The handlers test flags, not calls, and the newest object only.  The    *)
(* invariant says why that suffices: what is not admitted yet is untouched,*)
(* a live object has no cancelled call, and an object that the PCI         *)
(* mutation of its slot has still to adopt has no work at all.             *)
(***************************************************************************)
EXTENDS ExpertQueries, TLAPS

Admitted ==
    /\ live => generation \in Object
    /\ \A m \in Object : m > generation => call[m]["volt"] = "none" /\ kind[m] = "none"
    /\ \A m \in Object : m > generation => call[m]["cell"] = "none"
    /\ \A q \in Query : query[q].object <= generation
    /\ live => call[generation]["volt"] # "cancelled" /\ call[generation]["cell"] # "cancelled"
    /\ \A m \in Object : m \in pci <=> kind[m] = "l850"
    /\ ~live => cell.entry = "none"

\* A mutation, a scan, a carrier query or a voltage refresh works on m.
Busy(m) ==
    \/ kind[m] # "none" \/ call[m]["volt"] # "none"
    \/ HasActive("scan", m) \/ HasActive("carrier", m)

\* Nobody works on an object that a PCI mutation has still to adopt.
PciFirst == pci # {} /\ live /\ generation \notin pci => ~Busy(generation)

Inv == TypeOK /\ Admitted /\ PendingIsBacked /\ PciFirst

USE QueriesAssumption DEF Object

-----------------------------------------------------------------------------
(* Preservation of the invariant.                                          *)

\* The invariant holds when the bridge starts.
LEMMA InitInv == Init => Inv
<1> SUFFICES ASSUME Init PROVE Inv
  OBVIOUS
<1>1. /\ NoQuery \in QueryRecord /\ NoCache \in CacheRecord /\ NoCall \in CallRecord
      /\ NoQuery.object = 0 /\ ~NoCache.pending /\ NoCache.entry = "none"
      /\ NoCall["volt"] = "none" /\ NoCall["cell"] = "none"
  BY DEF NoQuery, QueryRecord, NoCache, CacheRecord, NoCall, CallRecord
<1>2. TypeOK
  <2>1. kind \in [Object -> {"none", "l850", "other"}] /\ call \in [Object -> CallRecord]
    BY <1>1 DEF Init
  <2>2. query \in [Query -> QueryRecord] /\ cell \in CacheRecord /\ volt \in CacheRecord
    BY <1>1 DEF Init
  <2>3. generation \in 0..MaxGen /\ pci \subseteq Object /\ limited \subseteq {"scan", "carrier"}
    BY DEF Init
  <2>4. live \in BOOLEAN /\ connected \in BOOLEAN
    BY DEF Init
  <2> QED BY <2>1, <2>2, <2>3, <2>4 DEF TypeOK
<1>3. Admitted
  BY <1>1 DEF Init, Admitted
<1>4. PendingIsBacked
  BY <1>1 DEF Init, PendingIsBacked
<1>5. PciFirst
  BY DEF Init, PciFirst
<1> QED BY <1>2, <1>3, <1>4, <1>5 DEF Inv

\* A query that starts on the newest object of a quiet slot.
LEMMA StartQueryInv ==
    ASSUME Inv, NEW q \in Query, NEW k \in Kinds, Requested, StartQuery(q, k)
    PROVE  Inv'
<1> USE DEF Inv
<1> DEFINE r == NewQuery(k)
<1>1. generation \in Object
  BY DEF Requested, Admitted
<1>2. r \in QueryRecord /\ r.object = generation /\ r.kind = k
  <2>1. NoQuery \in QueryRecord
    BY DEF NoQuery, QueryRecord
  <2> DEFINE s == IF k = "scan" THEN "cellInfo" ELSE "command"
  <2>2. s \in {"cellInfo", "command"} /\ k \in {"status", "scan", "carrier"}
    BY DEF Kinds
  <2>3. r = [NoQuery EXCEPT !.kind = k, !.stage = s, !.object = generation]
    BY DEF NewQuery
  <2> HIDE DEF s, r
  <2>4. r.object = generation /\ r.kind = k /\ r.stage = s /\ r.cancelled = NoQuery.cancelled
    BY <2>1, <2>3 DEF QueryRecord
  <2>5. r \in QueryRecord
    <3>1. generation \in 0..MaxGen /\ k \in Kinds \cup {"none"}
      BY <1>1
    <3>2. s \in {"idle", "cellInfo", "command"}
      BY <2>2
    <3> QED BY <2>1, <2>3, <3>1, <3>2 DEF QueryRecord
  <2> QED BY <2>4, <2>5
<1>3. query' = [query EXCEPT ![q] = r]
  BY DEF StartQuery
<1> HIDE DEF r
<1>4. UNCHANGED <<generation, live, kind, pci, limited, cell, volt, call, connected>>
  BY DEF StartQuery, modem, mutations
<1>5. TypeOK'
  BY <1>2, <1>3, <1>4 DEF TypeOK
<1>6. Admitted'
  BY <1>1, <1>2, <1>3, <1>4 DEF Admitted, TypeOK
<1>7. PendingIsBacked'
  BY <1>4 DEF PendingIsBacked
<1>8. PciFirst'
  BY <1>4 DEF PciFirst, Requested, Quiet, HasActiveMutation
<1> QED BY <1>5, <1>6, <1>7, <1>8

\* A step that changes queries only, leaving each on its object and of its
\* kind, or ending it.
LEMMA QueriesInv ==
    ASSUME Inv, query' \in [Query -> QueryRecord],
           \A q \in Query : \/ query'[q].object = query[q].object /\ query'[q].kind = query[q].kind
                            \/ query'[q] = NoQuery,
           limited' \subseteq {"scan", "carrier"}, connected' \in BOOLEAN,
           cell' \in CacheRecord, cell'.pending = cell.pending, ~live => cell' = cell,
           UNCHANGED <<generation, live, kind, pci, volt, call>>
    PROVE  Inv'
<1> USE DEF Inv
<1>1. TypeOK'
  BY DEF TypeOK
<1>2. \A q \in Query : query'[q].object <= generation
  BY DEF Admitted, NoQuery, TypeOK
<1>3. Admitted'
  BY <1>2 DEF Admitted
<1>4. PendingIsBacked'
  BY DEF PendingIsBacked
<1>5. PciFirst'
  BY DEF PciFirst, Busy, HasActive, NoQuery
<1> QED BY <1>1, <1>3, <1>4, <1>5

\* A query completes and its entry is free again.
LEMMA CompleteQueryInv ==
    ASSUME Inv, NEW q \in Query, CompleteQuery(q),
           cell' \in CacheRecord, cell'.pending = cell.pending, ~live => cell' = cell,
           UNCHANGED <<generation, live, kind, pci, volt, call, connected>>
    PROVE  Inv'
<1>1. NoQuery \in QueryRecord
  BY DEF NoQuery, QueryRecord
<1>2. query' \in [Query -> QueryRecord] /\ query'[q] = NoQuery
      /\ \A p \in Query : p # q => query'[p] = query[p]
  BY <1>1 DEF CompleteQuery, Inv, TypeOK
<1>3. limited' \subseteq {"scan", "carrier"} /\ connected' \in BOOLEAN
  BY DEF CompleteQuery, Inv, TypeOK
<1> QED BY <1>2, <1>3, QueriesInv

\* A query ends with an answer, an error or a cancellation, and a scan's
\* answer may fill the serving cell cache.
LEMMA QueryEndsInv ==
    ASSUME Inv, NEW q \in Query, QueryEnds(q)
    PROVE  Inv'
<1>1. /\ CompleteQuery(q)
      /\ UNCHANGED <<generation, live, kind, pci, volt, call, connected>>
      /\ cell' = cell \/ (live /\ cell' = [cell EXCEPT !.entry = "fresh"])
  BY DEF QueryEnds, StatusReady, CarrierReady, ScanFails, CompletesAs, ScanSucceeds,
         modem, mutations, Current
<1>2. cell' \in CacheRecord /\ cell'.pending = cell.pending
  BY <1>1 DEF Inv, TypeOK, CacheRecord
<1> QED BY <1>1, <1>2, CompleteQueryInv

\* A fallback, a timeout or a lost connection only marks a query.
LEMMA QueryFlagsInv ==
    ASSUME Inv, \/ \E q \in Query : ScanFallsBack(q) \/ QueryTimeout(q)
                \/ ConnectionLost \/ Reconnect
                \/ \E k \in Kinds : LimitEnds(k)
    PROVE  Inv'
<1> USE DEF Inv
<1>1. /\ UNCHANGED <<generation, live, kind, pci, volt, call, cell>>
      /\ limited' \subseteq {"scan", "carrier"} /\ connected' \in BOOLEAN
  BY DEF ScanFallsBack, QueryTimeout, ConnectionLost, Reconnect, LimitEnds, modem, mutations,
         TypeOK
<1>2. /\ query' \in [Query -> QueryRecord]
      /\ \A p \in Query : query'[p].object = query[p].object /\ query'[p].kind = query[p].kind
  <2>1. ASSUME NEW q \in Query, ScanFallsBack(q) PROVE <1>2
    BY ZenonT(60), <2>1 DEF ScanFallsBack, TypeOK, QueryRecord
  <2>2. ASSUME NEW q \in Query, QueryTimeout(q) PROVE <1>2
    BY ZenonT(60), <2>2 DEF QueryTimeout, TypeOK, QueryRecord
  <2>3. CASE ConnectionLost
    BY ZenonT(60), <2>3 DEF ConnectionLost, TypeOK, QueryRecord
  <2>4. CASE UNCHANGED query
    BY <2>4 DEF TypeOK
  <2> QED BY <2>1, <2>2, <2>3, <2>4 DEF Reconnect, LimitEnds
<1> QED
  BY <1>1, <1>2, QueriesInv DEF TypeOK

\* Mutations, the PCI lock among them, start, move on and end.
LEMMA MutationsInv ==
    ASSUME Inv, \/ \E k \in {"l850", "other"} : MutationStarts(k)
                \/ PciAdopts \/ PciEnds
                \/ \E m \in Object : OtherMutationEnds(m)
    PROVE  Inv'
<1> USE DEF Inv
<1>1. UNCHANGED <<generation, live, query, limited, cell, volt, call, connected>>
  BY DEF MutationStarts, PciAdopts, PciEnds, OtherMutationEnds, modem
<1>2. PendingIsBacked'
  BY <1>1 DEF PendingIsBacked
<1>3. TypeOK' /\ Admitted' /\ PciFirst'
  <2>1. ASSUME NEW k \in {"l850", "other"}, MutationStarts(k) PROVE <1>3
    <3>1. /\ generation \in Object /\ kind[generation] = "none"
          /\ kind' = [kind EXCEPT ![generation] = k] /\ pci = {}
          /\ pci' = IF k = "l850" THEN {generation} ELSE {}
      BY <2>1 DEF MutationStarts, Requested, Quiet, HasActiveMutation, Admitted
    <3>2. TypeOK'
      BY <1>1, <3>1 DEF TypeOK
    <3>3. Admitted'
      BY <1>1, <3>1 DEF Admitted, TypeOK
    <3>4. PciFirst'
      BY <1>1, <3>1 DEF PciFirst
    <3> QED BY <3>2, <3>3, <3>4
  <2>2. ASSUME PciAdopts PROVE <1>3
    <3>1. /\ generation \in Object /\ kind[generation] = "none"
          /\ kind' = [kind EXCEPT ![generation] = "l850"] /\ pci' = pci \cup {generation}
      BY <2>2 DEF PciAdopts, Admitted
    <3>2. TypeOK'
      BY <1>1, <3>1 DEF TypeOK
    <3>3. Admitted'
      BY <1>1, <3>1 DEF Admitted, TypeOK
    <3>4. PciFirst'
      BY <1>1, <3>1 DEF PciFirst
    <3> QED BY <3>2, <3>3, <3>4
  <2>3. ASSUME PciEnds PROVE <1>3
    <3>1. /\ kind' = [m \in Object |-> IF m \in pci THEN "none" ELSE kind[m]] /\ pci' = {}
      BY <2>3 DEF PciEnds
    <3>2. TypeOK'
      BY <1>1, <3>1 DEF TypeOK
    <3>3. Admitted'
      BY <1>1, <3>1 DEF Admitted, TypeOK
    <3>4. PciFirst'
      BY <1>1, <3>1 DEF PciFirst
    <3> QED BY <3>2, <3>3, <3>4
  <2>4. ASSUME NEW m \in Object, OtherMutationEnds(m) PROVE <1>3
    <3>1. /\ kind[m] = "other" /\ kind' = [kind EXCEPT ![m] = "none"] /\ pci' = pci
      BY <2>4 DEF OtherMutationEnds
    <3>2. TypeOK'
      BY <1>1, <3>1 DEF TypeOK
    <3>3. Admitted'
      BY <1>1, <3>1 DEF Admitted, TypeOK
    <3>4. PciFirst'
      BY <1>1, <3>1 DEF PciFirst, Busy, HasActive, TypeOK
    <3> QED BY <3>2, <3>3, <3>4
  <2> QED BY <2>1, <2>2, <2>3, <2>4
<1> QED BY <1>2, <1>3

\* Refreshing the caches, its answers and the age of what is cached.
LEMMA CachesInv ==
    ASSUME Inv, \/ \E refresh \in SUBSET {"cell", "volt"} : GetOverview(refresh)
                \/ \E m \in Object : CallEnds(m)
                \/ CacheAges
    PROVE  Inv'
<1> USE DEF Inv
<1>1. UNCHANGED <<generation, live, kind, pci, query, limited, connected>>
  BY DEF GetOverview, CallEnds, VoltageReady, CellReady, CacheAges, modem, mutations
<1>2. TypeOK' /\ Admitted' /\ PendingIsBacked' /\ PciFirst'
  <2>1. ASSUME NEW refresh \in SUBSET {"cell", "volt"}, GetOverview(refresh) PROVE <1>2
    <3> DEFINE c == [d \in {"cell", "volt"} |->
                        IF d \in refresh THEN "sent" ELSE call[generation][d]]
    <3>1. /\ generation \in Object /\ live
          /\ DOMAIN call[generation] = {"cell", "volt"}
      BY <2>1 DEF GetOverview, Admitted, TypeOK, CallRecord
    <3>2. call' = [call EXCEPT ![generation] = c]
      BY <2>1, <3>1 DEF GetOverview
    <3>3. /\ c \in CallRecord
          /\ c["volt"] = IF "volt" \in refresh THEN "sent" ELSE call[generation]["volt"]
          /\ c["cell"] = IF "cell" \in refresh THEN "sent" ELSE call[generation]["cell"]
      BY <3>1 DEF TypeOK, CallRecord
    <3> HIDE DEF c
    <3>4. /\ volt' \in CacheRecord /\ cell' \in CacheRecord
          /\ volt'.pending <=> volt.pending \/ "volt" \in refresh
          /\ cell'.pending <=> cell.pending \/ "cell" \in refresh
      BY <2>1 DEF GetOverview, TypeOK, CacheRecord
    <3>5. TypeOK'
      BY <1>1, <3>2, <3>3, <3>4 DEF TypeOK
    <3>6. Admitted'
      BY <1>1, <3>1, <3>2, <3>3 DEF Admitted, TypeOK
    <3>7. PendingIsBacked'
      BY <1>1, <3>1, <3>2, <3>3, <3>4 DEF PendingIsBacked, TypeOK
    <3>8. PciFirst'
      <4>1. CASE "volt" \in refresh
        BY <1>1, <2>1, <4>1 DEF GetOverview, VoltageDue, HasActiveMutation, PciFirst
      <4>2. CASE "volt" \notin refresh
        BY <1>1, <3>1, <3>2, <3>3, <4>2 DEF PciFirst, Busy, HasActive, TypeOK
      <4> QED BY <4>1, <4>2
    <3> QED BY <3>5, <3>6, <3>7, <3>8
  <2>2. ASSUME NEW m \in Object, NEW ok \in BOOLEAN, VoltageReady(m, ok) PROVE <1>2
    <3>1. /\ call' \in [Object -> CallRecord]
          /\ call'[m]["volt"] = "none" /\ call'[m]["cell"] = call[m]["cell"]
          /\ \A n \in Object : n # m => call'[n] = call[n]
      BY <2>2 DEF VoltageReady, TypeOK, CallRecord
    <3>2. /\ volt' \in CacheRecord /\ cell' = cell
          /\ live /\ m = generation => ~volt'.pending
          /\ ~(live /\ m = generation) => volt' = volt
      BY <2>2 DEF VoltageReady, TypeOK, CacheRecord
    <3>3. TypeOK'
      BY <1>1, <3>1, <3>2 DEF TypeOK
    <3>4. Admitted'
      BY <1>1, <3>1, <3>2 DEF Admitted, TypeOK
    <3>5. PendingIsBacked'
      BY <1>1, <3>1, <3>2 DEF PendingIsBacked, Admitted
    <3>6. PciFirst'
      BY <1>1, <3>1 DEF PciFirst, Busy, HasActive, Admitted
    <3> QED BY <3>3, <3>4, <3>5, <3>6
  <2>3. ASSUME NEW m \in Object, NEW ok \in BOOLEAN, CellReady(m, ok) PROVE <1>2
    <3>1. /\ call' \in [Object -> CallRecord]
          /\ call'[m]["cell"] = "none" /\ call'[m]["volt"] = call[m]["volt"]
          /\ \A n \in Object : n # m => call'[n] = call[n]
      BY <2>3 DEF CellReady, TypeOK, CallRecord
    <3>2. /\ cell' \in CacheRecord /\ volt' = volt
          /\ live /\ m = generation => ~cell'.pending
          /\ ~(live /\ m = generation) => cell' = cell
      BY <2>3 DEF CellReady, TypeOK, CacheRecord, FailedEntry
    <3>3. TypeOK'
      BY <1>1, <3>1, <3>2 DEF TypeOK
    <3>4. Admitted'
      BY <1>1, <3>1, <3>2 DEF Admitted, TypeOK
    <3>5. PendingIsBacked'
      BY <1>1, <3>1, <3>2 DEF PendingIsBacked, Admitted
    <3>6. PciFirst'
      BY <1>1, <3>1 DEF PciFirst, Busy, HasActive, Admitted
    <3> QED BY <3>3, <3>4, <3>5, <3>6
  <2>4. ASSUME CacheAges PROVE <1>2
    <3>1. /\ cell' \in CacheRecord /\ cell'.pending = cell.pending
          /\ volt' \in CacheRecord /\ volt'.pending = volt.pending /\ call' = call
          /\ ~live => cell' = cell
      BY <2>4 DEF CacheAges, TypeOK, CacheRecord, Admitted
    <3> QED
      BY <1>1, <3>1 DEF TypeOK, Admitted, PendingIsBacked, PciFirst, Busy, HasActive
  <2> QED BY <2>1, <2>2, <2>3, <2>4 DEF CallEnds
<1> QED BY <1>2

\* The newest object goes, its calls and queries being cancelled.
LEMMA ModemRemovedInv ==
    ASSUME Inv, ModemRemoved
    PROVE  Inv'
<1> USE DEF Inv
<1> DEFINE c == [d \in {"cell", "volt"} |-> Cancelled(call[generation][d])]
<1>1. /\ UNCHANGED <<generation, kind, pci, limited, connected>> /\ live' = FALSE
      /\ cell' = NoCache /\ volt' = NoCache
      /\ generation \in Object /\ DOMAIN call[generation] = {"cell", "volt"}
  BY DEF ModemRemoved, mutations, Admitted, TypeOK, CallRecord
<1>2. call' = [call EXCEPT ![generation] = c]
  BY <1>1 DEF ModemRemoved
<1>3. c \in CallRecord
  BY <1>1 DEF TypeOK, CallRecord, Cancelled
<1> HIDE DEF c
<1>4. query' \in [Query -> QueryRecord] /\ \A q \in Query : query'[q].object = query[q].object
  BY ZenonT(60) DEF ModemRemoved, TypeOK, QueryRecord
<1>5. NoCache \in CacheRecord /\ ~NoCache.pending /\ NoCache.entry = "none"
  BY DEF NoCache, CacheRecord
<1>6. TypeOK'
  BY <1>1, <1>2, <1>3, <1>4, <1>5 DEF TypeOK
<1>7. Admitted'
  BY <1>1, <1>2, <1>4, <1>5 DEF Admitted, TypeOK
<1>8. PendingIsBacked' /\ PciFirst'
  BY <1>1, <1>5 DEF PendingIsBacked, PciFirst
<1> QED BY <1>6, <1>7, <1>8

\* Its replacement is untouched.
LEMMA ModemAddedInv ==
    ASSUME Inv, ModemAdded
    PROVE  Inv'
<1> USE DEF Inv
<1>1. /\ UNCHANGED <<kind, pci, query, call, connected>> /\ live' /\ live' \in BOOLEAN
      /\ cell' = NoCache /\ volt' = NoCache /\ limited' = {}
      /\ generation \in Nat /\ generation' = generation + 1 /\ generation' \in Object
  BY DEF ModemAdded, mutations, TypeOK
<1>2. NoCache \in CacheRecord /\ ~NoCache.pending
  BY DEF NoCache, CacheRecord
<1>3. TypeOK'
  BY <1>1, <1>2 DEF TypeOK
<1>4. \A q \in Query : query[q].object \in 0..MaxGen /\ query[q].object <= generation
  BY DEF TypeOK, QueryRecord, Admitted
<1>5. Admitted'
  BY <1>1, <1>4 DEF Admitted
<1>6. PendingIsBacked'
  BY <1>1, <1>2 DEF PendingIsBacked, Admitted
<1>7. PciFirst'
  BY <1>1, <1>4 DEF PciFirst, Busy, HasActive, Admitted
<1> QED BY <1>3, <1>5, <1>6, <1>7

\* The invariant is inductive.
LEMMA StepInv == Inv /\ [Next]_vars => Inv'
<1> SUFFICES ASSUME Inv, [Next]_vars PROVE Inv'
  OBVIOUS
<1>1. CASE UNCHANGED vars
  BY <1>1 DEF vars, Inv, TypeOK, Admitted, PendingIsBacked, PciFirst, Busy, HasActive
<1>2. ASSUME NEW q \in Query, CellLockStatus(q) \/ CellScan(q) \/ GetCarrierInfo(q)
      PROVE  Inv'
  <2>1. Requested /\ \E k \in Kinds : StartQuery(q, k)
    BY <1>2 DEF CellLockStatus, CellScan, GetCarrierInfo, Kinds
  <2> QED BY <2>1, StartQueryInv
<1> QED
  BY <1>1, <1>2, QueryEndsInv, QueryFlagsInv, MutationsInv, CachesInv, ModemRemovedInv,
     ModemAddedInv DEF Next

(***************************************************************************)
(* The pending flag of a cache is set exactly while the call of the live   *)
(* object is under way, however refreshes, late answers, removals and      *)
(* replacements interleave.                                                *)
(***************************************************************************)
THEOREM PendingBacked == Spec => []PendingIsBacked
<1>1. Inv => PendingIsBacked
  BY DEF Inv
<1> QED
  BY <1>1, InitInv, StepInv, PTL DEF Spec

(***************************************************************************)
(* A fresh serving cell, also one that a scan stored during a refresh, is  *)
(* lost to time or to the removal of the modem only.                       *)
(***************************************************************************)
THEOREM FreshCellStays == Spec => FreshCellSurvives
<1>1. Inv /\ [Next]_vars => [cell.entry = "fresh" /\ cell'.entry = "none" => ~live']_vars
  <2> SUFFICES ASSUME Inv, Next, cell.entry = "fresh", cell'.entry = "none" PROVE ~live'
    OBVIOUS
  <2>1. cell \in CacheRecord
    BY DEF Inv, TypeOK
  <2>2. CASE ModemRemoved
    BY <2>2 DEF ModemRemoved
  <2>3. CASE ModemAdded
    BY <2>3 DEF ModemAdded, Inv, Admitted
  <2>4. ASSUME NEW q \in Query, QueryEnds(q) PROVE FALSE
    BY <2>1, <2>4 DEF QueryEnds, StatusReady, CarrierReady, ScanFails, CompletesAs, ScanSucceeds,
                      CacheRecord
  <2>5. ASSUME NEW refresh \in SUBSET {"cell", "volt"}, GetOverview(refresh) PROVE FALSE
    BY <2>1, <2>5 DEF GetOverview, CacheRecord
  <2>6. ASSUME NEW m \in Object, CallEnds(m) PROVE FALSE
    BY <2>1, <2>6 DEF CallEnds, VoltageReady, CellReady, FailedEntry, CacheRecord
  <2>7. CASE CacheAges
    BY <2>1, <2>7 DEF CacheAges, CacheRecord
  <2>8. CASE UNCHANGED cell
    BY <2>8
  <2> QED
    BY <2>2, <2>3, <2>4, <2>5, <2>6, <2>7, <2>8
       DEF Next, CellLockStatus, CellScan, GetCarrierInfo, StartQuery, ScanFallsBack,
           QueryTimeout, MutationStarts, PciAdopts, PciEnds, OtherMutationEnds, LimitEnds,
           ConnectionLost, Reconnect
<1> QED
  BY <1>1, InitInv, StepInv, PTL DEF Spec, FreshCellSurvives

-----------------------------------------------------------------------------
(* The refinement: what the steps of Arbitration are here.                 *)

Jobs == Query \cup ({"volt", "other"} \X Object) \cup {PciJob}

SlotHolders == IF pci # {} THEN {PciJob} ELSE {}

\* The jobs on an object, one by one.
LEMMA WorkingIs ==
    ASSUME NEW m \in Object, NEW j
    PROVE  j \in Working(m) <=>
               \/ j \in Query /\ query[j].object = m /\ query[j].kind \in {"scan", "carrier"}
               \/ call[m]["volt"] # "none" /\ j = <<"volt", m>>
               \/ kind[m] = "other" /\ j = <<"other", m>>
               \/ m \in pci /\ j = PciJob
BY DEF Working

\* The same after a step.
LEMMA WorkingWillBe ==
    ASSUME NEW m \in Object, NEW j
    PROVE  j \in Working(m)' <=>
               \/ j \in Query /\ query'[j].object = m /\ query'[j].kind \in {"scan", "carrier"}
               \/ call'[m]["volt"] # "none" /\ j = <<"volt", m>>
               \/ kind'[m] = "other" /\ j = <<"other", m>>
               \/ m \in pci' /\ j = PciJob
BY DEF Working

\* Whoever works on an object is a job of the arbiter.
LEMMA WorkingAreJobs == \A m \in Object : Working(m)' \subseteq Jobs
BY DEF Working, Jobs

\* Nothing changes hands.
LEMMA StutterStep ==
    ASSUME generation' = generation, SlotHolders' = SlotHolders,
           \A m \in Object : Working(m)' = Working(m)
    PROVE  UNCHANGED Arbiter!vars
BY DEF Arbiter!vars, SlotHolders

\* Job j gives back what it has.
LEMMA ReleaseStep ==
    ASSUME NEW j \in Jobs, generation' = generation, SlotHolders' = SlotHolders \ {j},
           \A m \in Object : Working(m)' = Working(m) \ {j}
    PROVE  Arbiter!Next
<1>1. Arbiter!Release(j)
  BY DEF Arbiter!Release, SlotHolders
<1> QED BY <1>1 DEF Arbiter!Next, Jobs

\* Job j takes objects nobody works on, of a slot nobody else holds.
LEMMA AcquireStep ==
    ASSUME NEW j \in Jobs, generation' = generation, SlotHolders \subseteq {j},
           SlotHolders' = SlotHolders \/ (SlotHolders' = {j} /\ SlotHolders = {}),
           \A m \in Object : Working(m)' = Working(m) \/ (Working(m)' = {j} /\ Working(m) = {})
    PROVE  Arbiter!Next
<1> DEFINE H == [r \in Object \cup {Slot} |-> IF r = Slot THEN SlotHolders ELSE Working(r)]
<1>1. Slot \notin Object
  OBVIOUS
<1>2. /\ H[Slot] = SlotHolders /\ \A m \in Object : H[m] = Working(m)
      /\ H'[Slot] = SlotHolders' /\ \A m \in Object : H'[m] = Working(m)'
  BY <1>1
<1>3. H' \in [Object \cup {Slot} -> SUBSET Jobs]
  BY WorkingAreJobs DEF SlotHolders, Jobs
<1>4. \A r \in Object \cup {Slot} :
         H'[r] = H[r] \/ (H'[r] = {j} /\ H[r] = {} /\ H[Slot] \subseteq {j})
  BY <1>2
<1> DEFINE P == [r \in Object \cup {Slot} |-> IF r # Slot /\ r <= generation THEN Slot ELSE 0]
<1>5. P' = P /\ \A r \in Object \cup {Slot} : P[r] \in {Slot, 0}
  OBVIOUS
<1>6. \A r \in Object \cup {Slot} :
         H'[r] = H[r] \/ (H'[r] = {j} /\ H[r] = {} /\ (P[r] = 0 \/ H[P[r]] \subseteq {j}))
  BY <1>4, <1>5
<1>7. Arbiter!Acquire(j)
  BY <1>3, <1>5, <1>6 DEF Arbiter!Acquire, Arbiter!MayTake, SlotHolders, Jobs
<1> QED BY <1>7 DEF Arbiter!Next, Jobs

\* An object is admitted that nobody works on yet.
LEMMA AttachStep ==
    ASSUME generation \in Nat, generation' = generation + 1, generation' \in Object,
           SlotHolders' = SlotHolders, \A m \in Object : Working(m)' = Working(m)
    PROVE  Arbiter!Next
<1> DEFINE P == [r \in Object \cup {Slot} |-> IF r # Slot /\ r <= generation THEN Slot ELSE 0]
           n == generation + 1
<1>1. P[n] = 0
  OBVIOUS
<1>2. P' = [P EXCEPT ![n] = Slot]
  <2>1. \A r \in Object : (r <= generation' <=> r <= generation \/ r = n)
    OBVIOUS
  <2>2. \A r \in Object \cup {Slot} : P'[r] = IF r = n THEN Slot ELSE P[r]
    BY <2>1
  <2>3. DOMAIN P' = Object \cup {Slot} /\ P = [r \in Object \cup {Slot} |-> P[r]]
    OBVIOUS
  <2>4. P' = [r \in Object \cup {Slot} |-> P'[r]]
    OBVIOUS
  <2> HIDE DEF P
  <2> QED BY <2>2, <2>3, <2>4
<1>3. Arbiter!Attach(n, Slot)
  BY <1>1, <1>2 DEF Arbiter!Attach, SlotHolders
<1> QED BY <1>3 DEF Arbiter!Next

\* An object nobody marked busy has no work.
LEMMA IdleObject ==
    ASSUME Inv, NEW m \in Object, ~Busy(m)
    PROVE  Working(m) = {}
<1>1. \A j : j \notin Working(m)
  BY WorkingIs DEF Inv, Admitted, Busy, HasActive
<1> QED BY <1>1

\* The tests of the handlers find the newest object idle.
LEMMA QuietIsIdle ==
    ASSUME Inv, live, ~volt.pending, kind[generation] = "none",
           ~HasActive("scan", generation), ~HasActive("carrier", generation)
    PROVE  generation \in Object /\ Working(generation) = {}
<1>1. generation \in Object
  BY DEF Inv, Admitted
<1>2. call[generation]["volt"] = "none"
  BY <1>1 DEF Inv, PendingIsBacked, Admitted, TypeOK, CallRecord
<1> QED BY <1>1, <1>2, IdleObject DEF Busy

\* A scan or a carrier query takes the newest object.
LEMMA QueryTakes ==
    ASSUME Inv, NEW q \in Query, NEW k \in {"scan", "carrier"},
           Requested, kind[generation] = "none", StartQuery(q, k)
    PROVE  Arbiter!Next
<1>1. /\ generation \in Object /\ Working(generation) = {}
      /\ pci = {} /\ query[q].kind = "none"
  BY QuietIsIdle DEF Requested, Quiet, HasActiveMutation, StartQuery, Running
<1>2. UNCHANGED <<generation, kind, pci, call>>
  BY DEF StartQuery, modem, mutations
<1>3. /\ query'[q].kind = k /\ query'[q].object = generation
      /\ \A p \in Query : p # q => query'[p] = query[p]
  BY DEF StartQuery, NewQuery, NoQuery, Inv, TypeOK
<1>4. ASSUME NEW m \in Object
      PROVE  Working(m)' = Working(m) \/ (Working(m)' = {q} /\ Working(m) = {})
  <2>1. CASE m = generation
    <3>1. \A j : j \in Working(m)' <=> j = q \/ j \in Working(m)
      BY <1>1, <1>2, <1>3, <2>1, WorkingIs, WorkingWillBe
    <3>2. Working(m) = {}
      BY <1>1, <2>1
    <3>3. Working(m)' = {q}
      BY <3>1, <3>2
    <3> QED BY <3>2, <3>3
  <2>2. CASE m # generation
    <3>1. \A j : j \in Working(m)' <=> j \in Working(m)
      BY <1>1, <1>2, <1>3, <2>2, WorkingIs, WorkingWillBe
    <3> QED BY <3>1
  <2> QED BY <2>1, <2>2
<1>5. SlotHolders' = SlotHolders /\ SlotHolders = {}
  BY <1>1, <1>2 DEF SlotHolders
<1> QED BY <1>2, <1>4, <1>5, AcquireStep DEF Jobs

\* It gives the object back when it completes, on whatever path.
LEMMA QueryReleases ==
    ASSUME Inv, NEW q \in Query, CompleteQuery(q), UNCHANGED <<generation, kind, pci, call>>
    PROVE  Arbiter!Next
<1>1. /\ query'[q].kind = "none"
      /\ \A p \in Query : p # q => query'[p] = query[p]
  BY DEF CompleteQuery, NoQuery, Inv, TypeOK
<1>2. ASSUME NEW m \in Object
      PROVE  q # <<"volt", m>> /\ q # <<"other", m>> /\ q # PciJob
  BY DEF PciJob
<1>3. ASSUME NEW m \in Object
      PROVE  Working(m)' = Working(m) \ {q}
  <2>1. \A j : j \in Working(m)' <=> j \in Working(m) /\ j # q
    BY <1>1, <1>2, WorkingIs, WorkingWillBe
  <2> QED BY <2>1
<1>4. SlotHolders' = SlotHolders \ {q}
  BY DEF SlotHolders, PciJob
<1> QED BY <1>3, <1>4, ReleaseStep DEF Jobs

\* Steps that leave calls, locks and the kinds of queries alone.
LEMMA NothingChangesHands ==
    ASSUME Inv, UNCHANGED <<generation, kind, pci>>,
           \A q \in Query :
               \/ query'[q].object = query[q].object /\ query'[q].kind = query[q].kind
               \/ {query[q].kind, query'[q].kind} \cap {"scan", "carrier"} = {},
           \A m \in Object : call'[m]["volt"] = "none" <=> call[m]["volt"] = "none"
    PROVE  UNCHANGED Arbiter!vars
<1>1. ASSUME NEW m \in Object
      PROVE  Working(m)' = Working(m)
  <2>1. \A q \in Query : (query'[q].object = m /\ query'[q].kind \in {"scan", "carrier"})
                     <=> (query[q].object = m /\ query[q].kind \in {"scan", "carrier"})
    OBVIOUS
  <2>2. \A j : j \in Working(m)' <=> j \in Working(m)
    BY <2>1, WorkingIs, WorkingWillBe
  <2> QED BY <2>2
<1>2. SlotHolders' = SlotHolders
  BY DEF SlotHolders
<1> QED BY <1>1, <1>2, StutterStep

\* Every step of a query takes or gives back as Arbitration allows.
LEMMA QuerySteps ==
    ASSUME Inv, NEW q \in Query,
           \/ CellLockStatus(q) \/ CellScan(q) \/ GetCarrierInfo(q)
           \/ QueryEnds(q) \/ ScanFallsBack(q) \/ QueryTimeout(q)
    PROVE  [Arbiter!Next]_(Arbiter!vars)
<1>1. CASE CellLockStatus(q)
  <2>1. UNCHANGED <<generation, kind, pci, call>>
    BY <1>1 DEF CellLockStatus, StartQuery, modem, mutations
  <2>2. \A p \in Query : \/ query'[p] = query[p]
                         \/ query[p].kind = "none" /\ query'[p].kind = "status"
    BY <1>1 DEF CellLockStatus, StartQuery, Running, NewQuery, NoQuery, Inv, TypeOK
  <2> QED BY <2>1, <2>2, NothingChangesHands
<1>2. CASE CellScan(q) \/ GetCarrierInfo(q)
  BY <1>2, QueryTakes DEF CellScan, GetCarrierInfo
<1>3. CASE QueryEnds(q)
  <2>1. CompleteQuery(q) /\ UNCHANGED <<generation, kind, pci, call>>
    BY <1>3 DEF QueryEnds, StatusReady, CarrierReady, ScanFails, CompletesAs, ScanSucceeds,
                modem, mutations
  <2> QED BY <2>1, QueryReleases
<1>4. CASE ScanFallsBack(q) \/ QueryTimeout(q)
  <2>1. UNCHANGED <<generation, kind, pci, call>>
    BY <1>4 DEF ScanFallsBack, QueryTimeout, modem, mutations
  <2>2. \A p \in Query : query'[p].object = query[p].object /\ query'[p].kind = query[p].kind
    <3>1. CASE ScanFallsBack(q)
      BY <3>1 DEF ScanFallsBack, Inv, TypeOK, QueryRecord
    <3>2. CASE QueryTimeout(q)
      BY <3>2 DEF QueryTimeout, Inv, TypeOK, QueryRecord
    <3> QED BY <1>4, <3>1, <3>2
  <2> QED BY <2>1, <2>2, NothingChangesHands
<1> QED BY <1>1, <1>2, <1>3, <1>4

\* A mutation takes the newest object, the PCI mutation its slot as well.
LEMMA MutationTakes ==
    ASSUME Inv, NEW k \in {"l850", "other"}, MutationStarts(k)
    PROVE  Arbiter!Next
<1> DEFINE j == IF k = "l850" THEN PciJob ELSE <<"other", generation>>
<1>1. /\ generation \in Object /\ Working(generation) = {} /\ pci = {}
      /\ kind[generation] = "none"
  BY QuietIsIdle DEF MutationStarts, Requested, Quiet, HasActiveMutation
<1>2. UNCHANGED <<generation, query, call>>
  BY DEF MutationStarts, modem
<1>3. /\ kind'[generation] = k /\ \A m \in Object : m # generation => kind'[m] = kind[m]
      /\ pci' = IF k = "l850" THEN {generation} ELSE {}
  BY <1>1 DEF MutationStarts, Inv, TypeOK
<1>4. \A m \in Object : m # generation => Working(m)' = Working(m)
  <2> SUFFICES ASSUME NEW m \in Object, m # generation PROVE Working(m)' = Working(m)
    OBVIOUS
  <2>1. \A i : i \in Working(m)' <=> i \in Working(m)
    BY <1>1, <1>2, <1>3, WorkingIs, WorkingWillBe
  <2> QED BY <2>1
<1>5. Working(generation)' = {j}
  <2>1. \A i : i \in Working(generation)' <=> i = j \/ i \in Working(generation)
    <3>1. CASE k = "l850"
      BY <1>1, <1>2, <1>3, <3>1, WorkingIs, WorkingWillBe
    <3>2. CASE k = "other"
      BY <1>1, <1>2, <1>3, <3>2, WorkingIs, WorkingWillBe
    <3> QED BY <3>1, <3>2
  <2> QED BY <1>1, <2>1
<1>6. /\ SlotHolders = {}
      /\ SlotHolders' = SlotHolders \/ SlotHolders' = {j}
  BY <1>1, <1>3 DEF SlotHolders
<1>7. j \in Jobs
  BY <1>1 DEF Jobs
<1> HIDE DEF j
<1>8. \A m \in Object : Working(m)' = Working(m) \/ (Working(m)' = {j} /\ Working(m) = {})
  BY <1>1, <1>2, <1>4, <1>5
<1> QED BY <1>2, <1>6, <1>7, <1>8, AcquireStep

\* The PCI mutation takes the object that replaced the one it reset.
LEMMA PciTakes ==
    ASSUME Inv, PciAdopts
    PROVE  Arbiter!Next
<1>1. /\ generation \in Object /\ pci # {} /\ pci' = pci \cup {generation}
      /\ kind[generation] = "none" /\ Working(generation) = {}
  BY IdleObject DEF PciAdopts, Inv, Admitted, PciFirst
<1>2. UNCHANGED <<generation, query, call>>
  BY DEF PciAdopts, modem
<1>3. kind'[generation] = "l850" /\ \A m \in Object : m # generation => kind'[m] = kind[m]
  BY <1>1 DEF PciAdopts, Inv, TypeOK
<1>4. \A m \in Object : m # generation => Working(m)' = Working(m)
  <2> SUFFICES ASSUME NEW m \in Object, m # generation PROVE Working(m)' = Working(m)
    OBVIOUS
  <2>1. \A i : i \in Working(m)' <=> i \in Working(m)
    BY <1>1, <1>2, <1>3, WorkingIs, WorkingWillBe
  <2> QED BY <2>1
<1>5. Working(generation)' = {PciJob}
  <2>1. \A i : i \in Working(generation)' <=> i = PciJob \/ i \in Working(generation)
    BY <1>1, <1>2, <1>3, WorkingIs, WorkingWillBe
  <2> QED BY <1>1, <2>1
<1>6. SlotHolders = {PciJob} /\ SlotHolders' = SlotHolders
  BY <1>1 DEF SlotHolders
<1>7. \A m \in Object : Working(m)' = Working(m) \/ (Working(m)' = {PciJob} /\ Working(m) = {})
  BY <1>1, <1>2, <1>4, <1>5
<1>8. PciJob \in Jobs
  BY DEF Jobs
<1> QED BY <1>2, <1>6, <1>7, <1>8, AcquireStep

\* Mutations give everything back at once.
LEMMA MutationReleases ==
    ASSUME Inv, PciEnds \/ \E m \in Object : OtherMutationEnds(m)
    PROVE  Arbiter!Next
<1>1. UNCHANGED <<generation, query, call>>
  BY DEF PciEnds, OtherMutationEnds, modem
<1>2. CASE PciEnds
  <2>1. /\ pci' = {} /\ \A m \in Object : kind'[m] = "other" <=> kind[m] = "other"
    BY <1>2 DEF PciEnds, Inv, Admitted
  <2>2. ASSUME NEW m \in Object
        PROVE  Working(m)' = Working(m) \ {PciJob}
    <3>1. \A q \in Query : q # PciJob
      BY DEF PciJob
    <3>2. \A i : i \in Working(m)' <=> i \in Working(m) /\ i # PciJob
      BY <1>1, <2>1, <3>1, WorkingIs, WorkingWillBe DEF PciJob
    <3> QED BY <3>2
  <2>3. SlotHolders' = SlotHolders \ {PciJob}
    BY <2>1 DEF SlotHolders
  <2>4. PciJob \in Jobs
    BY DEF Jobs
  <2> QED BY <1>1, <2>2, <2>3, <2>4, ReleaseStep
<1>3. ASSUME NEW o \in Object, OtherMutationEnds(o)
      PROVE  Arbiter!Next
  <2> DEFINE j == <<"other", o>>
  <2>1. /\ pci' = pci /\ kind'[o] = "none" /\ \A m \in Object : m # o => kind'[m] = kind[m]
    BY <1>3 DEF OtherMutationEnds, Inv, TypeOK
  <2>2. ASSUME NEW m \in Object
        PROVE  Working(m)' = Working(m) \ {j}
    <3>1. \A q \in Query : q # j
      OBVIOUS
    <3>2. \A i : i \in Working(m)' <=> i \in Working(m) /\ i # j
      BY <1>1, <2>1, <3>1, WorkingIs, WorkingWillBe DEF PciJob
    <3> QED BY <3>2
  <2>3. SlotHolders' = SlotHolders \ {j}
    BY <2>1 DEF SlotHolders, PciJob
  <2>4. j \in Jobs
    BY DEF Jobs
  <2> HIDE DEF j
  <2> QED BY <1>1, <2>2, <2>3, <2>4, ReleaseStep
<1> QED BY <1>2, <1>3

\* A voltage refresh takes the newest object; a cell refresh asks nobody.
LEMMA OverviewSteps ==
    ASSUME Inv, NEW refresh \in SUBSET {"cell", "volt"}, GetOverview(refresh)
    PROVE  [Arbiter!Next]_(Arbiter!vars)
<1> DEFINE j == <<"volt", generation>>
<1>1. UNCHANGED <<generation, query, kind, pci>> /\ generation \in Object
  BY DEF GetOverview, modem, mutations, Inv, Admitted
<1>2. /\ \A m \in Object : m # generation => call'[m] = call[m]
      /\ call'[generation]["volt"] =
            IF "volt" \in refresh THEN "sent" ELSE call[generation]["volt"]
  BY <1>1 DEF GetOverview, Inv, TypeOK, CallRecord
<1>3. CASE "volt" \notin refresh
  BY <1>1, <1>2, <1>3, NothingChangesHands
<1>4. CASE "volt" \in refresh
  <2>1. Working(generation) = {} /\ pci = {}
    BY <1>4, QuietIsIdle DEF GetOverview, VoltageDue, HasActiveMutation
  <2>2. \A m \in Object : m # generation => Working(m)' = Working(m)
    <3> SUFFICES ASSUME NEW m \in Object, m # generation PROVE Working(m)' = Working(m)
      OBVIOUS
    <3>1. \A i : i \in Working(m)' <=> i \in Working(m)
      BY <1>1, <1>2, WorkingIs, WorkingWillBe
    <3> QED BY <3>1
  <2>3. Working(generation)' = {j}
    <3>1. \A i : i \in Working(generation)' <=> i = j \/ i \in Working(generation)
      BY <1>1, <1>2, <1>4, WorkingIs, WorkingWillBe
    <3> QED BY <2>1, <3>1
  <2>4. SlotHolders = {} /\ SlotHolders' = SlotHolders
    BY <1>1, <2>1 DEF SlotHolders
  <2>5. j \in Jobs
    BY <1>1 DEF Jobs
  <2> HIDE DEF j
  <2>6. \A m \in Object : Working(m)' = Working(m) \/ (Working(m)' = {j} /\ Working(m) = {})
    BY <1>1, <2>1, <2>2, <2>3
  <2> QED BY <1>1, <2>4, <2>5, <2>6, AcquireStep
<1> QED BY <1>3, <1>4

\* The answer to a voltage command gives back the object it was asked of.
LEMMA CallSteps ==
    ASSUME Inv, NEW o \in Object, CallEnds(o)
    PROVE  [Arbiter!Next]_(Arbiter!vars)
<1>1. UNCHANGED <<generation, query, kind, pci>>
  BY DEF CallEnds, VoltageReady, CellReady, modem, mutations
<1>2. ASSUME NEW ok \in BOOLEAN, CellReady(o, ok)
      PROVE  [Arbiter!Next]_(Arbiter!vars)
  <2>1. \A m \in Object : call'[m]["volt"] = call[m]["volt"]
    BY <1>2 DEF CellReady, Inv, TypeOK, CallRecord
  <2> QED BY <1>1, <2>1, NothingChangesHands
<1>3. ASSUME NEW ok \in BOOLEAN, VoltageReady(o, ok)
      PROVE  [Arbiter!Next]_(Arbiter!vars)
  <2> DEFINE j == <<"volt", o>>
  <2>1. call'[o]["volt"] = "none" /\ \A m \in Object : m # o => call'[m] = call[m]
    BY <1>3 DEF VoltageReady, Inv, TypeOK, CallRecord
  <2>2. ASSUME NEW m \in Object
        PROVE  Working(m)' = Working(m) \ {j}
    <3>1. \A q \in Query : q # j
      OBVIOUS
    <3>2. \A i : i \in Working(m)' <=> i \in Working(m) /\ i # j
      BY <1>1, <2>1, <3>1, WorkingIs, WorkingWillBe DEF PciJob
    <3> QED BY <3>2
  <2>3. SlotHolders' = SlotHolders \ {j}
    BY <1>1 DEF SlotHolders, PciJob
  <2>4. j \in Jobs
    BY DEF Jobs
  <2> HIDE DEF j
  <2> QED BY <1>1, <2>2, <2>3, <2>4, ReleaseStep
<1> QED BY <1>2, <1>3 DEF CallEnds

\* Objects come and go; connections, ages and limits are nobody's work.
LEMMA OtherSteps ==
    ASSUME Inv, \/ CacheAges \/ ModemRemoved \/ ModemAdded \/ ConnectionLost \/ Reconnect
                \/ \E k \in Kinds : LimitEnds(k)
    PROVE  [Arbiter!Next]_(Arbiter!vars)
<1>1. CASE ModemAdded
  <2>1. /\ UNCHANGED <<kind, pci, query, call>> /\ generation \in Nat
        /\ generation' = generation + 1 /\ generation' \in Object
    BY <1>1 DEF ModemAdded, mutations, Inv, TypeOK
  <2>2. \A m \in Object : Working(m)' = Working(m)
    BY <2>1 DEF Working
  <2>3. SlotHolders' = SlotHolders
    BY <2>1 DEF SlotHolders
  <2> QED BY <2>1, <2>2, <2>3, AttachStep
<1>2. CASE ModemRemoved
  <2>1. UNCHANGED <<generation, kind, pci>>
    BY <1>2 DEF ModemRemoved, mutations
  <2>2. \A q \in Query : query'[q].object = query[q].object /\ query'[q].kind = query[q].kind
    BY <1>2 DEF ModemRemoved, Inv, TypeOK, QueryRecord
  <2>3. \A m \in Object : call'[m]["volt"] = "none" <=> call[m]["volt"] = "none"
    BY <1>2 DEF ModemRemoved, Inv, TypeOK, CallRecord, Cancelled
  <2> QED BY <2>1, <2>2, <2>3, NothingChangesHands
<1>3. CASE ConnectionLost
  <2>1. UNCHANGED <<generation, kind, pci, call>>
    BY <1>3 DEF ConnectionLost, modem, mutations
  <2>2. \A q \in Query : query'[q].object = query[q].object /\ query'[q].kind = query[q].kind
    BY <1>3 DEF ConnectionLost, Inv, TypeOK, QueryRecord
  <2> QED BY <2>1, <2>2, NothingChangesHands
<1>4. CASE UNCHANGED <<generation, kind, pci, query, call>>
  BY <1>4, NothingChangesHands
<1> QED
  BY <1>1, <1>2, <1>3, <1>4 DEF CacheAges, Reconnect, LimitEnds, modem, mutations

(***************************************************************************)
(* The tables and flags of the method handlers implement Arbitration: each *)
(* step of the queries, caches, mutations and the modem registry takes,    *)
(* gives back or attaches as Arbitration allows, or changes nothing there. *)
(***************************************************************************)
THEOREM QueriesArbitrated == Spec => Arbitrated
<1>1. Init => Arbiter!Init
  <2> SUFFICES ASSUME Init PROVE Arbiter!Init
    OBVIOUS
  <2>1. \A m \in Object : Working(m) = {}
    <3> SUFFICES ASSUME NEW m \in Object PROVE Working(m) = {}
      OBVIOUS
    <3>1. \A j : j \notin Working(m)
      BY WorkingIs DEF Init, NoQuery, NoCall
    <3> QED BY <3>1
  <2> QED BY <2>1 DEF Init, Arbiter!Init
<1>2. Inv /\ [Next]_vars => [Arbiter!Next]_(Arbiter!vars)
  <2> SUFFICES ASSUME Inv, [Next]_vars PROVE [Arbiter!Next]_(Arbiter!vars)
    OBVIOUS
  <2>1. CASE UNCHANGED vars
    BY <2>1, NothingChangesHands DEF vars
  <2> QED
    BY <2>1, QuerySteps, MutationTakes, PciTakes, MutationReleases, OverviewSteps, CallSteps,
       OtherSteps DEF Next
<1> QED
  BY <1>1, <1>2, InitInv, StepInv, PTL DEF Spec, Arbitrated, Arbiter!Spec

(***************************************************************************)
(* A scan, a carrier query, a voltage command and a mutation never work on *)
(* the same modem object: the code behind docs/threat-model.md, "Ownership *)
(* and concurrency".                                                       *)
(***************************************************************************)
THEOREM WorkApart == Spec => []Arbiter!Exclusive
<1>1. Arbiter!Spec => []Arbiter!Exclusive
  BY Arbiter!JobsApart
<1> QED BY <1>1, QueriesArbitrated, PTL DEF Arbitrated
=============================================================================
