------------------------ MODULE AzureRouteServerProofs ------------------------
(***************************************************************************)
(* Proofs about AzureRouteServer, for every set of VMs, of peerings of     *)
(* others and of ASNs, every disturbance and every bound.  The names of    *)
(* peerings of ours may be cut, except where a theorem says they are not.  *)
(*                                                                         *)
(* A call decides on one view of the cloud and acts on another.  AInv says *)
(* what each step of it may rely on: WantInv that the wanted peerings of   *)
(* ours are those of the nodes given, ForwardInv which nodes forward,      *)
(* WriteInv that the writes and deletes still to do are all that separates *)
(* the peerings from the wanted ones, and OthersInv the same for peerings  *)
(* of others that nobody wrote since they were listed.                     *)
(***************************************************************************)
EXTENDS AzureRouteServer, FiniteSetTheorems, TLAPS

\* The peerings that are recognised as ours.
Ours == Addresses \ Cut

WantInv ==
    /\ worker.step \in {"idle", "nodes", "skipped"} =>
          worker.nodes = {} /\ worker.call = "ReconcileNodes"
    /\ worker.step \in {"nics", "enable", "count", "done"} => worker.call = "ReconcileNodes"
    /\ worker.step \in {"nics", "enable", "list", "compare", "write", "count", "done"} =>
          /\ \A a \in Ours : worker.want[a] # Absent <=> a \in Desired
          /\ worker.call = "ReconcileNodes" <=> worker.nodes # {}
    /\ worker.step \in {"nics", "enable", "list"} => \A n \in Foreign : worker.want[n] = Absent

ForwardInv ==
    /\ worker.step = "enable" => worker.nodes \subseteq forwarding \cup worker.off
    /\ worker.step \in {"list", "compare", "write", "count", "done"} =>
          worker.nodes \subseteq forwarding

WriteInv ==
    /\ worker.step = "write" =>
          \A a \in Ours :
             /\ a \in worker.writes => a \in Desired
             /\ a \in worker.deletes => a \notin Desired
             /\ a \in Desired => a \in worker.writes \/ a \in Peered
             /\ a \in Peered => a \in worker.deletes \/ a \in Desired
    /\ worker.step = "count" => \A a \in Ours : a \in Peered <=> a \in Desired

OthersInv ==
    /\ worker.step \in {"compare", "write"} =>
          \A n \in Foreign \ touched : worker.want[n] = peerings[n]
    /\ worker.step = "write" =>
          \A n \in Foreign \ touched : n \notin worker.writes /\ n \notin worker.deletes

AInv == TypeOK /\ WantInv /\ ForwardInv /\ WriteInv /\ OthersInv

-----------------------------------------------------------------------------
(* Types.                                                                  *)

LEMMA IdleTyped == Idle \in Reconciles
BY DEF Idle, Reconciles, Steps, Peerings, NoPeerings

LEMMA IdleFields ==
    /\ Idle.step = "idle" /\ Idle.call = "ReconcileNodes" /\ Idle.nodes = {}
BY DEF Idle

\* The fields of a call, and a call that goes on to another step.
LEMMA Fields ==
    ASSUME NEW w \in Reconciles
    PROVE  /\ w.step \in Steps /\ w.call \in {"ReconcileNodes", "Cleanup"}
           /\ w.nodes \in SUBSET VMs /\ w.off \in SUBSET VMs /\ w.want \in Peerings
           /\ w.writes \in SUBSET Names /\ w.deletes \in SUBSET Names
BY DEF Reconciles

LEMMA GotoFields ==
    ASSUME worker \in Reconciles, NEW s \in Steps, Goto(s)
    PROVE  /\ worker' \in Reconciles /\ worker'.step = s
           /\ worker'.call = worker.call /\ worker'.nodes = worker.nodes
           /\ worker'.off = worker.off /\ worker'.want = worker.want
           /\ worker'.writes = worker.writes /\ worker'.deletes = worker.deletes
BY DEF Goto, Reconciles

LEMMA ChargeTyped ==
    ASSUME budget \in Nat, NEW out \in Outcomes, Charge(out) PROVE budget' \in Nat
BY DEF Outcomes, Charge

LEMMA AddressesFinite == IsFiniteSet(Addresses)
<1> DEFINE f == [v \in VMs |-> Address[v]]
<1>1. f \in Surjection(VMs, Addresses)
    BY DEF Surjection, Addresses
<1> QED
    BY <1>1, FS_Surjection, FiniteAssumption

LEMMA DesiredInAddresses == worker \in Reconciles => Desired \subseteq Addresses
BY Fields DEF Desired, Addresses

-----------------------------------------------------------------------------
(* Initial states, and the environment.                                    *)

LEMMA InitAInv == Init => AInv
<1> SUFFICES ASSUME Init PROVE AInv
    OBVIOUS
<1>1. TypeOK
    BY IdleTyped, BoundAssumption DEF Init, TypeOK, RouterSets
<1>2. WantInv /\ ForwardInv /\ WriteInv /\ OthersInv
    BY IdleFields DEF Init, WantInv, ForwardInv, WriteInv, OthersInv
<1> QED
    BY <1>1, <1>2 DEF AInv

\* No call in progress relies on anything.
LEMMA IdleKeeps ==
    ASSUME worker' = Idle
    PROVE  WantInv' /\ ForwardInv' /\ WriteInv' /\ OthersInv'
BY IdleFields DEF WantInv, ForwardInv, WriteInv, OthersInv

LEMMA OthersWriteKeeps ==
    ASSUME AInv, NEW n \in Foreign, OthersWrite(n) PROVE AInv'
<1> USE DEF AInv, OthersWrite, specVars, Event
<1>1. PICK asn \in ASNs \cup {Absent} : peerings' = [peerings EXCEPT ![n] = asn]
    OBVIOUS
<1>2. n \in Names /\ n \notin Addresses
    BY NamesAssumption DEF Names
<1>3. peerings' \in Peerings /\ \A m \in Names : peerings'[m] = IF m = n THEN asn ELSE peerings[m]
  <2>1. peerings \in Peerings
    BY DEF TypeOK
  <2> QED
    BY <1>1, <1>2, <2>1 DEF Peerings
<1>4. Peered' = Peered /\ Desired' = Desired
    BY <1>2, <1>3 DEF Peered, Desired, Names
<1>5. TypeOK'
    BY <1>3 DEF TypeOK
<1>6. WantInv' /\ ForwardInv' /\ WriteInv'
    BY <1>4 DEF WantInv, ForwardInv, WriteInv
<1>7. OthersInv'
    BY <1>3 DEF OthersInv, Names
<1> QED
    BY <1>5, <1>6, <1>7

LEMMA PeeringEditedKeeps ==
    ASSUME AInv, NEW a \in Addresses, PeeringEdited(a) PROVE AInv'
<1> USE DEF AInv, PeeringEdited, specVars, Event
<1>1. PICK asn \in ASNs : peerings' = [peerings EXCEPT ![a] = asn]
    OBVIOUS
<1>2. a \in Names /\ a \notin Foreign /\ asn # Absent
    BY NamesAssumption, ASNAssumption DEF Names
<1>3. peerings' \in Peerings /\ \A m \in Names : peerings'[m] = IF m = a THEN asn ELSE peerings[m]
  <2>1. peerings \in Peerings
    BY DEF TypeOK
  <2> QED
    BY <1>1, <1>2, <2>1 DEF Peerings
<1>4. Peered' = Peered /\ Desired' = Desired
    BY <1>2, <1>3 DEF Peered, Desired, Names
<1>5. TypeOK'
    BY <1>3 DEF TypeOK
<1>6. WantInv' /\ ForwardInv' /\ WriteInv'
    BY <1>4 DEF WantInv, ForwardInv, WriteInv
<1>7. OthersInv'
    BY <1>2, <1>3 DEF OthersInv, Names
<1> QED
    BY <1>5, <1>6, <1>7

LEMMA QuietKeeps ==
    ASSUME AInv, UNCHANGED <<peerings, forwarding, touched, worker>>
    PROVE  WantInv' /\ ForwardInv' /\ WriteInv' /\ OthersInv' /\ Peered' = Peered /\ Desired' = Desired
BY DEF AInv, WantInv, ForwardInv, WriteInv, OthersInv, Peered, Desired

LEMMA SpecEditsKeep ==
    ASSUME AInv, RoutersChange \/ ASNEdited \/ ConfigDeleted PROVE AInv'
<1>1. UNCHANGED <<peerings, forwarding, touched, worker>>
    BY DEF RoutersChange, ASNEdited, ConfigDeleted
<1>2. TypeOK'
  <2>1. CASE RoutersChange
    BY <2>1 DEF AInv, TypeOK, RoutersChange, Event, RouterSets
  <2>2. CASE ASNEdited
    BY <2>2 DEF AInv, TypeOK, ASNEdited, Event
  <2>3. CASE ConfigDeleted
    BY <2>3 DEF AInv, TypeOK, ConfigDeleted, Event
  <2> QED
    BY <2>1, <2>2, <2>3
<1> QED
    BY <1>1, <1>2, QuietKeeps DEF AInv

LEMMA RestartKeeps == ASSUME AInv, Restart PROVE AInv'
<1>1. TypeOK'
    BY IdleTyped DEF AInv, TypeOK, Restart, Event, specVars
<1> QED
    BY <1>1, IdleKeeps DEF AInv, Restart

-----------------------------------------------------------------------------
(* ReconcileNodes and Cleanup.                                             *)

\* A call may be given up at any point, whatever its last step did.
LEMMA GivingUpKeeps ==
    ASSUME AInv, worker' = Idle, UNCHANGED <<specVars, gauge>>,
           peerings' \in Peerings, forwarding' \in SUBSET VMs, touched' \in SUBSET Foreign,
           budget' \in Nat
    PROVE  AInv'
<1>1. TypeOK'
    BY IdleTyped DEF AInv, TypeOK, specVars
<1> QED
    BY <1>1, IdleKeeps DEF AInv

LEMMA DiscoverEndpointsKeeps == ASSUME AInv, DiscoverEndpoints PROVE AInv'
<1>1. budget' \in Nat
    BY ChargeTyped DEF DiscoverEndpoints, AInv, TypeOK
<1>2. worker.step = "idle" /\ worker \in Reconciles /\ worker.nodes = {}
      /\ worker.call = "ReconcileNodes"
    BY DEF DiscoverEndpoints, AInv, TypeOK, WantInv
<1>3. UNCHANGED <<peerings, specVars, forwarding, gauge, touched>>
    BY DEF DiscoverEndpoints
<1>4. CASE worker' = Idle
    BY <1>1, <1>3, <1>4, GivingUpKeeps DEF AInv, TypeOK
<1>5. CASE Goto("nodes") \/ Goto("skipped")
  <2>1. worker' \in Reconciles /\ worker'.step \in {"nodes", "skipped"}
        /\ worker'.nodes = {} /\ worker'.call = "ReconcileNodes"
    BY <1>2, <1>5, GotoFields DEF Steps
  <2>2. TypeOK'
    BY <1>1, <1>3, <2>1 DEF AInv, TypeOK, specVars
  <2> QED
    BY <2>1, <2>2 DEF AInv, WantInv, ForwardInv, WriteInv, OthersInv
<1>6. CASE worker' = [Idle EXCEPT !.step = "list", !.call = "Cleanup"]
  <2>1. worker' \in Reconciles
    BY <1>6 DEF Idle, Reconciles, Steps, Peerings, NoPeerings
  <2>2. worker'.step = "list" /\ worker'.nodes = {} /\ worker'.call = "Cleanup"
        /\ worker'.want = NoPeerings
    BY <1>6 DEF Idle
  <2>3. TypeOK'
    BY <1>1, <1>3, <2>1 DEF AInv, TypeOK, specVars
  <2>4. Desired' = {} /\ \A n \in Names : worker'.want[n] = Absent
    BY <2>2 DEF Desired, NoPeerings
  <2>5. WantInv'
    BY <2>2, <2>4 DEF WantInv, Ours, Names
  <2>6. ForwardInv' /\ WriteInv' /\ OthersInv'
    BY <2>2 DEF ForwardInv, WriteInv, OthersInv
  <2> QED
    BY <2>3, <2>5, <2>6 DEF AInv
<1> QED
    BY <1>4, <1>5, <1>6 DEF DiscoverEndpoints, Fail

LEMMA ReconcileNodesKeeps == ASSUME AInv, ReconcileNodes PROVE AInv'
<1>1. UNCHANGED <<peerings, specVars, forwarding, gauge, touched, budget>>
    BY DEF ReconcileNodes
<1>2. CASE worker' = Idle
    BY <1>1, <1>2, GivingUpKeeps DEF AInv, TypeOK
<1>3. CASE routers # {}
  <2> DEFINE want == [n \in Names |-> IF \E v \in routers : Address[v] = n
                                      THEN localASN ELSE Absent]
  <2>0. worker' = [worker EXCEPT !.step = "nics", !.nodes = routers, !.want = want]
    BY <1>3 DEF ReconcileNodes
  <2>1. want \in Peerings
    BY DEF Peerings, AInv, TypeOK
  <2>2. /\ worker \in Reconciles /\ routers \in SUBSET VMs /\ localASN \in ASNs
        /\ worker.call = "ReconcileNodes"
    BY DEF ReconcileNodes, AInv, TypeOK, WantInv
  <2> HIDE DEF want
  <2>3. worker' \in Reconciles
    BY <2>0, <2>1, <2>2 DEF Reconciles, Steps
  <2>4. /\ worker'.step = "nics" /\ worker'.nodes = routers /\ worker'.want = want
        /\ worker'.call = "ReconcileNodes"
    BY <2>0, <2>2 DEF Reconciles
  <2>5. /\ \A a \in Addresses : want[a] # Absent <=> a \in Desired'
        /\ \A n \in Foreign : want[n] = Absent
    BY <2>2, <2>4, ASNAssumption, NamesAssumption DEF want, Desired, Names, Addresses
  <2>6. TypeOK'
    BY <1>1, <2>3 DEF AInv, TypeOK, specVars
  <2>7. WantInv'
    BY <1>3, <2>4, <2>5 DEF WantInv, Ours
  <2>8. ForwardInv' /\ WriteInv' /\ OthersInv'
    BY <2>4 DEF ForwardInv, WriteInv, OthersInv
  <2> QED
    BY <2>6, <2>7, <2>8 DEF AInv
<1> QED
    BY <1>2, <1>3 DEF ReconcileNodes

LEMMA ListNICsKeeps == ASSUME AInv, ListNICs PROVE AInv'
<1>1. budget' \in Nat
    BY ChargeTyped DEF ListNICs, AInv, TypeOK
<1>2. worker.step = "nics" /\ worker \in Reconciles
      /\ UNCHANGED <<peerings, specVars, forwarding, gauge, touched>>
    BY DEF ListNICs, AInv, TypeOK
<1>3. CASE worker' = Idle
    BY <1>1, <1>2, <1>3, GivingUpKeeps DEF AInv, TypeOK
<1>4. CASE worker' = [worker EXCEPT !.step = "enable", !.off = worker.nodes \ forwarding]
  <2>1. worker' \in Reconciles
    BY <1>2, <1>4 DEF Reconciles, Steps
  <2>2. /\ worker'.step = "enable" /\ worker'.off = worker.nodes \ forwarding
        /\ worker'.nodes = worker.nodes /\ worker'.call = worker.call
        /\ worker'.want = worker.want
    BY <1>2, <1>4 DEF Reconciles
  <2>3. TypeOK'
    BY <1>1, <1>2, <2>1 DEF AInv, TypeOK, specVars
  <2>4. WantInv'
    BY <1>2, <2>2 DEF AInv, WantInv, Desired
  <2>5. ForwardInv' /\ WriteInv' /\ OthersInv'
    BY <1>2, <2>2 DEF ForwardInv, WriteInv, OthersInv
  <2> QED
    BY <2>3, <2>4, <2>5 DEF AInv
<1> QED
    BY <1>3, <1>4 DEF ListNICs, Fail

LEMMA EnableIPForwardingKeeps == ASSUME AInv, EnableIPForwarding PROVE AInv'
<1>1. PICK v \in worker.off, out \in Outcomes :
        /\ Charge(out)
        /\ \/ /\ forwarding' = IF Applied(out) THEN forwarding \cup {v} ELSE forwarding
              /\ IF out = "ok" THEN worker' = [worker EXCEPT !.off = @ \ {v}] ELSE Fail
           \/ v \notin routers /\ Fail /\ UNCHANGED forwarding
    BY DEF EnableIPForwarding
<1>2. worker.step = "enable" /\ worker \in Reconciles
      /\ UNCHANGED <<peerings, specVars, gauge, touched>>
    BY DEF EnableIPForwarding, AInv, TypeOK
<1>3. v \in VMs /\ budget' \in Nat /\ forwarding' \in SUBSET VMs
    BY <1>1, <1>2, Fields, ChargeTyped DEF AInv, TypeOK
<1>4. CASE worker' = Idle
    BY <1>2, <1>3, <1>4, GivingUpKeeps DEF AInv, TypeOK
<1>5. CASE /\ forwarding' = forwarding \cup {v}
           /\ worker' = [worker EXCEPT !.off = @ \ {v}]
  <2>1. worker' \in Reconciles
    BY <1>2, <1>5 DEF Reconciles
  <2>2. /\ worker'.step = "enable" /\ worker'.off = worker.off \ {v}
        /\ worker'.nodes = worker.nodes /\ worker'.call = worker.call
        /\ worker'.want = worker.want
    BY <1>2, <1>5 DEF Reconciles
  <2>3. TypeOK'
    BY <1>2, <1>3, <2>1 DEF AInv, TypeOK, specVars
  <2>4. WantInv'
    BY <1>2, <2>2 DEF AInv, WantInv, Desired
  <2>5. ForwardInv' /\ WriteInv' /\ OthersInv'
    BY <1>2, <1>5, <2>2 DEF AInv, ForwardInv, WriteInv, OthersInv
  <2> QED
    BY <2>3, <2>4, <2>5 DEF AInv
<1> QED
    BY <1>1, <1>4, <1>5 DEF Fail, Applied

LEMMA NodesForwardKeeps == ASSUME AInv, NodesForward PROVE AInv'
<1>1. /\ worker.step = "enable" /\ worker.off = {} /\ worker \in Reconciles
      /\ UNCHANGED <<peerings, specVars, forwarding, gauge, touched, budget>>
    BY DEF NodesForward, AInv, TypeOK
<1>2. /\ worker' \in Reconciles /\ worker'.step = "list" /\ worker'.call = worker.call
      /\ worker'.nodes = worker.nodes /\ worker'.want = worker.want
    BY <1>1, GotoFields DEF NodesForward, Steps
<1>3. TypeOK'
    BY <1>1, <1>2 DEF AInv, TypeOK, specVars
<1>4. WantInv'
    BY <1>1, <1>2 DEF AInv, WantInv, Desired
<1>5. ForwardInv' /\ WriteInv' /\ OthersInv'
    BY <1>1, <1>2 DEF AInv, ForwardInv, WriteInv, OthersInv
<1> QED
    BY <1>3, <1>4, <1>5 DEF AInv

LEMMA ListOthersKeeps == ASSUME AInv, ListOthers PROVE AInv'
<1>1. budget' \in Nat
    BY ChargeTyped DEF ListOthers, AInv, TypeOK
<1>2. /\ worker.step = "list" /\ worker \in Reconciles /\ peerings \in Peerings
      /\ UNCHANGED <<peerings, specVars, forwarding, gauge>> /\ touched' = {}
    BY DEF ListOthers, AInv, TypeOK
<1>3. CASE worker' = Idle
    BY <1>1, <1>2, <1>3, GivingUpKeeps DEF AInv, TypeOK
<1>4. ASSUME NEW want \in Peerings, \A n \in Names : want[n] \in WantedWith(n, peerings[n]),
             worker' = [worker EXCEPT !.step = "compare", !.want = want]
      PROVE  AInv'
  <2>3. \A a \in Ours : want[a] = worker.want[a]
    BY <1>4 DEF Ours, WantedWith, IsOurPeering, Names
  <2>4. \A n \in Foreign : want[n] = peerings[n]
    <3>1. \A n \in Foreign : n \in Names /\ ~IsOurPeering(n) /\ worker.want[n] = Absent
      BY <1>2, NamesAssumption DEF IsOurPeering, Names, AInv, WantInv
    <3> QED
      BY <1>4, <3>1 DEF WantedWith
  <2>5. worker' \in Reconciles
    BY <1>2, <1>4 DEF Reconciles, Steps
  <2>6. /\ worker'.step = "compare" /\ worker'.call = worker.call
        /\ worker'.nodes = worker.nodes /\ worker'.want = want
    BY <1>2, <1>4 DEF Reconciles
  <2>7. TypeOK'
    BY <1>1, <1>2, <2>5 DEF AInv, TypeOK, specVars
  <2>8. WantInv'
    BY <1>2, <2>3, <2>6 DEF AInv, WantInv, Desired
  <2>9. ForwardInv' /\ WriteInv' /\ OthersInv'
    BY <1>2, <2>4, <2>6 DEF AInv, ForwardInv, WriteInv, OthersInv
  <2> QED
    BY <2>7, <2>8, <2>9 DEF AInv
<1> QED
    BY <1>3, <1>4 DEF ListOthers, Fail

LEMMA ComparePeersKeeps == ASSUME AInv, ComparePeers PROVE AInv'
<1>1. budget' \in Nat
    BY ChargeTyped DEF ComparePeers, AInv, TypeOK
<1>2. /\ worker.step = "compare" /\ worker \in Reconciles /\ peerings \in Peerings
      /\ UNCHANGED <<peerings, specVars, forwarding, gauge, touched>>
    BY DEF ComparePeers, AInv, TypeOK
<1>3. CASE worker' = Idle
    BY <1>1, <1>2, <1>3, GivingUpKeeps DEF AInv, TypeOK
<1> DEFINE writes == {n \in Names : worker.want[n] \notin {Absent, peerings[n]}}
           deletes == {n \in Names : worker.want[n] = Absent /\ peerings[n] # Absent}
<1>4. CASE worker' = [worker EXCEPT !.step = "write", !.writes = writes, !.deletes = deletes]
  <2>1. \A a \in Ours : worker.want[a] # Absent <=> a \in Desired
    BY <1>2 DEF AInv, WantInv
  <2>2. writes \subseteq Names /\ deletes \subseteq Names
    OBVIOUS
  <2>3. \A a \in Ours :
           /\ a \in writes => a \in Desired
           /\ a \in deletes => a \notin Desired
           /\ a \in Desired => a \in writes \/ a \in Peered
           /\ a \in Peered => a \in deletes \/ a \in Desired
    BY <2>1 DEF Peered, Names, Ours
  <2>4. \A n \in Foreign \ touched :
           worker.want[n] = peerings[n] /\ n \notin writes /\ n \notin deletes
    BY <1>2 DEF AInv, OthersInv
  <2> HIDE DEF writes, deletes
  <2>5. worker' \in Reconciles
    BY <1>2, <1>4, <2>2 DEF Reconciles, Steps
  <2>6. /\ worker'.step = "write" /\ worker'.call = worker.call
        /\ worker'.nodes = worker.nodes /\ worker'.want = worker.want
        /\ worker'.writes = writes /\ worker'.deletes = deletes
    BY <1>2, <1>4 DEF Reconciles
  <2>7. TypeOK'
    BY <1>1, <1>2, <2>5 DEF AInv, TypeOK, specVars
  <2>8. WantInv' /\ ForwardInv'
    BY <1>2, <2>6 DEF AInv, WantInv, ForwardInv, Desired
  <2>9. Desired' = Desired /\ Peered' = Peered
    BY <1>2, <2>6 DEF Desired, Peered
  <2>10. WriteInv' /\ OthersInv'
    BY <1>2, <2>3, <2>4, <2>6, <2>9 DEF WriteInv, OthersInv
  <2> QED
    BY <2>7, <2>8, <2>10 DEF AInv
<1> QED
    BY <1>3, <1>4 DEF ComparePeers, Fail

\* One write or delete of a peering that the call has to do.
LEMMA PutKeeps ==
    ASSUME AInv, worker.step = "write", NEW n \in Names, NEW asn \in ASNs \cup {Absent},
           n \in Ours => (asn # Absent <=> n \in Desired),
           n \in worker.writes \/ n \in worker.deletes,
           NEW W \in SUBSET worker.writes, NEW D \in SUBSET worker.deletes,
           worker.writes \subseteq W \cup {n}, worker.deletes \subseteq D \cup {n},
           NEW after, after \in Reconciles, after.step = "write", after.call = worker.call,
           after.nodes = worker.nodes, after.want = worker.want,
           after.writes = W, after.deletes = D,
           Put(n, asn, after), UNCHANGED <<specVars, forwarding, gauge, touched>>
    PROVE  AInv'
<1>1. PICK out \in Outcomes :
        /\ Charge(out)
        /\ peerings' = IF Applied(out) THEN [peerings EXCEPT ![n] = asn] ELSE peerings
        /\ IF out = "ok" THEN worker' = after ELSE Fail
    BY DEF Put
<1>2. worker \in Reconciles /\ peerings \in Peerings /\ budget' \in Nat
    BY <1>1, ChargeTyped DEF AInv, TypeOK
<1>3. peerings' \in Peerings
    BY <1>1, <1>2 DEF Peerings
<1>4. CASE worker' = Idle
    BY <1>2, <1>3, <1>4, GivingUpKeeps DEF AInv, TypeOK
<1>5. CASE worker' = after /\ peerings' = [peerings EXCEPT ![n] = asn]
  <2>1. \A m \in Names : peerings'[m] = IF m = n THEN asn ELSE peerings[m]
    BY <1>2, <1>5 DEF Peerings
  <2>2. Desired' = Desired
    BY <1>5 DEF Desired
  <2>3. \A a \in Addresses : a \in Peered' <=> IF a = n THEN asn # Absent ELSE a \in Peered
    BY <2>1 DEF Peered, Names
  <2>5. TypeOK'
    BY <1>2, <1>3, <1>5 DEF AInv, TypeOK, specVars
  <2>6. WantInv' /\ ForwardInv'
    BY <1>5, <2>2 DEF AInv, WantInv, ForwardInv
  <2>7. WriteInv'
    BY <1>5, <2>2, <2>3 DEF AInv, WriteInv, Ours
  <2>8. OthersInv'
    BY <1>5, <2>1 DEF AInv, OthersInv, Names
  <2> QED
    BY <2>5, <2>6, <2>7, <2>8 DEF AInv
<1> QED
    BY <1>1, <1>4, <1>5 DEF Fail, Applied

LEMMA CreateOrUpdatePeeringKeeps == ASSUME AInv, CreateOrUpdatePeering PROVE AInv'
<1>1. PICK n \in worker.writes : Put(n, worker.want[n], [worker EXCEPT !.writes = @ \ {n}])
    BY DEF CreateOrUpdatePeering
<1>2. /\ worker.step = "write" /\ worker \in Reconciles
      /\ UNCHANGED <<specVars, forwarding, gauge, touched>>
    BY DEF CreateOrUpdatePeering, AInv, TypeOK
<1>3. n \in Names /\ worker.want[n] \in ASNs \cup {Absent}
    BY <1>2, Fields DEF Peerings
<1> DEFINE after == [worker EXCEPT !.writes = @ \ {n}]
<1>4. after \in Reconciles
    BY <1>2 DEF Reconciles
<1>5. /\ after.step = "write" /\ after.call = worker.call /\ after.nodes = worker.nodes
      /\ after.want = worker.want /\ after.writes = worker.writes \ {n}
      /\ after.deletes = worker.deletes
    BY <1>2 DEF Reconciles
<1> HIDE DEF after
<1>6. Put(n, worker.want[n], after)
    BY <1>1 DEF after
<1>7. n \in Ours => (worker.want[n] # Absent <=> n \in Desired)
    BY <1>2 DEF AInv, WantInv
<1> QED
    BY <1>2, <1>3, <1>4, <1>5, <1>6, <1>7, PutKeeps

LEMMA DeletePeeringKeeps == ASSUME AInv, DeletePeering PROVE AInv'
<1>1. PICK n \in worker.deletes : Put(n, Absent, [worker EXCEPT !.deletes = @ \ {n}])
    BY DEF DeletePeering
<1>2. /\ worker.step = "write" /\ worker \in Reconciles /\ worker.writes = {}
      /\ UNCHANGED <<specVars, forwarding, gauge, touched>>
    BY DEF DeletePeering, AInv, TypeOK
<1>3. n \in Names
    BY <1>2, Fields
<1> DEFINE after == [worker EXCEPT !.deletes = @ \ {n}]
<1>4. after \in Reconciles
    BY <1>2 DEF Reconciles
<1>5. /\ after.step = "write" /\ after.call = worker.call /\ after.nodes = worker.nodes
      /\ after.want = worker.want /\ after.writes = worker.writes
      /\ after.deletes = worker.deletes \ {n}
    BY <1>2 DEF Reconciles
<1> HIDE DEF after
<1>6. Put(n, Absent, after)
    BY <1>1 DEF after
<1>7. n \in Ours => n \notin Desired
    BY <1>2 DEF AInv, WriteInv
<1> QED
    BY <1>2, <1>3, <1>4, <1>5, <1>6, <1>7, PutKeeps

LEMMA PeersWrittenKeeps == ASSUME AInv, PeersWritten PROVE AInv'
<1>1. /\ worker.step = "write" /\ worker.writes = {} /\ worker.deletes = {}
      /\ worker \in Reconciles
      /\ UNCHANGED <<peerings, specVars, forwarding, touched, budget>>
    BY DEF PeersWritten, AInv, TypeOK
<1>2. \A a \in Ours : a \in Peered <=> a \in Desired
    BY <1>1 DEF AInv, WriteInv
<1>3. gauge' \in Nat
    BY DEF PeersWritten, AInv, TypeOK
<1>4. CASE worker.call = "Cleanup" /\ Goto("clean")
  <2>1. worker' \in Reconciles /\ worker'.step = "clean"
    BY <1>1, <1>4, GotoFields DEF Steps
  <2>2. TypeOK'
    BY <1>1, <1>3, <2>1 DEF AInv, TypeOK, specVars
  <2> QED
    BY <2>1, <2>2 DEF AInv, WantInv, ForwardInv, WriteInv, OthersInv
<1>5. CASE worker.call # "Cleanup" /\ Goto("count")
  <2>1. /\ worker' \in Reconciles /\ worker'.step = "count" /\ worker'.call = worker.call
        /\ worker'.nodes = worker.nodes /\ worker'.want = worker.want
    BY <1>1, <1>5, GotoFields DEF Steps
  <2>2. worker.call = "ReconcileNodes"
    BY <1>1, <1>5, Fields
  <2>3. TypeOK'
    BY <1>1, <1>3, <2>1 DEF AInv, TypeOK, specVars
  <2>4. Desired' = Desired /\ Peered' = Peered
    BY <1>1, <2>1 DEF Desired, Peered
  <2>5. WantInv' /\ ForwardInv'
    BY <1>1, <2>1, <2>2, <2>4 DEF AInv, WantInv, ForwardInv
  <2>6. WriteInv' /\ OthersInv'
    BY <1>2, <2>1, <2>4 DEF WriteInv, OthersInv
  <2> QED
    BY <2>3, <2>5, <2>6 DEF AInv
<1> QED
    BY <1>4, <1>5 DEF PeersWritten

LEMMA CountManagedPeersKeeps == ASSUME AInv, CountManagedPeers PROVE AInv'
<1>1. budget' \in Nat
    BY ChargeTyped DEF CountManagedPeers, AInv, TypeOK
<1>2. /\ worker.step = "count" /\ worker \in Reconciles
      /\ UNCHANGED <<peerings, specVars, forwarding, touched>>
    BY DEF CountManagedPeers, AInv, TypeOK
<1>3. CASE Fail /\ UNCHANGED gauge
    BY <1>1, <1>2, <1>3, GivingUpKeeps DEF AInv, TypeOK, Fail
<1> DEFINE managed == {a \in {Address[v] : v \in worker.nodes} :
                          IsOurPeering(a) /\ peerings[a] # Absent}
<1>4. CASE gauge' = Cardinality(managed) /\ Goto("done")
  <2>1. /\ worker' \in Reconciles /\ worker'.step = "done" /\ worker'.call = worker.call
        /\ worker'.nodes = worker.nodes /\ worker'.want = worker.want
    BY <1>2, <1>4, GotoFields DEF Steps
  <2>2. managed \in SUBSET Addresses
    BY <1>2, DesiredInAddresses DEF Desired
  <2> HIDE DEF managed
  <2>3. IsFiniteSet(managed)
    BY <2>2, AddressesFinite, FS_Subset
  <2>4. gauge' \in Nat
    BY <1>4, <2>3, FS_CardinalityType
  <2>5. TypeOK'
    BY <1>1, <1>2, <2>1, <2>4 DEF AInv, TypeOK, specVars
  <2>6. WantInv' /\ ForwardInv'
    BY <1>2, <2>1 DEF AInv, WantInv, ForwardInv, Desired
  <2>7. WriteInv' /\ OthersInv'
    BY <2>1 DEF WriteInv, OthersInv
  <2> QED
    BY <2>5, <2>6, <2>7 DEF AInv
<1> QED
    BY <1>3, <1>4 DEF CountManagedPeers

LEMMA ReturnKeeps == ASSUME AInv, Return PROVE AInv'
BY GivingUpKeeps DEF Return, AInv, TypeOK

LEMMA NextKeepsAInv == AInv /\ [Next]_vars => AInv'
<1> SUFFICES ASSUME AInv, [Next]_vars PROVE AInv'
    OBVIOUS
<1>1. CASE Environment
    BY <1>1, OthersWriteKeeps, PeeringEditedKeeps, SpecEditsKeep, RestartKeeps DEF Environment
<1>2. CASE Operator
    BY <1>2, DiscoverEndpointsKeeps, ReconcileNodesKeeps, ListNICsKeeps, EnableIPForwardingKeeps,
       NodesForwardKeeps, ListOthersKeeps, ComparePeersKeeps, CreateOrUpdatePeeringKeeps,
       DeletePeeringKeeps, PeersWrittenKeeps, CountManagedPeersKeeps, ReturnKeeps DEF Operator
<1>3. CASE UNCHANGED vars
  <2>1. TypeOK'
    BY <1>3 DEF vars, AInv, TypeOK
  <2> QED
    BY <1>3, <2>1, QuietKeeps DEF vars, AInv
<1> QED
    BY <1>1, <1>2, <1>3 DEF Next

-----------------------------------------------------------------------------
(* The theorems.                                                           *)

\* Every variable of the Azure model keeps its type.
THEOREM AzureTypes == Spec => []TypeOK
<1>1. AInv => TypeOK
    BY DEF AInv
<1> QED
    BY <1>1, InitAInv, NextKeepsAInv, PTL DEF Spec

\* ReconcileNodes writes peerings, and reports success, only when every node it was
\* given forwards: a failed update of an interface always ends the call before.
THEOREM AzureNodesForward == Spec => []PeeredNodesForward
<1>1. AInv => PeeredNodesForward
    BY DEF AInv, ForwardInv, PeeredNodesForward
<1> QED
    BY <1>1, InitAInv, NextKeepsAInv, PTL DEF Spec

\* A step of the operator changes a peering of somebody else only if that was written
\* after the operator listed it.
LEMMA StepKeepsOthers ==
    ASSUME AInv, [Next]_vars, worker' # worker, NEW n \in Foreign, peerings'[n] # peerings[n]
    PROVE  n \in touched
<1>1. n \in Names /\ peerings \in Peerings
    BY DEF Names, AInv, TypeOK
<1>2. CASE CreateOrUpdatePeering \/ DeletePeering
  <2>1. PICK m : /\ m \in worker.writes \/ m \in worker.deletes
                 /\ \E asn : peerings' \in {peerings, [peerings EXCEPT ![m] = asn]}
    BY <1>2 DEF CreateOrUpdatePeering, DeletePeering, Put
  <2>2. m = n
    BY <1>1, <2>1 DEF Peerings
  <2>3. worker.step = "write"
    BY <1>2 DEF CreateOrUpdatePeering, DeletePeering
  <2> QED
    BY <2>1, <2>2, <2>3 DEF AInv, OthersInv
<1>3. ~(DiscoverEndpoints \/ ReconcileNodes \/ ListNICs \/ EnableIPForwarding \/ NodesForward
        \/ ListOthers \/ ComparePeers \/ PeersWritten \/ CountManagedPeers \/ Return)
    BY DEF DiscoverEndpoints, ReconcileNodes, ListNICs, EnableIPForwarding, NodesForward,
       ListOthers, ComparePeers, PeersWritten, CountManagedPeers, Return
<1>4. ~Environment /\ ~UNCHANGED vars
    BY DEF Environment, OthersWrite, PeeringEdited, RoutersChange, ASNEdited, ConfigDeleted,
       Restart, vars
<1> QED
    BY <1>2, <1>3, <1>4 DEF Next, Operator

\* ReconcilePeers, which deletes every peering it is not given, never undoes what the
\* list before it showed of others.
THEOREM AzureOthersSurvive == Spec => OthersSurvive
<1>1. AInv /\ [Next]_vars =>
         [\A n \in Foreign :
             (worker' # worker /\ peerings'[n] # peerings[n]) => n \in touched]_vars
    BY StepKeepsOthers
<1> QED
    BY <1>1, InitAInv, NextKeepsAInv, PTL DEF Spec, OthersSurvive

-----------------------------------------------------------------------------
(* AzureRouteServer implements CloudPlatform.                              *)

LEMMA InitImplements == Init => Platform!Init
BY IdleFields DEF Init, Platform!Init, Phase, Desired, Peered

\* Giving up at a step of a call, with the peerings as they are.
LEMMA GivingUpImplements ==
    ASSUME AInv, worker.step # "clean", worker' = Idle, Peered' = Peered
    PROVE  [Platform!Next]_(Platform!vars)
<1>1. Phase' = "idle" /\ Desired' = {}
    BY IdleFields DEF Phase, Desired
<1>2. worker \in Reconciles /\ worker.step \in Steps /\ Peered \in SUBSET Addresses
    BY Fields DEF AInv, TypeOK, Peered
<1>3. CASE Phase = "idle"
  <2>1. Desired = {}
    BY <1>2, <1>3 DEF AInv, WantInv, Phase, Desired, Steps
  <2> QED
    BY <1>1, <1>3, <2>1 DEF Platform!vars
<1>4. CASE Phase = "reconcile"
    BY <1>1, <1>2, <1>4 DEF Platform!Next, Platform!WritePeers, Platform!GivesUp
<1>5. CASE Phase = "cleanup"
    BY <1>1, <1>2, <1>5 DEF Platform!Next, Platform!ReleasePeers, Platform!GivesUp
<1>6. CASE Phase = "done"
    BY <1>1, <1>6 DEF Platform!Next, Platform!Return, Platform!GivesUp
<1> QED
    BY <1>3, <1>4, <1>5, <1>6 DEF Phase

\* A step inside a call that changes no peering of ours.
LEMMA InsideImplements ==
    ASSUME Phase' = Phase, Desired' = Desired, Peered' = Peered
    PROVE  [Platform!Next]_(Platform!vars)
BY DEF Platform!vars

LEMMA EnvironmentImplements ==
    ASSUME AInv, Environment PROVE [Platform!Next]_(Platform!vars)
<1>1. CASE Restart
    BY <1>1, GivingUpImplements DEF Restart, Peered
<1>2. CASE RoutersChange \/ ASNEdited \/ ConfigDeleted
    BY <1>2, InsideImplements DEF RoutersChange, ASNEdited, ConfigDeleted, Phase, Desired, Peered
<1>3. ASSUME NEW n \in Foreign, OthersWrite(n) PROVE [Platform!Next]_(Platform!vars)
  <2>1. n \in Names /\ n \notin Addresses /\ peerings \in Peerings
    BY NamesAssumption DEF Names, AInv, TypeOK
  <2>2. Peered' = Peered
    BY <1>3, <2>1 DEF OthersWrite, Peered, Peerings, Names
  <2> QED
    BY <1>3, <2>2, InsideImplements DEF OthersWrite, Phase, Desired
<1>4. ASSUME NEW a \in Addresses, PeeringEdited(a) PROVE [Platform!Next]_(Platform!vars)
  <2>1. PICK asn \in ASNs : peerings' = [peerings EXCEPT ![a] = asn]
    BY <1>4 DEF PeeringEdited
  <2>2. a \in Names /\ asn # Absent /\ peerings \in Peerings /\ peerings[a] # Absent
    BY <1>4, ASNAssumption DEF PeeringEdited, Names, AInv, TypeOK
  <2>3. Peered' = Peered
    BY <2>1, <2>2 DEF Peered, Peerings, Names
  <2> QED
    BY <1>4, <2>3, InsideImplements DEF PeeringEdited, Phase, Desired
<1> QED
    BY <1>1, <1>2, <1>3, <1>4 DEF Environment

\* Steps of a call that only look, or turn forwarding on.
LEMMA LookingImplements ==
    ASSUME AInv, ListNICs \/ EnableIPForwarding \/ NodesForward \/ ListOthers \/ ComparePeers
    PROVE  [Platform!Next]_(Platform!vars)
<1>1. /\ worker.step \in {"nics", "enable", "list", "compare"} /\ worker \in Reconciles
      /\ Peered' = Peered
    BY DEF ListNICs, EnableIPForwarding, NodesForward, ListOthers, ComparePeers, Peered, AInv, TypeOK
<1>2. CASE worker' = Idle
    BY <1>1, <1>2, GivingUpImplements
<1>3. CASE worker' # Idle
  <2>1. /\ worker'.step \in {"enable", "list", "compare", "write"}
        /\ worker'.call = worker.call /\ worker'.nodes = worker.nodes
    <3>1. CASE ListNICs
      BY <1>1, <1>3, <3>1 DEF ListNICs, Fail, Reconciles
    <3>2. CASE EnableIPForwarding
      BY <1>1, <1>3, <3>2 DEF EnableIPForwarding, Fail, Reconciles
    <3>3. CASE NodesForward
      BY <1>1, <3>3, GotoFields DEF NodesForward, Steps
    <3>4. CASE ListOthers
      BY <1>1, <1>3, <3>4 DEF ListOthers, Fail, Reconciles
    <3>5. CASE ComparePeers
      BY <1>1, <1>3, <3>5 DEF ComparePeers, Fail, Reconciles
    <3> QED
      BY <3>1, <3>2, <3>3, <3>4, <3>5
  <2>2. Phase' = Phase /\ Desired' = Desired
    BY <1>1, <2>1 DEF Phase, Desired
  <2> QED
    BY <1>1, <2>2, InsideImplements
<1> QED
    BY <1>2, <1>3

\* The steps at which a call begins.
LEMMA BeginningImplements ==
    ASSUME AInv, DiscoverEndpoints \/ ReconcileNodes
    PROVE  [Platform!Next]_(Platform!vars)
<1>1. /\ worker.step \in {"idle", "nodes"} /\ worker \in Reconciles /\ worker.nodes = {}
      /\ Peered' = Peered /\ Phase = "idle" /\ Desired = {}
    BY DEF DiscoverEndpoints, ReconcileNodes, AInv, TypeOK, WantInv, Peered, Phase, Desired
<1>2. CASE worker' = Idle
    BY <1>1, <1>2, GivingUpImplements
<1>3. CASE Goto("nodes") \/ Goto("skipped")
  <2>1. worker'.step \in {"nodes", "skipped"} /\ worker'.nodes = {}
    BY <1>1, <1>3, GotoFields DEF Steps
  <2>2. Phase' = Phase /\ Desired' = Desired
    BY <1>1, <2>1 DEF Phase, Desired
  <2> QED
    BY <1>1, <2>2, InsideImplements
<1>4. CASE worker' = [Idle EXCEPT !.step = "list", !.call = "Cleanup"]
  <2>1. worker'.step = "list" /\ worker'.call = "Cleanup" /\ worker'.nodes = {}
    BY <1>4 DEF Idle
  <2>2. Phase' = "cleanup" /\ Desired' = Desired
    BY <1>1, <2>1 DEF Phase, Desired
  <2> QED
    BY <1>1, <2>2 DEF Platform!Next, Platform!Cleanup
<1>5. CASE ReconcileNodes /\ routers # {}
  <2>1. /\ worker'.step = "nics" /\ worker'.nodes = routers
        /\ worker'.call = "ReconcileNodes"
    BY <1>1, <1>5 DEF ReconcileNodes, Reconciles, AInv, WantInv
  <2>2. Desired' \in (SUBSET Addresses) \ {{}}
    <3>1. Desired' = {Address[v] : v \in routers} /\ routers \in SUBSET VMs
      BY <2>1 DEF Desired, AInv, TypeOK
    <3>2. Desired' \subseteq Addresses
      BY <3>1 DEF Addresses
    <3>3. PICK v \in routers : TRUE
      BY <1>5
    <3>4. Address[v] \in Desired'
      BY <3>1
    <3> QED
      BY <3>2, <3>4
  <2>3. Phase' = "reconcile"
    BY <2>1 DEF Phase
  <2> QED
    BY <1>1, <2>2, <2>3 DEF Platform!Next, Platform!ReconcileNodes
<1> QED
    BY <1>2, <1>3, <1>4, <1>5 DEF DiscoverEndpoints, ReconcileNodes, Fail

\* A write adds a wanted peering, a delete removes one that is not wanted, also if the
\* reply is lost and the call given up.
LEMMA WritingImplements ==
    ASSUME Ours = Addresses, AInv, CreateOrUpdatePeering \/ DeletePeering
    PROVE  [Platform!Next]_(Platform!vars)
<1>1. /\ worker.step = "write" /\ worker \in Reconciles /\ peerings \in Peerings
      /\ worker.nodes \in SUBSET VMs /\ Peered \in SUBSET Addresses /\ Peered' \in SUBSET Addresses
    BY Fields DEF CreateOrUpdatePeering, DeletePeering, AInv, TypeOK, Peered
<1>2. Peered' \ Peered \subseteq Desired /\ (Peered \ Peered') \cap Desired = {}
  <2>1. CASE CreateOrUpdatePeering
    <3>1. PICK n \in worker.writes : peerings' \in {peerings, [peerings EXCEPT ![n] = worker.want[n]]}
      BY <2>1 DEF CreateOrUpdatePeering, Put
    <3>2. \A a \in Addresses : a # n => peerings'[a] = peerings[a]
      BY <1>1, <3>1 DEF Peerings, Names
    <3>3. n \in Addresses => n \in Desired /\ worker.want[n] # Absent
      BY <1>1, <3>1 DEF AInv, WantInv, WriteInv
    <3>4. n \in Addresses => (peerings'[n] = peerings[n] \/ peerings'[n] # Absent)
      BY <1>1, <3>1, <3>3 DEF Peerings, Names
    <3> QED
      BY <3>2, <3>3, <3>4 DEF Peered
  <2>2. CASE DeletePeering
    <3>1. PICK n \in worker.deletes : peerings' \in {peerings, [peerings EXCEPT ![n] = Absent]}
      BY <2>2 DEF DeletePeering, Put
    <3>2. \A a \in Addresses : a # n => peerings'[a] = peerings[a]
      BY <1>1, <3>1 DEF Peerings, Names
    <3>3. n \in Addresses => n \notin Desired
      BY <1>1, <3>1 DEF AInv, WriteInv
    <3>4. n \in Addresses => (peerings'[n] = peerings[n] \/ peerings'[n] = Absent)
      BY <1>1, <3>1 DEF Peerings, Names
    <3> QED
      BY <3>2, <3>3, <3>4 DEF Peered
  <2> QED
    BY <2>1, <2>2
<1>3. (Phase' = Phase /\ Desired' = Desired) \/ (Phase' = "idle" /\ Desired' = {})
  <2>1. CASE worker' = Idle
    BY <2>1, IdleFields DEF Phase, Desired
  <2>2. CASE worker' # Idle
    <3>1. \/ \E n : worker' = [worker EXCEPT !.writes = worker.writes \ {n}]
          \/ \E n : worker' = [worker EXCEPT !.deletes = worker.deletes \ {n}]
      BY <2>2 DEF CreateOrUpdatePeering, DeletePeering, Put, Fail
    <3>2. /\ worker'.step = worker.step /\ worker'.call = worker.call
          /\ worker'.nodes = worker.nodes
      BY <1>1, <3>1 DEF Reconciles
    <3> QED
      BY <3>2 DEF Phase, Desired
  <2> QED
    BY <2>1, <2>2
<1>4. CASE worker.call = "Cleanup"
  <2>1. Phase = "cleanup" /\ Desired = {}
    BY <1>1, <1>4 DEF Phase, Desired, AInv, WantInv
  <2> QED
    BY <1>1, <1>2, <1>3, <2>1
       DEF Platform!Next, Platform!ReleasePeers, Platform!GoesOn, Platform!GivesUp
<1>5. CASE worker.call # "Cleanup"
  <2>1. Phase = "reconcile"
    BY <1>1, <1>5 DEF Phase
  <2> QED
    BY <1>1, <1>2, <1>3, <2>1
       DEF Platform!Next, Platform!WritePeers, Platform!GoesOn, Platform!GivesUp
<1> QED
    BY <1>4, <1>5

\* The steps at which a call ends.
LEMMA EndingImplements ==
    ASSUME Ours = Addresses, AInv, PeersWritten \/ CountManagedPeers \/ Return
    PROVE  [Platform!Next]_(Platform!vars)
<1>1. worker.step \in {"write", "count", "done"} /\ worker \in Reconciles /\ Peered' = Peered
    BY DEF PeersWritten, CountManagedPeers, Return, AInv, TypeOK, Peered
<1>2. CASE worker' = Idle
    BY <1>1, <1>2, GivingUpImplements
<1>3. CASE PeersWritten /\ worker.call = "Cleanup"
  <2>1. worker'.step = "clean" /\ worker'.nodes = worker.nodes
    BY <1>1, <1>3, GotoFields DEF PeersWritten, Steps
  <2>2. Peered = {}
    BY <1>3 DEF PeersWritten, AInv, WantInv, WriteInv, Peered, Desired
  <2>3. Phase = "cleanup" /\ Phase' = "clean" /\ Desired' = Desired
    BY <1>3, <2>1 DEF PeersWritten, Phase, Desired
  <2> QED
    BY <1>1, <2>2, <2>3 DEF Platform!Next, Platform!Cleaned
<1>4. CASE PeersWritten /\ worker.call # "Cleanup"
  <2>1. worker'.step = "count" /\ worker'.nodes = worker.nodes /\ worker'.call = worker.call
    BY <1>1, <1>4, GotoFields DEF PeersWritten, Steps
  <2>2. Phase' = Phase /\ Desired' = Desired
    BY <1>4, <2>1 DEF PeersWritten, Phase, Desired
  <2> QED
    BY <1>1, <2>2, InsideImplements
<1>5. CASE CountManagedPeers /\ Goto("done")
  <2>1. worker'.step = "done" /\ worker'.nodes = worker.nodes
    BY <1>1, <1>5, GotoFields DEF Steps
  <2>2. worker.call = "ReconcileNodes" /\ Peered = Desired
    BY <1>1, <1>5, DesiredInAddresses DEF CountManagedPeers, AInv, WantInv, WriteInv, Peered
  <2>3. Phase = "reconcile" /\ Phase' = "done" /\ Desired' = Desired
    BY <1>5, <2>1, <2>2 DEF CountManagedPeers, Phase, Desired
  <2> QED
    BY <1>1, <2>2, <2>3 DEF Platform!Next, Platform!Succeed
<1> QED
    BY <1>2, <1>3, <1>4, <1>5 DEF PeersWritten, CountManagedPeers, Return, Fail

\* The calls of the Azure platform keep the promises of platform.CloudPlatform: a wanted
\* peering is never deleted on the way, an empty node list releases nothing, success means
\* exactly the given nodes are peered, and Cleanup ends with no peering of ours.  The
\* cluster's prefix is short enough for every name: a name that is cut is not
\* recognised, and its peering is never deleted.
THEOREM AzureImplementsPlatform == ASSUME Cut = {} PROVE Spec => ImplementsPlatform
<1>0. Ours = Addresses
    BY DEF Ours
<1>1. AInv /\ [Next]_vars => [Platform!Next]_(Platform!vars)
  <2> SUFFICES ASSUME AInv, [Next]_vars PROVE [Platform!Next]_(Platform!vars)
    OBVIOUS
  <2>1. CASE Environment
    BY <2>1, EnvironmentImplements
  <2>2. CASE Operator
    BY <1>0, <2>2, BeginningImplements, LookingImplements, WritingImplements, EndingImplements
       DEF Operator
  <2>3. CASE UNCHANGED vars
    BY <2>3, InsideImplements DEF vars, Phase, Desired, Peered
  <2> QED
    BY <2>1, <2>2, <2>3 DEF Next
<1> QED
    BY <1>1, InitImplements, InitAInv, NextKeepsAInv, PTL
       DEF Spec, ImplementsPlatform, Platform!Spec
=============================================================================
