------------------------- MODULE AWSCredentialsProofs -------------------------
(***************************************************************************)
(* Proofs about AWSCredentials, for every set of roles and keys, every     *)
(* combination of disturbances and every bound.                            *)
(*                                                                         *)
(* FileIsWhole and TemporariesAreRemoved are not inductive: what the rename*)
(* installs depends on what the close reported three steps before.  CInv   *)
(* adds what a call knows at each of its steps.  EditsSurvive also needs   *)
(* that a version number identifies what the object said: SeenInv.         *)
(***************************************************************************)
EXTENDS AWSCredentials, TLAPS

\* What the call has in hand at each of its steps.
StepInv ==
    /\ worker.step = "update" => worker.seen \in Requests
    /\ worker.step \in {"temp", "write", "close", "rename", "load"} => worker.ini \in Inis
    /\ worker.step = "rename" => worker.whole = TRUE
    /\ worker.step = "load" => file \in Files
    /\ worker.step = "verify" => worker.ini \in Inis \cup {Ambient}

CInv == TypeOK /\ StepInv /\ FileIsWhole /\ TemporariesAreRemoved

\* Two copies of the request with one version say the same outside the spec.
SeenInv ==
    /\ request # None => request.version <= revision
    /\ worker.step = "update" => worker.seen.version <= revision
    /\ (worker.step = "update" /\ request # None /\ request.version = worker.seen.version) =>
          request.status = worker.seen.status /\ request.notes = worker.seen.notes

-----------------------------------------------------------------------------
(* The external steps.                                                     *)

LEMMA IdleTyped == Idle \in Calls
BY DEF Idle, Calls

\* Requests are closed under the updates the actions make.
LEMMA StatusUpdate ==
    ASSUME NEW q \in Requests, NEW t \in Specs, NEW v \in Nat
    PROVE  [q EXCEPT !.status = t, !.version = v] \in Requests
BY DEF Requests

LEMMA SpecUpdate ==
    ASSUME NEW q \in Requests, NEW t \in Specs, NEW v \in Nat
    PROVE  [q EXCEPT !.spec = t, !.version = v] \in Requests
BY DEF Requests

LEMMA NotesUpdate ==
    ASSUME NEW q \in Requests, NEW n \in Nat, NEW v \in Nat
    PROVE  [q EXCEPT !.notes = n, !.version = v] \in Requests
BY DEF Requests

LEMMA RequestFields ==
    ASSUME NEW q \in Requests
    PROVE  q.spec \in Specs /\ q.notes \in Nat /\ q.version \in Nat
BY DEF Requests

LEMMA InitCInv == Init => CInv
BY IdleTyped, BoundAssumption
   DEF Init, CInv, TypeOK, StepInv, FileIsWhole, TemporariesAreRemoved, Idle

LEMMA CCOSyncKeeps == CInv /\ CCOSync => CInv'
<1> SUFFICES ASSUME CInv, CCOSync PROVE CInv'
    OBVIOUS
<1> USE DEF CInv, CCOSync, TypeOK, clusterVars, diskVars
<1>1. request \in Requests
    OBVIOUS
<1>2. request' \in Requests
  <2>1. request.spec \in Specs /\ revision + 1 \in Nat
    BY <1>1, RequestFields
  <2> QED
    BY <1>1, <2>1, StatusUpdate
<1>3. secret' \in Inis \cup {None, Keyless}
    BY DEF Answer, Inis
<1>4. TypeOK'
    BY <1>2, <1>3
<1>5. StepInv' /\ FileIsWhole' /\ TemporariesAreRemoved'
    BY DEF StepInv, FileIsWhole, TemporariesAreRemoved
<1> QED
    BY <1>4, <1>5

LEMMA PeopleKeep == CInv /\ (RequestEdited \/ RequestDeleted \/ SecretChanged) => CInv'
<1> SUFFICES ASSUME CInv, RequestEdited \/ RequestDeleted \/ SecretChanged PROVE CInv'
    OBVIOUS
<1> USE DEF CInv, TypeOK, clusterVars, diskVars, Event
<1>1. request' \in Requests \cup {None}
  <2>1. CASE RequestEdited
    <3>1. request \in Requests /\ revision + 1 \in Nat
      BY <2>1 DEF RequestEdited
    <3>2. request.notes + 1 \in Nat /\ Edited \in Specs
      BY <3>1, RequestFields DEF Specs
    <3>3. [request EXCEPT !.spec = Edited, !.version = revision + 1] \in Requests
      BY <3>1, <3>2, SpecUpdate
    <3>4. [request EXCEPT !.notes = request.notes + 1, !.version = revision + 1] \in Requests
      BY <3>1, <3>2, NotesUpdate
    <3> QED
      BY <2>1, <3>3, <3>4 DEF RequestEdited
  <2>2. CASE RequestDeleted \/ SecretChanged
    BY <2>2 DEF RequestDeleted, SecretChanged
  <2> QED
    BY <2>1, <2>2
<1>2. TypeOK'
    BY <1>1 DEF RequestEdited, RequestDeleted, SecretChanged
<1>3. StepInv' /\ FileIsWhole' /\ TemporariesAreRemoved'
    BY DEF RequestEdited, RequestDeleted, SecretChanged,
           StepInv, FileIsWhole, TemporariesAreRemoved
<1> QED
    BY <1>2, <1>3

LEMMA PodReplacedKeeps == CInv /\ PodReplaced => CInv'
BY IdleTyped DEF CInv, PodReplaced, Event, TypeOK, StepInv, FileIsWhole, TemporariesAreRemoved, Idle

LEMMA ContainerRestartsKeeps == CInv /\ ContainerRestarts => CInv'
BY IdleTyped DEF CInv, ContainerRestarts, Event, clusterVars, TypeOK, StepInv, FileIsWhole,
   TemporariesAreRemoved, Idle

-----------------------------------------------------------------------------
(* The steps of the call.                                                  *)

\* The fault budget stays a natural number.
LEMMA ChargeTyped ==
    ASSUME budget \in Nat, NEW out \in Outcomes, Charge(out) PROVE budget' \in Nat
BY DEF Outcomes, Charge

LEMMA AmbientKeeps == CInv /\ AmbientCredentials => CInv'
<1> SUFFICES ASSUME CInv, AmbientCredentials PROVE CInv'
    OBVIOUS
<1> USE DEF CInv, AmbientCredentials, TypeOK, clusterVars, diskVars
<1> PICK out \in Outcomes :
        /\ Charge(out)
        /\ \/ worker' = [worker EXCEPT !.step = "verify", !.ini = Ambient]
           \/ worker' = [worker EXCEPT !.step = "get"]
    OBVIOUS
<1>1. /\ worker' \in Calls /\ worker'.step \in {"verify", "get"}
      /\ worker'.step = "verify" => worker'.ini = Ambient
    BY DEF Calls
<1>2. TypeOK'
    BY <1>1, ChargeTyped
<1> QED
    BY <1>1, <1>2 DEF StepInv, FileIsWhole, TemporariesAreRemoved

LEMMA GetRequestKeeps == CInv /\ GetRequest => CInv'
<1> SUFFICES ASSUME CInv, GetRequest PROVE CInv'
    OBVIOUS
<1> USE DEF CInv, GetRequest, TypeOK, clusterVars, diskVars
<1> PICK out \in Outcomes :
        /\ Charge(out)
        /\ \/ Return(Error)
           \/ \E step \in {"create", "secret", "update"} :
                 /\ worker' = [worker EXCEPT !.seen = request, !.step = step]
                 /\ step = "update" => request # None
                 /\ outcome' = outcome
    OBVIOUS
<1>1. CASE Return(Error)
    BY <1>1, ChargeTyped, IdleTyped
       DEF Return, Idle, StepInv, FileIsWhole, TemporariesAreRemoved
<1>2. CASE \E step \in {"create", "secret", "update"} :
              /\ worker' = [worker EXCEPT !.seen = request, !.step = step]
              /\ step = "update" => request # None
              /\ outcome' = outcome
  <2>1. worker' \in Calls
    BY <1>2 DEF Calls
  <2>2. worker'.step \in {"create", "secret", "update"}
        /\ (worker'.step = "update" => worker'.seen \in Requests)
    BY <1>2 DEF Calls
  <2>3. TypeOK'
    BY <1>2, <2>1, ChargeTyped
  <2> QED
    BY <2>2, <2>3 DEF StepInv, FileIsWhole, TemporariesAreRemoved
<1> QED
    BY <1>1, <1>2

LEMMA CreateRequestKeeps == CInv /\ CreateRequest => CInv'
<1> SUFFICES ASSUME CInv, CreateRequest PROVE CInv'
    OBVIOUS
<1> USE DEF CInv, CreateRequest, TypeOK, clusterVars, diskVars
<1>1. request' \in Requests \cup {None}
    BY DEF Requests, Specs
<1>2. worker' \in Calls /\ outcome' \in Inis \cup {None, Ambient, Pending, Error, Rejected}
    BY IdleTyped DEF Return, Goto, Calls
<1>3. TypeOK'
    BY <1>1, <1>2, ChargeTyped
<1>4. StepInv' /\ FileIsWhole' /\ TemporariesAreRemoved'
    BY DEF StepInv, FileIsWhole, TemporariesAreRemoved, Return, Goto, Idle, Calls
<1> QED
    BY <1>3, <1>4

LEMMA UpdateRequestKeeps == CInv /\ UpdateRequest => CInv'
<1> SUFFICES ASSUME CInv, UpdateRequest PROVE CInv'
    OBVIOUS
<1> USE DEF CInv, UpdateRequest, TypeOK, clusterVars, diskVars
<1>1. request' \in Requests \cup {None}
  <2>1. worker.seen \in Requests /\ role \in Specs /\ revision + 1 \in Nat
    BY DEF StepInv, Specs
  <2>2. [worker.seen EXCEPT !.spec = role, !.version = revision + 1] \in Requests
    BY <2>1, SpecUpdate
  <2> QED
    BY <2>2
<1>2. worker' \in Calls /\ outcome' \in Inis \cup {None, Ambient, Pending, Error, Rejected}
    BY IdleTyped DEF Return, Goto, Calls
<1>3. TypeOK'
    BY <1>1, <1>2, ChargeTyped
<1>4. StepInv' /\ FileIsWhole' /\ TemporariesAreRemoved'
    BY DEF StepInv, FileIsWhole, TemporariesAreRemoved, Return, Goto, Idle, Calls
<1> QED
    BY <1>3, <1>4

LEMMA ReadSecretKeeps == CInv /\ ReadSecret => CInv'
<1> SUFFICES ASSUME CInv, ReadSecret PROVE CInv'
    OBVIOUS
<1> USE DEF CInv, ReadSecret, TypeOK, clusterVars, diskVars
<1> PICK out \in Outcomes :
        /\ Charge(out)
        /\ \/ Return(Pending)
           \/ Return(Error)
           \/ /\ secret \in Inis
              /\ worker' = [worker EXCEPT !.step = "temp", !.ini = secret]
              /\ outcome' = outcome
    BY DEF PendingError
<1>1. CASE Return(Pending) \/ Return(Error)
  <2>1. worker' = Idle /\ outcome' \in {Pending, Error}
    BY <1>1 DEF Return
  <2>2. TypeOK'
    BY <2>1, ChargeTyped, IdleTyped
  <2> QED
    BY <2>1, <2>2 DEF Idle, StepInv, FileIsWhole, TemporariesAreRemoved
<1>2. CASE /\ secret \in Inis
           /\ worker' = [worker EXCEPT !.step = "temp", !.ini = secret]
           /\ outcome' = outcome
  <2>1. worker' \in Calls /\ worker'.step = "temp" /\ worker'.ini \in Inis
    BY <1>2 DEF Calls
  <2>2. TypeOK'
    BY <1>2, <2>1, ChargeTyped
  <2> QED
    BY <2>1, <2>2 DEF StepInv, FileIsWhole, TemporariesAreRemoved
<1> QED
    BY <1>1, <1>2

LEMMA CreateTempKeeps == CInv /\ CreateTemp => CInv'
<1> SUFFICES ASSUME CInv, CreateTemp PROVE CInv'
    OBVIOUS
<1> USE DEF CInv, CreateTemp, TypeOK, clusterVars
<1> PICK out \in Outcomes :
        /\ Charge(out)
        /\ \/ temps' = temps /\ Return(Error)
           \/ /\ temps' = temps + 1
              /\ Goto("write") \/ Goto("remove")
              /\ outcome' = outcome
    BY DEF Applied
<1>1. CASE temps' = temps /\ Return(Error)
    BY <1>1, ChargeTyped, IdleTyped
       DEF Return, Idle, StepInv, FileIsWhole, TemporariesAreRemoved
<1>2. CASE /\ temps' = temps + 1
           /\ Goto("write") \/ Goto("remove")
           /\ outcome' = outcome
  <2>1. worker' \in Calls /\ worker'.step \in {"write", "remove"} /\ worker'.ini = worker.ini
    BY <1>2 DEF Calls, Goto
  <2>2. TypeOK'
    BY <1>2, <2>1, ChargeTyped
  <2> QED
    BY <1>2, <2>1, <2>2 DEF StepInv, FileIsWhole, TemporariesAreRemoved
<1> QED
    BY <1>1, <1>2

LEMMA WriteTempKeeps == CInv /\ WriteTemp => CInv'
BY ChargeTyped DEF CInv, WriteTemp, clusterVars, diskVars,
   TypeOK, StepInv, FileIsWhole, TemporariesAreRemoved, Calls

LEMMA CloseTempKeeps == CInv /\ CloseTemp => CInv'
BY ChargeTyped DEF CInv, CloseTemp, Goto, clusterVars, diskVars,
   TypeOK, StepInv, FileIsWhole, TemporariesAreRemoved, Calls

LEMMA RenameTempKeeps == CInv /\ RenameTemp => CInv'
BY ChargeTyped, NoneAssumption DEF CInv, RenameTemp, Goto, clusterVars,
   TypeOK, StepInv, FileIsWhole, TemporariesAreRemoved, Calls, Files

LEMMA RemoveTempKeeps == CInv /\ RemoveTemp => CInv'
BY ChargeTyped, IdleTyped DEF CInv, RemoveTemp, Return, clusterVars,
   TypeOK, StepInv, FileIsWhole, TemporariesAreRemoved, Idle

LEMMA LoadFileKeeps == CInv /\ LoadFile => CInv'
<1> SUFFICES ASSUME CInv, LoadFile PROVE CInv'
    OBVIOUS
<1> USE DEF CInv, LoadFile, TypeOK, clusterVars, diskVars
<1> PICK out \in Outcomes :
        /\ Charge(out)
        /\ \/ Return(Error)
           \/ worker' = [worker EXCEPT !.step = "verify", !.ini = file.ini] /\ outcome' = outcome
    OBVIOUS
<1>1. CASE Return(Error)
    BY <1>1, ChargeTyped, IdleTyped
       DEF Return, Idle, StepInv, FileIsWhole, TemporariesAreRemoved
<1>2. CASE worker' = [worker EXCEPT !.step = "verify", !.ini = file.ini] /\ outcome' = outcome
  <2>1. file.ini \in Inis
    BY DEF StepInv, Files
  <2>2. worker' \in Calls /\ worker'.step = "verify" /\ worker'.ini \in Inis
    BY <1>2, <2>1 DEF Calls
  <2>3. TypeOK'
    BY <1>2, <2>2, ChargeTyped
  <2> QED
    BY <2>2, <2>3 DEF StepInv, FileIsWhole, TemporariesAreRemoved
<1> QED
    BY <1>1, <1>2

LEMMA VerifyKeeps == CInv /\ (VerifyCredentials \/ Revisited) => CInv'
<1> SUFFICES ASSUME CInv, VerifyCredentials \/ Revisited PROVE CInv'
    OBVIOUS
<1> USE DEF CInv, TypeOK, clusterVars, diskVars
<1>1. /\ worker' \in Calls /\ worker'.step \in {"idle", "stopped"}
      /\ worker.step \in {"verify", "stopped"}
    BY IdleTyped DEF VerifyCredentials, Revisited, Return, Idle, Calls
<1>2. outcome' \in Inis \cup {None, Ambient, Pending, Error, Rejected}
    BY DEF VerifyCredentials, Revisited, Return, StepInv
<1>3. budget' \in Nat
    BY ChargeTyped DEF VerifyCredentials, Revisited
<1>4. UNCHANGED <<mode, role, ambient, request, revision, secret, file, temps, excused>>
    BY DEF VerifyCredentials, Revisited
<1>5. TypeOK'
    BY <1>1, <1>2, <1>3, <1>4
<1>6. StepInv' /\ FileIsWhole' /\ TemporariesAreRemoved'
    BY <1>1, <1>4 DEF StepInv, FileIsWhole, TemporariesAreRemoved
<1> QED
    BY <1>5, <1>6

LEMMA StutterKeeps == CInv /\ UNCHANGED vars => CInv'
BY DEF CInv, vars, TypeOK, StepInv, FileIsWhole, TemporariesAreRemoved

LEMMA NextKeepsCInv == CInv /\ [Next]_vars => CInv'
BY CCOSyncKeeps, PeopleKeep, PodReplacedKeeps, ContainerRestartsKeeps, AmbientKeeps,
   GetRequestKeeps, CreateRequestKeeps, UpdateRequestKeeps, ReadSecretKeeps, CreateTempKeeps,
   WriteTempKeeps, CloseTempKeeps, RenameTempKeeps, RemoveTempKeeps, LoadFileKeeps,
   VerifyKeeps, StutterKeeps
   DEF Next, Operator

LEMMA NextKeepsSeenInv == CInv /\ SeenInv /\ [Next]_vars => SeenInv'
<1> SUFFICES ASSUME CInv, SeenInv, [Next]_vars PROVE SeenInv'
    OBVIOUS
<1> USE DEF clusterVars, diskVars, Event
<1>0. /\ revision \in Nat /\ worker \in Calls /\ request \in Requests \cup {None}
      /\ worker.step = "update" => worker.seen.version \in Nat
    BY RequestFields DEF CInv, TypeOK, StepInv
<1>1. CASE CCOSync \/ RequestEdited
  <2>1. request \in Requests /\ request'.version = revision + 1
    BY <1>0, <1>1 DEF CCOSync, RequestEdited, Requests
  <2>2. revision' = revision + 1 /\ worker' = worker
    BY <1>1 DEF CCOSync, RequestEdited
  <2> QED
    BY <1>0, <2>1, <2>2 DEF SeenInv
<1>3. CASE RequestDeleted \/ SecretChanged
    BY <1>3 DEF RequestDeleted, SecretChanged, SeenInv
<1>4. CASE PodReplaced \/ ContainerRestarts
    BY <1>4 DEF PodReplaced, ContainerRestarts, SeenInv, Idle
<1>5. CASE GetRequest
  <2>1. /\ UNCHANGED <<request, revision>>
        /\ worker'.step = "update" => request # None /\ worker'.seen = request
    <3>1. CASE worker' = Idle
      BY <1>5, <3>1 DEF GetRequest, Idle
    <3>2. CASE \E step \in {"create", "secret", "update"} :
                  /\ worker' = [worker EXCEPT !.seen = request, !.step = step]
                  /\ step = "update" => request # None
      BY <1>0, <1>5, <3>2 DEF GetRequest, Calls
    <3> QED
      BY <1>5, <3>1, <3>2 DEF GetRequest, Return
  <2> QED
    BY <2>1 DEF SeenInv
<1>6. CASE CreateRequest
    BY <1>0, <1>6 DEF CreateRequest, Return, Goto, SeenInv, Idle, Calls
<1>7. CASE UpdateRequest
  <2>1. worker'.step # "update"
    BY <1>0, <1>7 DEF UpdateRequest, Return, Goto, Idle, Calls
  <2>2. worker.seen \in Requests
    BY <1>7 DEF UpdateRequest, CInv, StepInv
  <2>3. \/ UNCHANGED <<request, revision>>
        \/ /\ revision' = revision + 1
           /\ request' = [worker.seen EXCEPT !.spec = role, !.version = revision + 1]
    BY <1>7 DEF UpdateRequest
  <2>4. request' # None => request'.version <= revision'
    <3>1. CASE UNCHANGED <<request, revision>>
      BY <3>1 DEF SeenInv
    <3>2. CASE /\ revision' = revision + 1
               /\ request' = [worker.seen EXCEPT !.spec = role, !.version = revision + 1]
      <4>1. request'.version = revision + 1
        BY <2>2, <3>2 DEF Requests
      <4> QED
        BY <1>0, <3>2, <4>1
    <3> QED
      BY <2>3, <3>1, <3>2
  <2> QED
    BY <2>1, <2>4 DEF SeenInv
<1>8. CASE ReadSecret \/ CreateTemp
  <2>1. UNCHANGED <<request, revision>>
    BY <1>8 DEF ReadSecret, CreateTemp
  <2>2. CASE worker' = Idle
    BY <2>1, <2>2 DEF Idle, SeenInv
  <2>3. CASE \/ \E step \in {"write", "remove"} : Goto(step)
             \/ worker' = [worker EXCEPT !.step = "temp", !.ini = secret]
    BY <1>0, <2>1, <2>3 DEF Goto, SeenInv, Calls
  <2>4. worker' = Idle \/ (\E step \in {"write", "remove"} : Goto(step))
        \/ worker' = [worker EXCEPT !.step = "temp", !.ini = secret]
    BY <1>8 DEF ReadSecret, CreateTemp, PendingError, Return
  <2> QED
    BY <2>2, <2>3, <2>4
<1>9. CASE WriteTemp \/ CloseTemp \/ RenameTemp \/ RemoveTemp \/ AmbientCredentials
           \/ LoadFile \/ VerifyCredentials \/ Revisited
  <2>1. UNCHANGED <<request, revision>>
    BY <1>9 DEF WriteTemp, CloseTemp, RenameTemp, RemoveTemp, AmbientCredentials,
       LoadFile, VerifyCredentials, Revisited
  <2>2. worker'.step # "update"
    <3>1. CASE WriteTemp
      BY <1>0, <3>1 DEF WriteTemp, Calls
    <3>2. CASE CloseTemp
      BY <1>0, <3>2 DEF CloseTemp, Goto, Calls
    <3>3. CASE RenameTemp
      BY <1>0, <3>3 DEF RenameTemp, Goto, Calls
    <3>4. CASE RemoveTemp \/ VerifyCredentials \/ Revisited
      BY <3>4 DEF RemoveTemp, VerifyCredentials, Revisited, Return, Idle
    <3>5. CASE AmbientCredentials \/ LoadFile
      <4>1. CASE AmbientCredentials
        <5>1. \/ worker' = [worker EXCEPT !.step = "verify", !.ini = Ambient]
              \/ worker' = [worker EXCEPT !.step = "get"]
          BY <4>1 DEF AmbientCredentials
        <5> QED
          BY <1>0, <5>1 DEF Calls
      <4>2. CASE LoadFile
        <5>1. \/ worker' = [worker EXCEPT !.step = "verify", !.ini = file.ini]
              \/ worker' = Idle
          BY <4>2 DEF LoadFile, Return
        <5>2. CASE worker' = [worker EXCEPT !.step = "verify", !.ini = file.ini]
          BY <1>0, <5>2 DEF Calls
        <5>3. CASE worker' = Idle
          BY <5>3 DEF Idle
        <5> QED
          BY <5>1, <5>2, <5>3
      <4> QED
        BY <3>5, <4>1, <4>2
    <3> QED
      BY <1>9, <3>1, <3>2, <3>3, <3>4, <3>5
  <2> QED
    BY <2>1, <2>2 DEF SeenInv
<1>10. CASE UNCHANGED vars
    BY <1>10 DEF vars, SeenInv
<1> QED
    BY <1>1, <1>3, <1>4, <1>5, <1>6, <1>7, <1>8, <1>9, <1>10 DEF Next, Operator

\* In every behaviour of ResolveCredentials, of CCO and of the people around them,
\* every variable keeps its type.
THEOREM CredentialsTypes == Spec => []TypeOK
<1>1. CInv => TypeOK
    BY DEF CInv
<1> QED
    BY <1>1, InitCInv, NextKeepsCInv, PTL DEF Spec

\* writeCredentialsFile never shows the SDK part of a file, and the call loads the ini
\* it read from the secret, whatever fails or restarts.
THEOREM FileWhole == Spec => []FileIsWhole
<1>1. CInv => FileIsWhole
    BY DEF CInv
<1> QED
    BY <1>1, InitCInv, NextKeepsCInv, PTL DEF Spec

\* writeCredentialsFile leaves a temporary only where a restart or a failed removal
\* left it, after any number of failed calls.
THEOREM TemporariesRemoved == Spec => []TemporariesAreRemoved
<1>1. CInv => TemporariesAreRemoved
    BY DEF CInv
<1> QED
    BY <1>1, InitCInv, NextKeepsCInv, PTL DEF Spec

\* One step of ResolveCredentials leaves what others wrote in the request.
LEMMA StepKeepsEdits ==
    ASSUME CInv, SeenInv, [Next]_vars, worker' # worker, request # None
    PROVE  /\ request' # None
           /\ request'.status = request.status
           /\ request'.notes = request.notes
<1> USE DEF clusterVars, diskVars
<1>1. CASE UpdateRequest
  <2>1. worker.seen \in Requests /\ revision + 1 \in Nat /\ role \in Specs
    BY <1>1 DEF UpdateRequest, CInv, StepInv, TypeOK, Specs
  <2>2. CASE UNCHANGED request
    BY <2>2
  <2>3. CASE /\ request.version = worker.seen.version
             /\ request' = [worker.seen EXCEPT !.spec = role, !.version = revision + 1]
    <3>1. request' \in Requests
      BY <2>1, <2>3, SpecUpdate
    <3>2. request'.status = worker.seen.status /\ request'.notes = worker.seen.notes
      BY <2>1, <2>3 DEF Requests
    <3>3. request.status = worker.seen.status /\ request.notes = worker.seen.notes
      BY <1>1, <2>3 DEF UpdateRequest, SeenInv
    <3> QED
      BY <3>1, <3>2, <3>3, NoneAssumption
  <2> QED
    BY <1>1, <2>2, <2>3 DEF UpdateRequest
<1>2. CASE CreateRequest
    BY <1>2 DEF CreateRequest
<1>3. CASE AmbientCredentials \/ GetRequest \/ ReadSecret \/ CreateTemp \/ WriteTemp
           \/ CloseTemp \/ RenameTemp \/ RemoveTemp \/ LoadFile
           \/ VerifyCredentials \/ Revisited
    BY <1>3 DEF AmbientCredentials, GetRequest, ReadSecret, CreateTemp, WriteTemp, CloseTemp,
       RenameTemp, RemoveTemp, LoadFile, VerifyCredentials, Revisited
<1>4. CASE PodReplaced \/ ContainerRestarts
    BY <1>4 DEF PodReplaced, ContainerRestarts
<1>5. ~(CCOSync \/ RequestEdited \/ RequestDeleted \/ SecretChanged \/ UNCHANGED vars)
    BY DEF CCOSync, RequestEdited, RequestDeleted, SecretChanged, vars
<1> QED
    BY <1>1, <1>2, <1>3, <1>4, <1>5 DEF Next, Operator

\* reconcileCredentialsRequest writes back the object it read; with the version of the
\* read as precondition, that never undoes what CCO or people wrote outside the spec.
THEOREM EditsAreKept == Spec => EditsSurvive
<1>1. Init => SeenInv
    BY DEF Init, SeenInv, Idle
<1>2. CInv /\ SeenInv /\ [Next]_vars =>
         [(worker' # worker /\ request # None) =>
            /\ request' # None
            /\ request'.status = request.status
            /\ request'.notes = request.notes]_vars
    BY StepKeepsEdits
<1> QED
    BY <1>1, <1>2, InitCInv, NextKeepsCInv, NextKeepsSeenInv, PTL DEF Spec, EditsSurvive
=============================================================================
