---------------------------- MODULE AWSCredentials ----------------------------
(***************************************************************************)
(* ResolveCredentials (internal/platform/aws/credentials.go), which every  *)
(* reconcile of an AWS configuration starts with.  The operator uses the   *)
(* credentials of its pod if they can be retrieved.  Otherwise it keeps a  *)
(* CredentialsRequest, waits for the secret that the cloud credential      *)
(* operator (CCO) writes in answer, and installs the ini of the secret as  *)
(* a file for the SDK.  newPlatform (aws.go) then has the SDK read the file*)
(* and asks STS whether the credentials are good; if that fails, the       *)
(* controller schedules no other attempt.  CCO, STS, the API server, the   *)
(* file system and the people who edit the objects are external; each call *)
(* of the operator is a step.                                              *)
(***************************************************************************)
EXTENDS Integers

CONSTANTS
    Modes,         \* what CCO may do on the cluster: "mint" or "manual"
    Roles,         \* values ROLEARN can have
    Keys,          \* key pairs CCO can mint
    NoRole, None, Keyless, Ambient, Pending, Error, Rejected,
    Disturbances,  \* what may happen besides
    MaxEvents      \* bound on environment and fault events

\* The ini of a secret is told by the role it names or the key pair it holds.
Inis == Roles \cup Keys

\* The spec of the request is told by its role; Edited is a spec of somebody else.
Edited == "edited"
Specs == Roles \cup {NoRole, Edited}

ASSUME ModeAssumption == Modes \subseteq {"mint", "manual"}
ASSUME MarksAssumption ==
    {NoRole, None, Keyless, Ambient, Pending, Error, Rejected, Edited} \cap Inis = {}
ASSUME KeysAssumption == Keys # {} /\ Roles \cap Keys = {}
ASSUME BoundAssumption == MaxEvents \in Nat

VARIABLES
    mode,      \* credentialsMode of the cluster
    role,      \* ROLEARN in the environment of the pod, or NoRole
    ambient,   \* the pod has credentials of its own
    request,   \* the CredentialsRequest, or None
    revision,  \* writes the API server has seen: source of resourceVersions
    secret,    \* ini of the secret, Keyless without the key, or None
    file,      \* the installed file: its ini and whether all of it is there
    temps,     \* temporaries in the directory of the file
    excused,   \* auxiliary: temporaries a crash or a failed removal left
    outcome,   \* how the last attempt at credentials ended
    worker,    \* the call in progress
    budget     \* events still allowed

clusterVars == <<mode, role, ambient>>
diskVars == <<file, temps, excused>>
vars == <<mode, role, ambient, request, revision, secret, file, temps, excused,
          outcome, worker, budget>>

\* The request: its spec, the spec CCO's status is about, edits of people elsewhere.
Requests == [spec : Specs, status : Specs \cup {None}, notes : Nat, version : Nat]
Files == [ini : Inis, whole : BOOLEAN]

\* A call in progress: the request as read, the credentials found, the temporary as
\* written.  "stopped" is a controller that has scheduled nothing.
Calls == [step : {"idle", "get", "create", "update", "secret", "temp", "write",
                  "close", "rename", "remove", "load", "verify", "stopped"},
          seen : Requests \cup {None}, ini : Inis \cup {None, Ambient}, whole : BOOLEAN]

ASSUME NoneAssumption == None \notin Requests /\ None \notin Files

Idle == [step |-> "idle", seen |-> None, ini |-> None, whole |-> FALSE]

Init ==
    /\ mode \in Modes
    /\ role \in Roles \cup {NoRole}
    /\ ambient \in BOOLEAN
    /\ request = None
    /\ revision = 0
    /\ secret = None
    /\ file = None
    /\ temps = 0
    /\ excused = 0
    /\ outcome = None
    /\ worker = Idle
    /\ budget = MaxEvents

-----------------------------------------------------------------------------
(* The cluster.                                                            *)

Event == budget > 0 /\ budget' = budget - 1

\* A call works, fails, or takes effect while its reply is lost.
Outcomes == {"ok"} \cup
            IF "fault" \in Disturbances /\ budget > 0 THEN {"error", "lostReply"} ELSE {}
Applied(out) == out # "error"
Charge(out) == budget' = IF out = "ok" THEN budget ELSE budget - 1

\* CCO serves the request: a minting cluster writes a key pair where there is none,
\* another writes the role of the request, and nothing for a request without one.
Answer ==
    IF mode = "mint" THEN IF secret \in Keys THEN {secret} ELSE Keys
    ELSE IF request.spec \in Roles THEN {request.spec} ELSE {secret}

\* CCO marks the request provisioned whether it wrote a secret or not.
CCOSync ==
    /\ request # None
    /\ request.status # request.spec \/ secret \notin Answer
    /\ secret' \in Answer
    /\ revision' = revision + 1
    /\ request' = [request EXCEPT !.status = request.spec, !.version = revision + 1]
    /\ UNCHANGED <<clusterVars, diskVars, outcome, worker, budget>>

\* Somebody edits the request: its spec, or other parts of it.
RequestEdited ==
    /\ "edit" \in Disturbances
    /\ request # None
    /\ Event
    /\ revision' = revision + 1
    /\ \/ request' = [request EXCEPT !.spec = Edited, !.version = revision + 1]
       \/ request' = [request EXCEPT !.notes = @ + 1, !.version = revision + 1]
    /\ UNCHANGED <<clusterVars, secret, diskVars, outcome, worker>>

\* Somebody deletes the request, and CCO its secret with it.
RequestDeleted ==
    /\ "edit" \in Disturbances
    /\ request # None
    /\ Event
    /\ request' = None /\ secret' = None
    /\ UNCHANGED <<clusterVars, revision, diskVars, outcome, worker>>

\* The secret is deleted, or replaced by one that CCO did not write.
SecretChanged ==
    /\ "secret" \in Disturbances
    /\ Event
    /\ secret' \in {None, Keyless} \ {secret}
    /\ UNCHANGED <<clusterVars, request, revision, diskVars, outcome, worker>>

\* A new pod, with another ROLEARN or identity, and an empty directory.
PodReplaced ==
    /\ "pod" \in Disturbances
    /\ Event
    /\ role' \in Roles \cup {NoRole}
    /\ ambient' \in BOOLEAN
    /\ file' = None /\ temps' = 0 /\ excused' = 0
    /\ outcome' = None /\ worker' = Idle
    /\ UNCHANGED <<mode, request, revision, secret>>

\* The container restarts.  The directory is a volume of the pod and stays.
ContainerRestarts ==
    /\ "restart" \in Disturbances
    /\ worker.step # "idle"
    /\ Event
    /\ excused' = IF worker.step \in {"write", "close", "rename", "remove"}
                  THEN excused + 1 ELSE excused
    /\ outcome' = None /\ worker' = Idle
    /\ UNCHANGED <<clusterVars, request, revision, secret, file, temps>>

-----------------------------------------------------------------------------
(* ResolveCredentials.                                                     *)

Goto(step) == worker' = [worker EXCEPT !.step = step]
Return(result) == worker' = Idle /\ outcome' = result

\* pendingError: a wait, whether it will end by itself or not.
PendingError == Return(Pending)

\* The pod's own credentials are used if they can be retrieved, which asks a service.
AmbientCredentials ==
    /\ worker.step = "idle"
    /\ \E out \in Outcomes :
          /\ Charge(out)
          /\ worker' = IF ambient /\ out = "ok"
                       THEN [worker EXCEPT !.step = "verify", !.ini = Ambient]
                       ELSE [worker EXCEPT !.step = "get"]
    /\ UNCHANGED <<clusterVars, request, revision, secret, diskVars, outcome>>

\* Faulty variant: a request that exists is left as it is.
GetRequestCreatingOnly ==
    /\ worker.step = "get"
    /\ worker' = [worker EXCEPT !.step = IF request = None THEN "create" ELSE "secret"]
    /\ UNCHANGED <<clusterVars, request, revision, secret, diskVars, outcome, budget>>

\* The request is read and its spec compared with desiredCredentialsRequest's.
GetRequest ==
    /\ worker.step = "get"
    /\ \E out \in Outcomes :
          /\ Charge(out)
          /\ IF out # "ok" THEN Return(Error)
             ELSE /\ worker' = [worker EXCEPT !.seen = request,
                        !.step = CASE request = None -> "create"
                                   [] request # None /\ request.spec = role -> "secret"
                                   [] OTHER -> "update"]
                  /\ UNCHANGED outcome
    /\ UNCHANGED <<clusterVars, request, revision, secret, diskVars>>

\* A request that exists by now is as good as one created.
CreateRequest ==
    /\ worker.step = "create"
    /\ \E out \in Outcomes :
          /\ Charge(out)
          /\ IF request = None /\ Applied(out)
             THEN /\ revision' = revision + 1
                  /\ request' = [spec |-> role, status |-> None, notes |-> 0,
                                 version |-> revision + 1]
             ELSE UNCHANGED <<request, revision>>
          /\ IF out = "ok" THEN Goto("secret") /\ UNCHANGED outcome ELSE Return(Error)
    /\ UNCHANGED <<clusterVars, secret, diskVars>>

\* Faulty variant: the object read is written whatever happened to it since.
UpdateRequestUnconditionally ==
    /\ worker.step = "update"
    /\ IF request # None
       THEN /\ revision' = revision + 1
            /\ request' = [worker.seen EXCEPT !.spec = role, !.version = revision + 1]
            /\ Goto("secret") /\ UNCHANGED outcome
       ELSE Return(Error) /\ UNCHANGED <<request, revision>>
    /\ UNCHANGED <<clusterVars, secret, diskVars, budget>>

\* The object read is written with its spec replaced, unless it has changed since.
UpdateRequest ==
    /\ worker.step = "update"
    /\ \E out \in Outcomes :
          LET fresh == request # None /\ request.version = worker.seen.version
          IN /\ Charge(out)
             /\ IF fresh /\ Applied(out)
                THEN /\ revision' = revision + 1
                     /\ request' = [worker.seen EXCEPT !.spec = role, !.version = revision + 1]
                ELSE UNCHANGED <<request, revision>>
             /\ IF fresh /\ out = "ok" THEN Goto("secret") /\ UNCHANGED outcome
                ELSE Return(Error)
    /\ UNCHANGED <<clusterVars, secret, diskVars>>

\* Faulty variant: a secret without the key counts as one with an ini.
ReadSecretUnchecked ==
    /\ worker.step = "secret"
    /\ IF secret = None THEN PendingError
       ELSE worker' = [worker EXCEPT !.step = "temp", !.ini = secret] /\ UNCHANGED outcome
    /\ UNCHANGED <<clusterVars, request, revision, secret, diskVars, budget>>

\* No secret is a wait, one without the key an error.
ReadSecret ==
    /\ worker.step = "secret"
    /\ \E out \in Outcomes :
          /\ Charge(out)
          /\ CASE out = "ok" /\ secret = None -> PendingError
               [] out = "ok" /\ secret \in Inis ->
                     worker' = [worker EXCEPT !.step = "temp", !.ini = secret] /\ UNCHANGED outcome
               [] OTHER -> Return(Error)
    /\ UNCHANGED <<clusterVars, request, revision, secret, diskVars>>

(* writeCredentialsFile.                                                   *)

\* The temporary is created, with an error or not in setting its permissions.
CreateTemp ==
    /\ worker.step = "temp"
    /\ \E out \in Outcomes :
          /\ Charge(out)
          /\ temps' = IF Applied(out) THEN temps + 1 ELSE temps
          /\ CASE out = "ok" -> Goto("write") /\ UNCHANGED outcome
               [] out = "error" -> Return(Error)
               [] OTHER -> Goto("remove") /\ UNCHANGED outcome
    /\ UNCHANGED <<clusterVars, request, revision, secret, file, excused>>

\* A write can fail at once, or later, which only the close reports.
WriteTemp ==
    /\ worker.step = "write"
    /\ \E out \in Outcomes :
          /\ Charge(out)
          /\ worker' = [worker EXCEPT !.step = IF out = "error" THEN "remove" ELSE "close",
                                      !.whole = out = "ok"]
    /\ UNCHANGED <<clusterVars, request, revision, secret, diskVars, outcome>>

\* Faulty variant: the error of the close is dropped.
CloseTempDroppingErrors ==
    /\ worker.step = "close"
    /\ Goto("rename")
    /\ UNCHANGED <<clusterVars, request, revision, secret, diskVars, outcome, budget>>

CloseTemp ==
    /\ worker.step = "close"
    /\ \E out \in Outcomes :
          /\ Charge(out)
          /\ Goto(IF worker.whole /\ out = "ok" THEN "rename" ELSE "remove")
    /\ UNCHANGED <<clusterVars, request, revision, secret, diskVars, outcome>>

\* Faulty variant: a failed rename leaves the temporary.
RenameTempLeaving ==
    /\ worker.step = "rename"
    /\ \E out \in Outcomes :
          /\ Charge(out)
          /\ IF out = "ok"
             THEN /\ file' = [ini |-> worker.ini, whole |-> worker.whole]
                  /\ temps' = temps - 1
                  /\ Goto("load") /\ UNCHANGED outcome
             ELSE Return(Error) /\ UNCHANGED <<file, temps>>
    /\ UNCHANGED <<clusterVars, request, revision, secret, excused>>

\* The rename puts the temporary in the place of the file, or does nothing.
RenameTemp ==
    /\ worker.step = "rename"
    /\ \E out \in Outcomes \ {"lostReply"} :
          /\ Charge(out)
          /\ IF out = "ok"
             THEN /\ file' = [ini |-> worker.ini, whole |-> worker.whole]
                  /\ temps' = temps - 1
                  /\ Goto("load")
             ELSE Goto("remove") /\ UNCHANGED <<file, temps>>
    /\ UNCHANGED <<clusterVars, request, revision, secret, excused, outcome>>

\* Every path that leaves without the rename removes the temporary, or says it
\* could not.
RemoveTemp ==
    /\ worker.step = "remove"
    /\ \E out \in Outcomes \ {"lostReply"} :
          /\ Charge(out)
          /\ temps' = IF out = "ok" THEN temps - 1 ELSE temps
          /\ excused' = IF out = "ok" THEN excused ELSE excused + 1
    /\ Return(Error)
    /\ UNCHANGED <<clusterVars, request, revision, secret, file>>

-----------------------------------------------------------------------------
(* newPlatform.                                                            *)

\* LoadDefaultConfig: the SDK reads the file it is given the path of.
LoadFile ==
    /\ worker.step = "load"
    /\ \E out \in Outcomes \ {"lostReply"} :
          /\ Charge(out)
          /\ IF out = "ok"
             THEN worker' = [worker EXCEPT !.step = "verify", !.ini = file.ini] /\ UNCHANGED outcome
             ELSE Return(Error)
    /\ UNCHANGED <<clusterVars, request, revision, secret, diskVars>>

\* STS may refuse a role that is not, or no longer, the one of the pod.
MayBeRefused(ini) == ini \in Roles \ {role}

\* GetCallerIdentity: whatever goes wrong is a CredentialError, for which the
\* controller sets a terminal reason and schedules nothing.
VerifyCredentials ==
    /\ worker.step = "verify"
    /\ \E out \in Outcomes :
          /\ Charge(out)
          /\ \/ out = "ok" /\ Return(worker.ini)
             \/ /\ out # "ok" \/ MayBeRefused(worker.ini)
                /\ worker' = [Idle EXCEPT !.step = "stopped"] /\ outcome' = Rejected
    /\ UNCHANGED <<clusterVars, request, revision, secret, diskVars>>

\* An event of a watch, of the configuration, a node or a routing, brings a stopped
\* controller back.
Revisited ==
    /\ worker.step = "stopped"
    /\ worker' = Idle
    /\ UNCHANGED <<clusterVars, request, revision, secret, diskVars, outcome, budget>>

-----------------------------------------------------------------------------
Operator ==
    \/ AmbientCredentials
    \/ GetRequest
    \/ CreateRequest
    \/ UpdateRequest
    \/ ReadSecret
    \/ CreateTemp
    \/ WriteTemp
    \/ CloseTemp
    \/ RenameTemp
    \/ RemoveTemp
    \/ LoadFile
    \/ VerifyCredentials

Next ==
    \/ CCOSync
    \/ RequestEdited
    \/ RequestDeleted
    \/ SecretChanged
    \/ PodReplaced
    \/ ContainerRestarts
    \/ Revisited
    \/ Operator

Spec == Init /\ [][Next]_vars

\* The controller retries an error with a delay, waits ten seconds for a secret and
\* starts again five minutes after a success.  Nothing has to bring it back once it
\* has stopped.  CCO watches requests and secrets.
FairSpec == Spec /\ WF_vars(Operator) /\ WF_vars(CCOSync)

-----------------------------------------------------------------------------
(* Properties.                                                             *)

\* Every variable has its type.
TypeOK ==
    /\ mode \in Modes
    /\ role \in Roles \cup {NoRole}
    /\ ambient \in BOOLEAN
    /\ request \in Requests \cup {None}
    /\ revision \in Nat
    /\ secret \in Inis \cup {None, Keyless}
    /\ file \in Files \cup {None}
    /\ temps \in Nat
    /\ excused \in Nat
    /\ outcome \in Inis \cup {None, Ambient, Pending, Error, Rejected}
    /\ worker \in Calls
    /\ budget \in Nat

\* The file the SDK is pointed at holds the whole ini of a secret, never part of
\* one, also after a crash, and the SDK reads what this very call found in the
\* secret, though the name of the file is the same every time.
FileIsWhole ==
    /\ file # None => file.whole
    /\ worker.step = "load" => file.ini = worker.ini

\* A file with credentials is left in the directory only where the container died
\* or the removal failed: no sequence of failed calls piles temporaries up.
TemporariesAreRemoved ==
    temps = excused + IF worker.step \in {"write", "close", "rename", "remove"} THEN 1 ELSE 0

\* The operator writes the object it read, whole.  What CCO and people wrote
\* outside the spec, before or after that read, survives.
EditsSurvive ==
    [][(worker' # worker /\ request # None) =>
          /\ request' # None
          /\ request'.status = request.status
          /\ request'.notes = request.notes]_vars

\* The credentials are what the cluster can give.
Provided ==
    IF ambient THEN outcome = Ambient
    ELSE /\ request # None /\ request.spec = role
         /\ CASE mode = "mint" -> secret \in Keys /\ outcome = secret
              [] mode = "manual" /\ role \in Roles -> secret = role /\ outcome = role
              [] OTHER -> outcome = CASE secret = None -> Pending
                                      [] secret = Keyless -> Error
                                      [] OTHER -> secret

\* Once people, pods and faults stay quiet, the operator has credentials: those of
\* its pod, a minted key, or the role of ROLEARN even if that was set after the
\* request had been made or was changed since.  Where CCO will write nothing, it
\* waits and does not fail.  The exception is an attempt that STS refused: the
\* controller schedules no other, also where the secret has been replaced since.
Converges == <>[](Provided \/ outcome = Rejected)
=============================================================================
