------------------------- MODULE MeshManagerProofs -------------------------
(***************************************************************************)
(* Proofs about MeshManager, for any number of workers, backends and       *)
(* requests: what holds of a mesh and its certificate authority as long as *)
(* no deletion of the mesh overlaps with another request.                  *)
(***************************************************************************)
EXTENDS MeshManager, TLAPS

DeletePCs == {"deleteMesh", "listSecrets", "deleteSecrets", "types", "deletePolicy"}
PutPCs    == {"getCert", "getKey", "createCert", "createKey", "persist"}

\* The calls of a request are those of its operation.
PCs(op) ==
    CASE op = "create" -> PutPCs
      [] op = "update" -> PutPCs \cup {"current"}
      [] op = "delete" -> DeletePCs
      [] op = "policy" -> {"ensureMesh", "createPolicy", "deletePolicy"}
      [] OTHER         -> {}

\* A request that runs has an id, and a deletion past its first call has a type
\* list to work on.
WellFormed ==
    \A w \in Workers : Running(w) =>
        /\ request[w].pc \in PCs(request[w].op)
        /\ request[w].id > 0
        /\ request[w].op = "delete" /\ request[w].pc # "deleteMesh" => request[w].stack # << >>

\* Nobody runs beside a deletion.
Alone ==
    \A w, o \in Workers :
        w # o /\ Running(w) /\ Running(o) => request[w].op # "delete"

\* What a request to create or update the mesh has found, and what it still
\* finds: the CA of its backend as far as it got, and the mesh it validated.
PutHolds(w) ==
    LET r == request[w] IN
    /\ r.pc \in {"getKey", "createKey"} => Exists(<<r.backend, "cert">>)
    /\ r.pc = "createKey" => secrets[<<r.backend, "cert">>] = r.id
    /\ r.pc = "persist" /\ r.backend \in Builtin => Complete(r.backend)
    /\ r.op = "update" =>
          /\ mesh # NotFound
          /\ r.version <= mesh.version
          /\ r.pc # "current" /\ r.version = mesh.version => ~ChangesCA(mesh.backend, r.backend)

\* What a deletion has left of the mesh.
DeleteHolds(w) ==
    LET r == request[w] IN
    IF r.pc = "deleteMesh" THEN r.stack = << >>
    ELSE /\ mesh = NotFound
         /\ Len(r.stack) = 1
         /\ r.pc = "deleteSecrets" => \A s \in Secrets : Exists(s) => s \in r.pending
         /\ r.pc \in {"types", "deletePolicy"} => \A s \in Secrets : ~Exists(s)
         /\ r.pc # "deletePolicy" /\ "Policy" \notin r.stack[1] => ~policy

Deleting == \E w \in Workers : Running(w) /\ request[w].op = "delete"

\* A key comes after its certificate and is of the same pair; deletions that
\* end have removed both.
Paired ==
    \A b \in Builtin :
        /\ Complete(b) => Matches(b)
        /\ ~Deleting /\ Exists(<<b, "key">>) => Exists(<<b, "cert">>)

RequestsHold ==
    \A w \in Workers : Running(w) =>
        /\ request[w].op \in {"create", "update"} => PutHolds(w)
        /\ request[w].op = "delete" => DeleteHolds(w)

IInv ==
    /\ TypeOK
    /\ WellFormed
    /\ ~overlapped => Alone /\ RequestsHold
    /\ MeshHasCA
    /\ ~overlapped /\ ~halted => Paired
-----------------------------------------------------------------------------
\* A worker without a request.
LEMMA IdleIsRequest == Idle \in Requests /\ Idle.stack = << >> /\ Idle.op = "none"
<1> DEFINE nothing == {}
           types == << >>
<1>1. types \in Seq(SUBSET Types) /\ nothing \in SUBSET Secrets /\ NoBackend \in Backends
  BY DEF Backends
<1>2. Idle = [op |-> "none", pc |-> "done", id |-> 0, backend |-> NoBackend, version |-> 0,
              pending |-> nothing, stack |-> types, result |-> "ok"]
  BY DEF Idle
<1>3. Idle.stack = types /\ Idle.op = "none"
  BY <1>2
<1>4. Idle.stack = << >>
  BY <1>3
<1> HIDE DEF nothing, types
<1>5. Idle \in Requests
  BY <1>1, <1>2 DEF Requests
<1> QED
  BY <1>3, <1>4, <1>5

\* There is no mesh and no request at first.
LEMMA InitInvariant == Init => IInv
<1> SUFFICES ASSUME Init PROVE IInv
  OBVIOUS
<1>1. Idle \in Requests
  BY IdleIsRequest
<1>2. TypeOK
  <2>1. Idle.pc = "done"
    BY DEF Idle
  <2>2. policy \in BOOLEAN /\ overlapped \in BOOLEAN /\ halted \in BOOLEAN
    BY DEF Init
  <2> QED
    BY <1>1, <2>1, <2>2, BoundsAssumption DEF Init, TypeOK
<1>3. \A w \in Workers : ~Running(w)
  BY DEF Init, Running, Idle
<1>4. WellFormed /\ Alone /\ RequestsHold
  BY <1>3 DEF WellFormed, Alone, RequestsHold
<1>5. MeshHasCA /\ Paired
  BY DEF Init, MeshHasCA, Paired, Complete, Exists, Secrets
<1> QED
  BY <1>2, <1>4, <1>5 DEF IInv

\* A request begins: nothing is stored yet.
LEMMA BeginInvariant ==
    ASSUME IInv, NEW w \in Workers, NEW r \in Requests, Begin(w, r),
           r.pc \in PCs(r.op), r.pc # "done",
           r.pc \in {"getCert", "getKey", "createCert", "createKey"} => r.backend \in Builtin,
           r.op = "create" => r.pc # "createKey" /\ r.pc # "getKey" /\ (r.pc = "persist" => r.backend \notin Builtin),
           r.op = "update" => r.pc = "current" /\ mesh # NotFound /\ r.version = mesh.version,
           r.op = "delete" => r.pc = "deleteMesh" /\ r.stack = << >>
    PROVE  IInv'
<1> USE DEF IInv
<1> DEFINE q == [r EXCEPT !.id = requests + 1]
<1>1. /\ q \in Requests /\ q.id = requests + 1 /\ q.id > 0
      /\ q.op = r.op /\ q.pc = r.pc /\ q.backend = r.backend /\ q.version = r.version
      /\ q.stack = r.stack
  <2>1. requests + 1 \in Nat /\ requests + 1 > 0
    BY BoundsAssumption DEF TypeOK
  <2> QED
    BY <2>1 DEF Requests
<1>2. /\ request' = [request EXCEPT ![w] = q]
      /\ UNCHANGED <<mesh, secrets, policy, halted>>
      /\ ~Running(w)
  BY DEF Begin, storeVars
<1> HIDE DEF q
<1>3. request'[w] = q /\ \A o \in Workers : o # w => request'[o] = request[o]
  BY <1>2 DEF TypeOK
<1>4. TypeOK'
  <2>1. requests' \in 0 .. MaxRequests /\ overlapped' \in BOOLEAN
    BY BoundsAssumption DEF Begin, TypeOK
  <2> QED
    BY <1>1, <1>2, <1>3, <2>1 DEF TypeOK
<1>5. WellFormed'
  BY <1>1, <1>3 DEF WellFormed, Running, TypeOK
<1>6. ASSUME ~overlapped'
      PROVE  (Alone /\ RequestsHold)'
  <2>1. /\ ~overlapped
        /\ \A o \in Workers : o # w /\ Running(o) => r.op # "delete" /\ request[o].op # "delete"
    BY <1>6 DEF Begin
  <2>2. Alone'
    BY <1>1, <1>3, <2>1 DEF Alone, Running
  <2>3. RequestsHold'
    BY <1>1, <1>2, <1>3, <2>1 DEF RequestsHold, Running, PutHolds, DeleteHolds, Exists, Complete, PCs, PutPCs, DeletePCs, TypeOK, Meshes
  <2> QED
    BY <2>2, <2>3
<1>7. MeshHasCA'
  BY <1>2 DEF MeshHasCA, Complete, Exists, Begin
<1>8. ASSUME ~overlapped', ~halted'
      PROVE  Paired'
  <2>1. Deleting => Deleting'
    BY <1>2, <1>3 DEF Deleting, Running
  <2>2. ~overlapped
    BY <1>8 DEF Begin
  <2>3. ~halted
    BY <1>8 DEF Begin
  <2>4. Paired
    BY <2>2, <2>3
  <2> QED
    BY <1>2, <2>1, <2>4 DEF Paired, Complete, Matches, Exists
<1> QED
  BY <1>4, <1>5, <1>6, <1>7, <1>8
-----------------------------------------------------------------------------
\* A step of w changes the request of w only, and not what it asks for.
Steps(w) ==
    /\ request' \in [Workers -> Requests]
    /\ \A o \in Workers : o # w => request'[o] = request[o]
    /\ request'[w].op = request[w].op
    /\ request'[w].id = request[w].id
    /\ request'[w].backend = request[w].backend
    /\ request'[w].version = request[w].version

\* Goto and Return are such steps.
LEMMA GotoEffect ==
    ASSUME TypeOK, NEW w \in Workers, NEW pc,
           pc \in {"getCert", "getKey", "createCert", "createKey", "persist", "types", "createPolicy"},
           Goto(w, pc)
    PROVE  /\ Steps(w) /\ request'[w].pc = pc
           /\ request'[w].pending = request[w].pending
           /\ request'[w].stack = request[w].stack
           /\ request'[w].result = request[w].result
<1> DEFINE q == [request[w] EXCEPT !.pc = pc]
<1>1. request[w] \in Requests
  BY DEF TypeOK
<1>2. /\ q \in Requests /\ q.pc = pc /\ q.op = request[w].op /\ q.id = request[w].id
      /\ q.backend = request[w].backend /\ q.version = request[w].version
      /\ q.pending = request[w].pending /\ q.stack = request[w].stack
      /\ q.result = request[w].result
  BY <1>1 DEF Requests
<1>3. request' = [request EXCEPT ![w] = q]
  BY DEF Goto
<1> HIDE DEF q
<1> QED
  BY <1>2, <1>3 DEF TypeOK, Steps

LEMMA ReturnEffect ==
    ASSUME TypeOK, NEW w \in Workers, NEW result \in {"ok", "error", "notfound"},
           Return(w, result)
    PROVE  Steps(w) /\ request'[w].pc = "done" /\ request'[w].result = result
<1> DEFINE q == [request[w] EXCEPT !.pc = "done", !.result = result]
<1>1. request[w] \in Requests
  BY DEF TypeOK
<1>2. /\ q \in Requests /\ q.pc = "done" /\ q.op = request[w].op /\ q.id = request[w].id
      /\ q.backend = request[w].backend /\ q.version = request[w].version
      /\ q.result = result
  BY <1>1 DEF Requests
<1>3. request' = [request EXCEPT ![w] = q]
  BY DEF Return
<1> HIDE DEF q
<1> QED
  BY <1>2, <1>3 DEF TypeOK, Steps

\* A step starts no request, so that who was alone stays alone.
LEMMA StepsAlone ==
    ASSUME NEW w \in Workers, Running(w), Steps(w), Alone
    PROVE  Alone'
  BY DEF Steps, Alone, Running

\* A request to create or update the mesh holds on to what it has found: no
\* other such request, and none about a policy, removes a secret or takes
\* the mesh to a version that was there before.
LEMMA OthersHold ==
    ASSUME TypeOK, Alone, RequestsHold, NEW w \in Workers, Running(w), Steps(w),
           request[w].op # "delete",
           \A s \in Secrets : Exists(s) => secrets'[s] = secrets[s],
           \/ mesh' = mesh
           \/ /\ mesh' \in Meshes
              /\ mesh = NotFound \/ (mesh # NotFound /\ mesh'.version > mesh.version)
    PROVE  \A o \in Workers : o # w /\ Running(o)' =>
               /\ request'[o].op # "delete"
               /\ request'[o].op \in {"create", "update"} => PutHolds(o)'
<1> SUFFICES ASSUME NEW o \in Workers, o # w, Running(o)'
             PROVE  /\ request'[o].op # "delete"
                    /\ request'[o].op \in {"create", "update"} => PutHolds(o)'
  OBVIOUS
<1>1. request'[o] = request[o] /\ Running(o) /\ request[o] \in Requests
  BY DEF Steps, Running, TypeOK
<1>2. request[o].op # "delete"
  BY <1>1 DEF Alone
<1>3. ASSUME request[o].op \in {"create", "update"}
      PROVE  PutHolds(o)'
  <2> DEFINE r == request[o]
  <2>1. PutHolds(o)
    BY <1>1, <1>3 DEF RequestsHold
  <2>2. /\ r.pc \in {"getKey", "createKey"} => r.backend \in Builtin
        /\ r.version \in Nat
    BY <1>1 DEF TypeOK, Requests
  <2>3. \A b \in Builtin : <<b, "cert">> \in Secrets /\ <<b, "key">> \in Secrets
    BY DEF Secrets
  <2>4. \A s \in Secrets : Exists(s) => Exists(s)'
    BY DEF Exists
  <2>5. /\ r.pc \in {"getKey", "createKey"} => Exists(<<r.backend, "cert">>)'
        /\ r.pc = "createKey" => secrets'[<<r.backend, "cert">>] = r.id
        /\ r.pc = "persist" /\ r.backend \in Builtin => Complete(r.backend)'
    BY <1>1, <2>1, <2>2, <2>3, <2>4 DEF PutHolds, Complete
  <2>6. ASSUME r.op = "update"
        PROVE  /\ mesh' # NotFound
               /\ r.version <= mesh'.version
               /\ r.pc # "current" /\ r.version = mesh'.version => ~ChangesCA(mesh'.backend, r.backend)
    <3>1. /\ mesh # NotFound
          /\ r.version <= mesh.version
          /\ r.pc # "current" /\ r.version = mesh.version => ~ChangesCA(mesh.backend, r.backend)
      BY <2>1, <2>6 DEF PutHolds
    <3>2. CASE mesh' = mesh
      BY <3>1, <3>2
    <3>3. CASE mesh' \in Meshes /\ mesh'.version > mesh.version
      <4>1. mesh.version \in Nat /\ mesh'.version \in Nat /\ mesh' # NotFound
        BY <3>1, <3>3, NamesAssumption DEF TypeOK, Meshes
      <4> QED
        BY <2>2, <3>1, <3>3, <4>1
    <3> QED
      BY <3>1, <3>2, <3>3
  <2> QED
    BY <1>1, <2>5, <2>6 DEF PutHolds
<1> QED
  BY <1>1, <1>2, <1>3

\* The CAs are as Paired says when no deletion runs.
PairedCAs ==
    \A b \in Builtin :
        /\ Complete(b) => Matches(b)
        /\ Exists(<<b, "key">>) => Exists(<<b, "cert">>)

\* What a step of a request other than a deletion has to keep.
LEMMA OtherStep ==
    ASSUME IInv, NEW w \in Workers, Running(w), Steps(w), request[w].op # "delete",
           UNCHANGED <<requests, overlapped, halted>>,
           policy' \in BOOLEAN,
           secrets' \in [Secrets -> Nat],
           \A s \in Secrets : Exists(s) => secrets'[s] = secrets[s],
           \/ mesh' = mesh
           \/ /\ mesh' \in Meshes
              /\ mesh = NotFound \/ (mesh # NotFound /\ mesh'.version > mesh.version),
           Running(w)' => request'[w].pc \in PCs(request'[w].op),
           request'[w].pc \in {"getCert", "getKey", "createCert", "createKey"} =>
               request'[w].backend \in Builtin,
           ~overlapped /\ Running(w)' /\ request[w].op \in {"create", "update"} => PutHolds(w)',
           MeshHasCA',
           ~overlapped /\ PairedCAs => PairedCAs'
    PROVE  IInv'
<1> USE DEF IInv
<1>1. TypeOK'
  <2>1. mesh' \in Meshes \cup {NotFound}
    BY DEF TypeOK
  <2>2. requests' \in 0 .. MaxRequests
    BY DEF TypeOK
  <2>3. overlapped' \in BOOLEAN /\ halted' \in BOOLEAN
    BY DEF TypeOK
  <2>4. request' \in [Workers -> Requests]
    BY DEF Steps
  <2>5. \A o \in Workers : request'[o].pc \in {"getCert", "getKey", "createCert", "createKey"} =>
               request'[o].backend \in Builtin
    BY DEF Steps, TypeOK
  <2> QED
    BY <2>1, <2>2, <2>3, <2>4, <2>5 DEF TypeOK
<1>2. WellFormed'
  BY DEF WellFormed, Steps, Running
<1>3. ASSUME ~overlapped'
      PROVE  (Alone /\ RequestsHold)'
  <2>1. ~overlapped
    BY <1>3
  <2>2. Alone /\ RequestsHold
    BY <2>1
  <2>3. Alone'
    BY <2>2, StepsAlone
  <2>4. \A o \in Workers : o # w /\ Running(o)' =>
               /\ request'[o].op # "delete"
               /\ request'[o].op \in {"create", "update"} => PutHolds(o)'
    BY <2>2, OthersHold
  <2>5. request'[w].op = request[w].op
    BY DEF Steps
  <2>6. RequestsHold'
    BY <2>1, <2>4, <2>5 DEF RequestsHold
  <2> QED
    BY <2>3, <2>6
<1>4. ASSUME ~overlapped', ~halted'
      PROVE  Paired'
  <2>1. ~overlapped
    BY <1>4
  <2>2. ~halted
    BY <1>4
  <2>3. Alone /\ Paired
    BY <2>1, <2>2
  <2>4. ~Deleting
    BY <2>3 DEF Deleting, Alone
  <2>5. PairedCAs
    BY <2>3, <2>4 DEF Paired, PairedCAs
  <2>6. PairedCAs'
    BY <2>1, <2>5
  <2> QED
    BY <2>6 DEF Paired, PairedCAs
<1> QED
  BY <1>1, <1>2, <1>3, <1>4

\* What a step of a deletion has to keep: it leaves less, and all of it is gone
\* when it ends.
LEMMA DeleteStep ==
    ASSUME IInv, NEW w \in Workers, Running(w), Steps(w), request[w].op = "delete",
           UNCHANGED <<requests, overlapped, halted>>,
           policy' \in BOOLEAN,
           secrets' \in [Secrets -> Nat],
           \A s \in Secrets : secrets'[s] \in {0, secrets[s]},
           mesh' \in {mesh, NotFound},
           request[w].pc = "deleteMesh" => mesh' = NotFound,
           Running(w)' => /\ request'[w].pc \in DeletePCs
                          /\ request'[w].pc # "deleteMesh" => request'[w].stack # << >>,
           ~overlapped /\ Running(w)' => DeleteHolds(w)',
           ~overlapped /\ ~Running(w)' => \A s \in Secrets : secrets'[s] = 0
    PROVE  IInv'
<1> USE DEF IInv
<1>1. TypeOK'
  <2>1. mesh' \in Meshes \cup {NotFound}
    BY DEF TypeOK
  <2>2. requests' \in 0 .. MaxRequests
    BY DEF TypeOK
  <2>3. overlapped' \in BOOLEAN /\ halted' \in BOOLEAN
    BY DEF TypeOK
  <2>4. request' \in [Workers -> Requests]
    BY DEF Steps
  <2>5. \A o \in Workers : request'[o].pc \in {"getCert", "getKey", "createCert", "createKey"} =>
               request'[o].backend \in Builtin
    BY DEF Steps, TypeOK, Running, DeletePCs
  <2> QED
    BY <2>1, <2>2, <2>3, <2>4, <2>5 DEF TypeOK
<1>2. request'[w].op = "delete" /\ DeletePCs = PCs("delete")
  BY DEF Steps, PCs
<1>3. WellFormed'
  BY <1>2 DEF WellFormed, Steps, Running
<1>4. ASSUME ~overlapped'
      PROVE  (Alone /\ RequestsHold)' /\ mesh' = NotFound
  <2>1. ~overlapped
    BY <1>4
  <2>2. Alone /\ RequestsHold
    BY <2>1
  <2>3. Alone'
    BY <2>2, StepsAlone
  <2>4. \A o \in Workers : o # w => ~Running(o)'
    BY <2>2 DEF Alone, Steps, Running
  <2>5. RequestsHold'
    BY <1>2, <2>1, <2>4 DEF RequestsHold
  <2>6. mesh' = NotFound
    BY <2>2 DEF RequestsHold, DeleteHolds
  <2> QED
    BY <2>3, <2>5, <2>6
<1>5. MeshHasCA'
  BY <1>4 DEF MeshHasCA
<1>6. ASSUME ~overlapped', ~halted'
      PROVE  Paired'
  <2>1. ~overlapped
    BY <1>6
  <2>2. ~halted
    BY <1>6
  <2>3. Paired
    BY <2>1, <2>2
  <2>4. \A b \in Builtin : <<b, "cert">> \in Secrets /\ <<b, "key">> \in Secrets
    BY DEF Secrets
  <2>5. \A b \in Builtin : (Complete(b) => Matches(b))'
    BY <2>3, <2>4 DEF Paired, Complete, Matches, Exists
  <2>6. ~Deleting' => ~Running(w)'
    BY <1>2 DEF Deleting, Running
  <2>7. ~Deleting' => \A b \in Builtin : ~Exists(<<b, "key">>)'
    BY <2>1, <2>4, <2>6 DEF Exists
  <2> QED
    BY <2>5, <2>7 DEF Paired
<1> QED
  BY <1>1, <1>3, <1>4, <1>5, <1>6
-----------------------------------------------------------------------------
\* The calls tell the operations apart.
LEMMA Operation ==
    ASSUME IInv, NEW w \in Workers, Running(w)
    PROVE  /\ request[w].pc = "current" => request[w].op = "update"
           /\ request[w].pc \in PutPCs => request[w].op \in {"create", "update"}
           /\ request[w].pc \in {"deleteMesh", "listSecrets", "deleteSecrets", "types"} =>
                 request[w].op = "delete"
           /\ request[w].pc \in {"ensureMesh", "createPolicy"} => request[w].op = "policy"
           /\ request[w].pc = "deletePolicy" => request[w].op \in {"delete", "policy"}
           /\ request[w] \in Requests
<1>1. request[w] \in Requests /\ request[w].pc \in PCs(request[w].op)
  BY DEF IInv, TypeOK, WellFormed
<1> QED
  BY <1>1 DEF Requests, PCs, PutPCs, DeletePCs

\* A step that stores nothing leaves the CAs and the mesh as they are.
LEMMA StoreKept ==
    ASSUME IInv, UNCHANGED <<mesh, secrets, overlapped>>
    PROVE  /\ MeshHasCA'
           /\ PairedCAs => PairedCAs'
           /\ \A s \in Secrets : Exists(s) => secrets'[s] = secrets[s]
           /\ secrets' \in [Secrets -> Nat]
  BY DEF IInv, TypeOK, MeshHasCA, PairedCAs, Complete, Matches, Exists

\* A request ends without an effect.
LEMMA EndInvariant ==
    ASSUME IInv, NEW w \in Workers, Running(w), request[w].op # "delete",
           Steps(w), request'[w].pc = "done",
           UNCHANGED <<mesh, secrets, requests, overlapped, halted>>, policy' \in BOOLEAN
    PROVE  IInv'
<1>1. ~Running(w)'
  BY DEF Running
<1>2. /\ MeshHasCA'
      /\ PairedCAs => PairedCAs'
      /\ \A s \in Secrets : Exists(s) => secrets'[s] = secrets[s]
      /\ secrets' \in [Secrets -> Nat]
  BY StoreKept
<1>3. mesh' = mesh
  OBVIOUS
<1>4. request'[w].pc \notin {"getCert", "getKey", "createCert", "createKey"}
  OBVIOUS
<1> QED
  BY <1>1, <1>2, <1>3, <1>4, OtherStep

\* A request to create or update the mesh goes on to its next call.
LEMMA GoOnInvariant ==
    ASSUME IInv, NEW w \in Workers, Running(w), request[w].op \in {"create", "update"},
           NEW pc \in PutPCs, Goto(w, pc),
           pc # "persist" => request[w].backend \in Builtin,
           UNCHANGED <<mesh, secrets, policy, requests, overlapped, halted>>,
           ~overlapped => PutHolds(w)'
    PROVE  IInv'
<1>1. Steps(w) /\ request'[w].pc = pc
  BY GotoEffect DEF IInv, PutPCs
<1>2. /\ MeshHasCA'
      /\ PairedCAs => PairedCAs'
      /\ \A s \in Secrets : Exists(s) => secrets'[s] = secrets[s]
      /\ secrets' \in [Secrets -> Nat]
  BY StoreKept
<1>3. request'[w].pc \in PCs(request'[w].op)
  BY <1>1 DEF PCs, Steps
<1>4. request'[w].pc # "persist" => request'[w].backend \in Builtin
  BY <1>1 DEF Steps
<1>5. policy' \in BOOLEAN
  BY DEF IInv, TypeOK
<1>6. mesh' = mesh /\ request[w].op # "delete"
  OBVIOUS
<1> QED
  BY <1>1, <1>2, <1>3, <1>4, <1>5, <1>6, OtherStep

\* Update reads the mesh it updates, and validates against it.
LEMMA GetCurrentInvariant ==
    ASSUME IInv, NEW w \in Workers, GetCurrent(w)
    PROVE  IInv'
<1> DEFINE r == request[w]
<1>1. Running(w) /\ r.op = "update" /\ r \in Requests
  BY Operation DEF GetCurrent, Running
<1>2. UNCHANGED <<mesh, secrets, policy, requests, overlapped, halted>>
  BY DEF GetCurrent, storeVars, ghosts
<1>3. CASE \E result \in {"notfound", "error"} : Return(w, result)
  <2>1. Steps(w) /\ request'[w].pc = "done"
    BY <1>3, ReturnEffect DEF IInv
  <2> QED
    BY <1>1, <1>2, <2>1, EndInvariant DEF IInv, TypeOK
<1>4. CASE /\ mesh # NotFound /\ mesh.version = r.version /\ ~ChangesCA(mesh.backend, r.backend)
           /\ Goto(w, EnsureFirst(r.backend))
  <2> DEFINE pc == EnsureFirst(r.backend)
  <2>1. pc \in {"getCert", "persist"} /\ (pc = "getCert") = (r.backend \in Builtin)
    BY DEF EnsureFirst
  <2>2. Steps(w) /\ request'[w].pc = pc
    BY <1>4, <2>1, GotoEffect DEF IInv
  <2>3. r.version \in Nat
    BY <1>1 DEF Requests
  <2> HIDE DEF pc
  <2>4. PutHolds(w)'
    BY <1>1, <1>2, <1>4, <2>1, <2>2, <2>3 DEF PutHolds, Steps
  <2> QED
    BY <1>1, <1>2, <1>4, <2>1, <2>4, GoOnInvariant DEF PutPCs, pc
<1> QED
  BY <1>3, <1>4 DEF GetCurrent

\* What a running request to create or update the mesh may rely on.
LEMMA PutFacts ==
    ASSUME IInv, NEW w \in Workers, Running(w), request[w].op \in {"create", "update"}
    PROVE  /\ ~overlapped => PutHolds(w) /\ Alone /\ RequestsHold
           /\ request[w].pc \in {"getCert", "getKey", "createCert", "createKey"} =>
                 request[w].backend \in Builtin
           /\ \A b \in Builtin : <<b, "cert">> \in Secrets /\ <<b, "key">> \in Secrets
           /\ request[w].id \in Nat \ {0}
<1>1. ~overlapped => PutHolds(w) /\ Alone /\ RequestsHold
  BY DEF IInv, RequestsHold
<1>2. request[w].pc \in {"getCert", "getKey", "createCert", "createKey"} =>
          request[w].backend \in Builtin
  BY DEF IInv, TypeOK
<1>3. \A b \in Builtin : <<b, "cert">> \in Secrets /\ <<b, "key">> \in Secrets
  BY DEF Secrets
<1>4. request[w].id \in Nat \ {0}
  BY DEF IInv, TypeOK, WellFormed, Requests
<1> QED
  BY <1>1, <1>2, <1>3, <1>4

\* getCa finds the certificate and the key, or else they are to be created.
LEMMA GetInvariant ==
    ASSUME IInv, NEW w \in Workers, GetCert(w) \/ GetKey(w)
    PROVE  IInv'
<1> DEFINE r == request[w]
           pc == IF GetCert(w) THEN IF Exists(Secret(w, "cert")) THEN "getKey" ELSE "createCert"
                 ELSE IF Exists(Secret(w, "key")) THEN "persist" ELSE "createCert"
<1>1. Running(w) /\ r.op \in {"create", "update"} /\ r.backend \in Builtin
  BY Operation, PutFacts DEF GetCert, GetKey, Running, PutPCs
<1>2. UNCHANGED <<mesh, secrets, policy, requests, overlapped, halted>>
  BY DEF GetCert, GetKey, storeVars, ghosts
<1>3. pc \in PutPCs /\ Goto(w, pc)
  BY DEF GetCert, GetKey, PutPCs
<1>4. /\ pc \in {"getKey", "persist", "createCert"}
      /\ pc = "getKey" => Exists(<<r.backend, "cert">>)
      /\ pc = "persist" => r.pc = "getKey" /\ Exists(<<r.backend, "key">>)
  BY DEF GetCert, GetKey, Secret
<1>5. r.pc # "current"
  BY DEF GetCert, GetKey
<1> HIDE DEF pc
<1>6. Steps(w) /\ request'[w].pc = pc
  BY <1>3, GotoEffect DEF IInv, PutPCs
<1>7. ASSUME ~overlapped
      PROVE  PutHolds(w)'
  <2>1. PutHolds(w)
    BY <1>1, <1>7, PutFacts
  <2> QED
    BY <1>1, <1>2, <1>4, <1>5, <1>6, <2>1 DEF PutHolds, Steps, Exists, Complete
<1> QED
  BY <1>1, <1>2, <1>3, <1>7, GoOnInvariant

\* A key pair is created, the certificate before the key.
LEMMA CreateInvariant ==
    ASSUME IInv, NEW w \in Workers, CreateCert(w) \/ CreateKey(w)
    PROVE  IInv'
<1> DEFINE r == request[w]
           kind == IF CreateCert(w) THEN "cert" ELSE "key"
           pc == IF CreateCert(w) THEN "createKey" ELSE "persist"
           s == <<r.backend, kind>>
<1>1. Running(w) /\ r.op \in {"create", "update"} /\ r.backend \in Builtin /\ r.id \in Nat \ {0}
  BY Operation, PutFacts DEF CreateCert, CreateKey, Running, PutPCs
<1>2. UNCHANGED <<mesh, policy, requests, overlapped, halted>>
  BY DEF CreateCert, CreateKey, CreateSecret, ghosts
<1>3. /\ \/ kind = "cert" /\ pc = "createKey" /\ r.pc = "createCert"
         \/ kind = "key" /\ pc = "persist" /\ r.pc = "createKey"
      /\ CreateSecret(w, kind, pc)
  BY DEF CreateCert, CreateKey
<1> HIDE DEF kind, pc
<1>4. s \in Secrets
  BY <1>1, <1>3 DEF Secrets
<1>5. CASE Exists(s)
  <2>1. UNCHANGED secrets /\ Return(w, "error")
    BY <1>3, <1>5 DEF CreateSecret, Secret
  <2>2. Steps(w) /\ request'[w].pc = "done"
    BY <2>1, ReturnEffect DEF IInv
  <2> QED
    BY <1>1, <1>2, <2>1, <2>2, EndInvariant DEF IInv, TypeOK
<1>6. CASE ~Exists(s)
  <2>1. secrets' = [secrets EXCEPT ![s] = r.id] /\ Goto(w, pc)
    BY <1>3, <1>6 DEF CreateSecret, Secret
  <2>2. Steps(w) /\ request'[w].pc = pc
    BY <1>3, <2>1, GotoEffect DEF IInv
  <2>3. secrets \in [Secrets -> Nat]
    BY DEF IInv, TypeOK
  <2>4. /\ secrets' \in [Secrets -> Nat]
        /\ secrets'[s] = r.id
        /\ \A x \in Secrets : x # s => secrets'[x] = secrets[x]
        /\ secrets[s] = 0
    BY <1>1, <1>4, <1>6, <2>1, <2>3 DEF Exists
  <2>5. /\ \A x \in Secrets : Exists(x) => secrets'[x] = secrets[x]
        /\ \A x \in Secrets : Exists(x) => Exists(x)'
    BY <2>4 DEF Exists
  <2>6. \A b \in Builtin : <<b, "cert">> \in Secrets /\ <<b, "key">> \in Secrets
    BY DEF Secrets
  <2>7. ASSUME ~overlapped
        PROVE  PutHolds(w)' /\ (PairedCAs => PairedCAs')
    <3>1. PutHolds(w)
      BY <1>1, <2>7, PutFacts
    <3>2. kind = "key" => secrets[<<r.backend, "cert">>] = r.id
      BY <1>3, <3>1 DEF PutHolds
    <3>3. PutHolds(w)'
      <4>1. /\ kind = "cert" => secrets'[<<r.backend, "cert">>] = r.id
            /\ kind = "key" => secrets'[<<r.backend, "cert">>] = r.id /\ secrets'[<<r.backend, "key">>] = r.id
        BY <1>1, <1>3, <2>4, <2>6, <3>2
      <4> QED
        BY <1>1, <1>2, <1>3, <2>2, <3>1, <4>1 DEF PutHolds, Steps, Exists, Complete
    <3>4. PairedCAs => PairedCAs'
      BY <1>1, <1>3, <2>4, <2>6, <3>2 DEF PairedCAs, Exists, Complete, Matches
    <3> QED
      BY <3>3, <3>4
  <2>8. MeshHasCA'
    BY <1>2, <2>5, <2>6 DEF IInv, MeshHasCA, Complete
  <2>9. /\ request'[w].pc \in PCs(request'[w].op)
        /\ request'[w].backend \in Builtin
        /\ policy' \in BOOLEAN
    BY <1>1, <1>2, <1>3, <2>2 DEF Steps, PCs, PutPCs, IInv, TypeOK
  <2> QED
    BY <1>1, <1>2, <2>2, <2>4, <2>5, <2>7, <2>8, <2>9, OtherStep
<1> QED
  BY <1>5, <1>6

\* The mesh is stored, with a version that is new, after its CA was ensured.
LEMMA PersistInvariant ==
    ASSUME IInv, NEW w \in Workers, Persist(w)
    PROVE  IInv'
<1> DEFINE r == request[w]
<1>1. Running(w) /\ r.op \in {"create", "update"} /\ r.pc = "persist"
  BY Operation DEF Persist, Running, PutPCs
<1>2. r.backend \in Backends /\ r.version \in Nat
  BY DEF IInv, TypeOK, Requests
<1>3. UNCHANGED <<secrets, policy, requests, overlapped, halted>>
  BY DEF Persist, ghosts
<1>4. \E result \in {"ok", "error"} : Return(w, result)
  BY DEF Persist
<1>5. Steps(w) /\ request'[w].pc = "done"
  BY <1>4, ReturnEffect DEF IInv
<1>6. CASE UNCHANGED mesh
  BY <1>1, <1>3, <1>5, <1>6, EndInvariant DEF IInv, TypeOK
<1>7. CASE /\ Accepts(r)
           /\ mesh' = [version |-> IF r.op = "create" THEN 0 ELSE r.version + 1,
                       backend |-> r.backend]
  <2>1. mesh' \in Meshes /\ mesh'.backend = r.backend
    BY <1>2, <1>7 DEF Meshes
  <2>2. mesh = NotFound \/ (mesh # NotFound /\ mesh'.version > mesh.version)
    BY <1>2, <1>7 DEF Accepts
  <2>3. secrets' \in [Secrets -> Nat] /\ \A s \in Secrets : Exists(s) => secrets'[s] = secrets[s]
    BY <1>3 DEF IInv, TypeOK
  <2>4. MeshHasCA'
    <3> SUFFICES ASSUME ~overlapped', mesh'.backend \in Builtin
                 PROVE  Complete(mesh.backend)'
      BY DEF MeshHasCA
    <3>1. ~overlapped
      BY <1>3
    <3>2. PutHolds(w)
      BY <1>1, <3>1, PutFacts
    <3>3. Complete(r.backend)
      BY <1>1, <2>1, <3>2 DEF PutHolds
    <3> QED
      BY <1>3, <2>1, <3>3 DEF Complete, Exists
  <2>5. PairedCAs => PairedCAs'
    BY <1>3 DEF PairedCAs, Complete, Matches, Exists
  <2>6. ~Running(w)' /\ request'[w].pc \notin {"getCert", "getKey", "createCert", "createKey"}
    BY <1>5 DEF Running
  <2>7. policy' \in BOOLEAN
    BY <1>3 DEF IInv, TypeOK
  <2> QED
    BY <1>1, <1>3, <1>5, <2>1, <2>2, <2>3, <2>4, <2>5, <2>6, <2>7, OtherStep
<1> QED
  BY <1>6, <1>7 DEF Persist

\* A resource of the mesh is created or, on request, deleted.
LEMMA PolicyInvariant ==
    ASSUME IInv, NEW w \in Workers,
           ensureMeshExists(w) \/ CreatePolicy(w) \/ (DeletePolicy(w) /\ request[w].op # "delete")
    PROVE  IInv'
<1>1. Running(w) /\ request[w].op = "policy"
  BY Operation DEF ensureMeshExists, CreatePolicy, DeletePolicy, Running
<1>2. UNCHANGED <<mesh, secrets, requests, overlapped, halted>>
  BY DEF ensureMeshExists, CreatePolicy, DeletePolicy, storeVars, ghosts
<1>3. policy' \in BOOLEAN
  BY DEF ensureMeshExists, CreatePolicy, DeletePolicy, storeVars, IInv, TypeOK
<1>4. CASE \E result \in {"ok", "error", "notfound"} : Return(w, result)
  <2>1. Steps(w) /\ request'[w].pc = "done"
    BY <1>4, ReturnEffect DEF IInv
  <2> QED
    BY <1>1, <1>2, <1>3, <2>1, EndInvariant
<1>5. CASE Goto(w, "createPolicy")
  <2>1. Steps(w) /\ request'[w].pc = "createPolicy"
    BY <1>5, GotoEffect DEF IInv
  <2>2. /\ MeshHasCA'
        /\ PairedCAs => PairedCAs'
        /\ \A s \in Secrets : Exists(s) => secrets'[s] = secrets[s]
        /\ secrets' \in [Secrets -> Nat]
    BY <1>2, StoreKept
  <2>3. request'[w].pc \in PCs(request'[w].op)
    BY <1>1, <2>1 DEF PCs, Steps
  <2> QED
    BY <1>1, <1>2, <1>3, <2>1, <2>2, <2>3, OtherStep
<1> QED
  BY <1>1, <1>4, <1>5 DEF ensureMeshExists, CreatePolicy, DeletePolicy

\* A call fails.  A deletion that does leaves no mesh behind, but perhaps one
\* half of a CA.
LEMMA FailInvariant ==
    ASSUME IInv, NEW w \in Workers, Fail(w)
    PROVE  IInv'
<1>1. Running(w) /\ UNCHANGED <<mesh, secrets, policy, requests, overlapped>>
  BY DEF Fail, storeVars
<1>2. Steps(w) /\ request'[w].pc = "done"
  BY ReturnEffect DEF Fail, IInv
<1>3. CASE request[w].op # "delete"
  <2>1. halted' = halted
    BY <1>3 DEF Fail, IInv, TypeOK
  <2> QED
    BY <1>1, <1>2, <1>3, <2>1, EndInvariant DEF IInv, TypeOK
<1>4. CASE request[w].op = "delete"
  <2>1. halted'
    BY <1>4 DEF Fail
  <2>2. halted' \in BOOLEAN
    BY DEF Fail, IInv, TypeOK
  <2>3. TypeOK'
    BY <1>1, <1>2, <2>2 DEF IInv, TypeOK, Steps
  <2>4. WellFormed'
    BY <1>2 DEF IInv, WellFormed, Running, Steps
  <2>5. MeshHasCA'
    BY <1>1, StoreKept
  <2>6. ~overlapped' => (Alone /\ RequestsHold)'
    <3> SUFFICES ASSUME ~overlapped'
                 PROVE  (Alone /\ RequestsHold)'
      OBVIOUS
    <3>1. ~overlapped
      BY <1>1
    <3>2. Alone
      BY <3>1 DEF IInv
    <3>3. \A o \in Workers : ~Running(o)'
      BY <1>1, <1>2, <1>4, <3>2 DEF Alone, Running, Steps
    <3> QED
      BY <3>3 DEF Alone, RequestsHold
  <2> QED
    BY <2>1, <2>3, <2>4, <2>5, <2>6 DEF IInv
<1> QED
  BY <1>3, <1>4
-----------------------------------------------------------------------------
\* What a running deletion may rely on.
LEMMA DeleteFacts ==
    ASSUME IInv, NEW w \in Workers, Running(w), request[w].op = "delete"
    PROVE  /\ ~overlapped => DeleteHolds(w)
           /\ request[w].pc # "deleteMesh" => request[w].stack # << >>
           /\ request[w] \in Requests
           /\ request[w].stack \in Seq(SUBSET Types)
           /\ secrets \in [Secrets -> Nat]
           /\ policy \in BOOLEAN
<1>1. ~overlapped => DeleteHolds(w)
  BY DEF IInv, RequestsHold
<1>2. request[w].pc # "deleteMesh" => request[w].stack # << >>
  BY DEF IInv, WellFormed
<1>3. request[w] \in Requests /\ request[w].stack \in Seq(SUBSET Types)
  BY DEF IInv, TypeOK, Requests
<1>4. secrets \in [Secrets -> Nat] /\ policy \in BOOLEAN
  BY DEF IInv, TypeOK
<1> QED
  BY <1>1, <1>2, <1>3, <1>4

\* Delete begins with the mesh.
LEMMA DeleteFirstInvariant ==
    ASSUME IInv, NEW w \in Workers, DeleteFirst(w)
    PROVE  IInv'
<1> DEFINE r == request[w]
           result == IF mesh = NotFound /\ r.stack = << >> THEN "notfound" ELSE r.result
           q == [r EXCEPT !.pc = "listSecrets", !.stack = Append(r.stack, Types), !.result = result]
<1>1. Running(w) /\ r.op = "delete" /\ r \in Requests /\ r.pc = "deleteMesh"
  BY Operation DEF DeleteFirst, Running
<1>2. Append(r.stack, Types) \in Seq(SUBSET Types) /\ Append(r.stack, Types) # << >>
  BY <1>1, DeleteFacts
<1>3. result \in {"ok", "error", "notfound"}
  BY <1>1 DEF Requests
<1>4. request' = [request EXCEPT ![w] = q]
  BY DEF DeleteFirst
<1> HIDE DEF result
<1>5. /\ q \in Requests /\ q.pc = "listSecrets" /\ q.stack = Append(r.stack, Types)
      /\ q.op = r.op /\ q.id = r.id /\ q.backend = r.backend /\ q.version = r.version
  BY <1>1, <1>2, <1>3 DEF Requests
<1> HIDE DEF q
<1>6. Steps(w) /\ request'[w] = q
  BY <1>4, <1>5 DEF Steps, IInv, TypeOK
<1>7. mesh' = NotFound /\ UNCHANGED <<secrets, policy, requests, overlapped, halted>>
  BY DEF DeleteFirst, ghosts
<1>8. Running(w)' /\ request'[w].pc \in DeletePCs /\ request'[w].stack # << >>
  BY <1>2, <1>5, <1>6 DEF Running, DeletePCs
<1>9. ASSUME ~overlapped
      PROVE  DeleteHolds(w)'
  <2>1. r.stack = << >>
    BY <1>1, <1>9, DeleteFacts DEF DeleteHolds
  <2>2. Len(q.stack) = 1 /\ q.stack[1] = Types
    BY <1>5, <2>1
  <2> QED
    BY <1>5, <1>6, <1>7, <2>2 DEF DeleteHolds, Types
<1>10. policy' \in BOOLEAN /\ secrets' \in [Secrets -> Nat] /\ \A s \in Secrets : secrets'[s] \in {0, secrets[s]}
  BY <1>1, <1>7, DeleteFacts
<1> QED
  BY <1>1, <1>6, <1>7, <1>8, <1>9, <1>10, DeleteStep

\* The secrets are listed.
LEMMA ListSecretsInvariant ==
    ASSUME IInv, NEW w \in Workers, ListSecrets(w)
    PROVE  IInv'
<1> DEFINE r == request[w]
           pending == {s \in Secrets : Exists(s)}
           q == [r EXCEPT !.pc = "deleteSecrets", !.pending = pending]
<1>1. Running(w) /\ r.op = "delete" /\ r \in Requests /\ r.pc = "listSecrets"
  BY Operation DEF ListSecrets, Running
<1>2. pending \in SUBSET Secrets /\ \A s \in Secrets : Exists(s) => s \in pending
  OBVIOUS
<1>3. request' = [request EXCEPT ![w] = q]
  BY DEF ListSecrets
<1> HIDE DEF pending
<1>4. /\ q \in Requests /\ q.pc = "deleteSecrets" /\ q.pending = pending /\ q.stack = r.stack
      /\ q.op = r.op /\ q.id = r.id /\ q.backend = r.backend /\ q.version = r.version
  BY <1>1, <1>2 DEF Requests
<1> HIDE DEF q
<1>5. Steps(w) /\ request'[w] = q
  BY <1>3, <1>4 DEF Steps, IInv, TypeOK
<1>6. UNCHANGED <<mesh, secrets, policy, requests, overlapped, halted>>
  BY DEF ListSecrets, storeVars, ghosts
<1>7. Running(w)' /\ request'[w].pc \in DeletePCs /\ request'[w].stack # << >>
  BY <1>1, <1>4, <1>5, DeleteFacts DEF Running, DeletePCs
<1>8. ASSUME ~overlapped
      PROVE  DeleteHolds(w)'
  <2>1. DeleteHolds(w)
    BY <1>1, <1>8, DeleteFacts
  <2> QED
    BY <1>1, <1>2, <1>4, <1>5, <1>6, <2>1 DEF DeleteHolds, Exists
<1>9. policy' \in BOOLEAN /\ secrets' \in [Secrets -> Nat] /\ \A s \in Secrets : secrets'[s] \in {0, secrets[s]}
  BY <1>1, <1>6, DeleteFacts
<1>10. mesh' \in {mesh, NotFound} /\ r.pc # "deleteMesh"
  BY <1>1, <1>6
<1> QED
  BY <1>1, <1>5, <1>6, <1>7, <1>8, <1>9, <1>10, DeleteStep

\* The listed secrets are deleted.
LEMMA DeleteSecretsInvariant ==
    ASSUME IInv, NEW w \in Workers, DeleteSecrets(w)
    PROVE  IInv'
<1> DEFINE r == request[w]
<1>1. Running(w) /\ r.op = "delete" /\ r \in Requests /\ r.pc = "deleteSecrets" /\ r.pending \in SUBSET Secrets
  BY Operation DEF DeleteSecrets, Running, Requests
<1>2. UNCHANGED <<mesh, policy, requests, overlapped, halted>> /\ policy' \in BOOLEAN
  BY <1>1, DeleteFacts DEF DeleteSecrets, ghosts
<1>3. r.stack # << >> /\ secrets \in [Secrets -> Nat]
  BY <1>1, DeleteFacts
<1>4. mesh' \in {mesh, NotFound} /\ r.pc # "deleteMesh"
  BY <1>1, <1>2
<1>5. ASSUME NEW s \in r.pending, secrets' = [secrets EXCEPT ![s] = 0],
             request' = [request EXCEPT ![w].pending = @ \ {s}]
      PROVE  IInv'
  <2> DEFINE q == [r EXCEPT !.pending = r.pending \ {s}]
  <2>1. /\ q \in Requests /\ q.pc = r.pc /\ q.pending = r.pending \ {s} /\ q.stack = r.stack
        /\ q.op = r.op /\ q.id = r.id /\ q.backend = r.backend /\ q.version = r.version
    BY <1>1 DEF Requests
  <2>2. request' = [request EXCEPT ![w] = q]
    BY <1>5
  <2> HIDE DEF q
  <2>3. Steps(w) /\ request'[w] = q
    BY <2>1, <2>2 DEF Steps, IInv, TypeOK
  <2>4. /\ secrets' \in [Secrets -> Nat]
        /\ secrets'[s] = 0 /\ \A x \in Secrets : x # s => secrets'[x] = secrets[x]
    BY <1>1, <1>3, <1>5
  <2>5. \A x \in Secrets : secrets'[x] \in {0, secrets[x]}
    BY <2>4
  <2>6. Running(w)' /\ request'[w].pc \in DeletePCs /\ request'[w].stack # << >>
    BY <1>1, <1>3, <2>1, <2>3 DEF Running, DeletePCs
  <2>7. ASSUME ~overlapped
        PROVE  DeleteHolds(w)'
    <3>1. DeleteHolds(w)
      BY <1>1, <2>7, DeleteFacts
    <3> QED
      BY <1>1, <1>2, <2>1, <2>3, <2>4, <3>1 DEF DeleteHolds, Exists
  <2> QED
    BY <1>1, <1>2, <1>4, <2>3, <2>4, <2>5, <2>6, <2>7, DeleteStep
<1>6. CASE r.pending = {} /\ Goto(w, "types") /\ UNCHANGED secrets
  <2>1. Steps(w) /\ request'[w].pc = "types" /\ request'[w].stack = r.stack
    BY <1>6, GotoEffect DEF IInv
  <2>2. Running(w)' /\ request'[w].pc \in DeletePCs /\ request'[w].stack # << >>
    BY <1>3, <2>1 DEF Running, DeletePCs
  <2>3. ASSUME ~overlapped
        PROVE  DeleteHolds(w)'
    <3>1. DeleteHolds(w)
      BY <1>1, <2>3, DeleteFacts
    <3> QED
      BY <1>1, <1>2, <1>6, <2>1, <3>1 DEF DeleteHolds, Exists
  <2>4. secrets' \in [Secrets -> Nat] /\ \A s \in Secrets : secrets'[s] \in {0, secrets[s]}
    BY <1>3, <1>6
  <2> QED
    BY <1>1, <1>2, <1>4, <2>1, <2>2, <2>3, <2>4, DeleteStep
<1> QED
  BY <1>5, <1>6 DEF DeleteSecrets

\* The next type is listed.
LEMMA DeleteAllInvariant ==
    ASSUME IInv, NEW w \in Workers, NEW type \in Types, DeleteAll(w, type)
    PROVE  IInv'
<1> DEFINE r == request[w]
           top == Len(r.stack)
           stack == [r.stack EXCEPT ![top] = r.stack[top] \ {type}]
           pc == CASE type = "Secret" -> "listSecrets"
                   [] type = "Policy" /\ policy -> "deletePolicy"
                   [] type = "Mesh" /\ mesh # NotFound -> "deleteMesh"
                   [] OTHER -> "types"
           q == [r EXCEPT !.pc = pc, !.stack = stack]
<1>1. Running(w) /\ r.op = "delete" /\ r \in Requests /\ r.pc = "types"
  BY Operation DEF DeleteAll, Running
<1>2. r.stack # << >> /\ r.stack \in Seq(SUBSET Types)
  BY <1>1, DeleteFacts
<1>3. top \in 1 .. Len(r.stack) /\ top \in Nat \ {0}
  BY <1>2
<1>4. stack \in Seq(SUBSET Types) /\ Len(stack) = top /\ stack[top] = r.stack[top] \ {type}
  BY <1>2, <1>3
<1>5. /\ pc \in {"listSecrets", "deletePolicy", "deleteMesh", "types"}
      /\ pc = "deleteMesh" => mesh # NotFound
      /\ type = "Policy" => pc = IF policy THEN "deletePolicy" ELSE "types"
      /\ type # "Policy" => pc # "deletePolicy"
  BY DEF Types
<1>6. request' = [request EXCEPT ![w] = q]
  BY DEF DeleteAll
<1>7. UNCHANGED <<mesh, secrets, policy, requests, overlapped, halted>>
  BY DEF DeleteAll, storeVars, ghosts
<1>8. stack # << >>
  BY <1>3, <1>4
<1> HIDE DEF stack, pc
<1>9. /\ q \in Requests /\ q.pc = pc /\ q.pending = r.pending /\ q.stack = stack
      /\ q.op = r.op /\ q.id = r.id /\ q.backend = r.backend /\ q.version = r.version
  BY <1>1, <1>4, <1>5 DEF Requests
<1> HIDE DEF q
<1>10. Steps(w) /\ request'[w] = q
  BY <1>6, <1>9 DEF Steps, IInv, TypeOK
<1>11. Running(w)' /\ request'[w].pc \in DeletePCs /\ request'[w].stack # << >>
  BY <1>5, <1>8, <1>9, <1>10 DEF Running, DeletePCs
<1>12. ASSUME ~overlapped
       PROVE  DeleteHolds(w)'
  <2>1. DeleteHolds(w)
    BY <1>1, <1>12, DeleteFacts
  <2>2. /\ mesh = NotFound /\ top = 1 /\ pc # "deleteMesh"
        /\ \A s \in Secrets : ~Exists(s)
        /\ "Policy" \notin r.stack[1] => ~policy
    BY <1>1, <1>5, <2>1 DEF DeleteHolds
  <2>3. pc # "deletePolicy" /\ "Policy" \notin stack[1] => ~policy
    BY <1>4, <1>5, <2>2
  <2> QED
    BY <1>4, <1>5, <1>7, <1>9, <1>10, <2>2, <2>3 DEF DeleteHolds, Exists
<1>13. policy' \in BOOLEAN /\ secrets' \in [Secrets -> Nat] /\ \A s \in Secrets : secrets'[s] \in {0, secrets[s]}
  BY <1>1, <1>7, DeleteFacts
<1>14. mesh' \in {mesh, NotFound} /\ r.pc # "deleteMesh"
  BY <1>1, <1>7
<1> QED
  BY <1>1, <1>7, <1>10, <1>11, <1>12, <1>13, <1>14, DeleteStep

\* The deletion ends, or the one nested in it.
LEMMA DeletedInvariant ==
    ASSUME IInv, NEW w \in Workers, Deleted(w)
    PROVE  /\ IInv'
           /\ Running(w) /\ request[w].op = "delete" /\ Steps(w)
           /\ ~overlapped => /\ mesh' = NotFound /\ ~policy'
                             /\ \A s \in Secrets : secrets'[s] = 0
<1> DEFINE r == request[w]
           top == Len(r.stack)
           stack == SubSeq(r.stack, 1, top - 1)
           pc == IF top = 1 THEN "done" ELSE "types"
           q == [r EXCEPT !.stack = stack, !.pc = pc]
<1>1. Running(w) /\ r.op = "delete" /\ r \in Requests /\ r.pc = "types"
  BY Operation DEF Deleted, Running
<1>2. r.stack # << >> /\ r.stack \in Seq(SUBSET Types) /\ policy \in BOOLEAN
      /\ secrets \in [Secrets -> Nat]
  BY <1>1, DeleteFacts
<1>3. top \in Nat \ {0}
  BY <1>2
<1>4. stack \in Seq(SUBSET Types) /\ Len(stack) = top - 1
  BY <1>2, <1>3
<1>5. pc = "types" => stack # << >>
  <2>1. pc = "types" => top # 1
    OBVIOUS
  <2> HIDE DEF pc, stack, top
  <2>2. pc = "types" => Len(stack) # 0
    BY <1>3, <1>4, <2>1
  <2> QED
    BY <2>2
<1>6. request' = [request EXCEPT ![w] = q]
  BY DEF Deleted
<1>7. UNCHANGED <<mesh, secrets, policy, requests, overlapped, halted>> /\ r.stack[top] = {}
  BY DEF Deleted, storeVars, ghosts
<1>8. pc \in {"done", "types"} /\ (pc = "done" <=> top = 1)
  OBVIOUS
<1> HIDE DEF stack, pc
<1>9. /\ q \in Requests /\ q.pc = pc /\ q.stack = stack
      /\ q.op = r.op /\ q.id = r.id /\ q.backend = r.backend /\ q.version = r.version
  BY <1>1, <1>4, <1>8 DEF Requests
<1> HIDE DEF q
<1>10. Steps(w) /\ request'[w] = q
  BY <1>6, <1>9 DEF Steps, IInv, TypeOK
<1>11. Running(w)' => request'[w].pc \in DeletePCs /\ request'[w].stack # << >>
  BY <1>5, <1>8, <1>9, <1>10 DEF Running, DeletePCs
<1>12. ASSUME ~overlapped
       PROVE  /\ mesh' = NotFound /\ ~policy' /\ \A s \in Secrets : secrets'[s] = 0
              /\ ~Running(w)'
  <2>1. DeleteHolds(w)
    BY <1>1, <1>12, DeleteFacts
  <2>2. /\ mesh = NotFound /\ top = 1 /\ ~policy
        /\ \A s \in Secrets : ~Exists(s)
    BY <1>1, <1>7, <2>1 DEF DeleteHolds
  <2> QED
    BY <1>7, <1>8, <1>9, <1>10, <2>2 DEF Exists, Running
<1>13. policy' \in BOOLEAN /\ secrets' \in [Secrets -> Nat] /\ \A s \in Secrets : secrets'[s] \in {0, secrets[s]}
  BY <1>2, <1>7
<1>14. mesh' \in {mesh, NotFound} /\ r.pc # "deleteMesh"
  BY <1>1, <1>7
<1>15. IInv'
  BY <1>1, <1>7, <1>10, <1>11, <1>12, <1>13, <1>14, DeleteStep
<1> QED
  BY <1>1, <1>10, <1>12, <1>15

\* The other resources are deleted with their mesh.
LEMMA DeletePolicyInvariant ==
    ASSUME IInv, NEW w \in Workers, DeletePolicy(w), request[w].op = "delete"
    PROVE  IInv'
<1> DEFINE r == request[w]
<1>1. Running(w) /\ r.pc = "deletePolicy"
  BY DEF DeletePolicy, Running
<1>2. UNCHANGED <<mesh, secrets, requests, overlapped, halted>> /\ policy' = FALSE /\ Goto(w, "types")
  BY DEF DeletePolicy, ghosts
<1>3. Steps(w) /\ request'[w].pc = "types" /\ request'[w].stack = r.stack
  BY <1>2, GotoEffect DEF IInv
<1>4. Running(w)' /\ request'[w].pc \in DeletePCs /\ request'[w].stack # << >>
  BY <1>1, <1>3, DeleteFacts DEF Running, DeletePCs
<1>5. ASSUME ~overlapped
      PROVE  DeleteHolds(w)'
  <2>1. DeleteHolds(w)
    BY <1>1, <1>5, DeleteFacts
  <2> QED
    BY <1>1, <1>2, <1>3, <2>1 DEF DeleteHolds, Exists
<1>6. policy' \in BOOLEAN /\ secrets' \in [Secrets -> Nat] /\ \A s \in Secrets : secrets'[s] \in {0, secrets[s]}
  BY <1>1, <1>2, DeleteFacts
<1>7. mesh' \in {mesh, NotFound} /\ r.pc # "deleteMesh"
  BY <1>1, <1>2
<1> QED
  BY <1>1, <1>2, <1>3, <1>4, <1>5, <1>6, <1>7, DeleteStep
-----------------------------------------------------------------------------
\* The requests the API server takes.
LEMMA TakeInvariant ==
    ASSUME IInv, NEW w \in Workers,
           \/ \E b \in Backends : PutMesh(w, b)
           \/ CreateDefaultMesh(w) \/ DeleteMesh(w) \/ PutPolicy(w) \/ RemovePolicy(w)
    PROVE  IInv'
<1>1. ASSUME NEW b \in Backends, PutMesh(w, b), mesh = NotFound
      PROVE  IInv'
  <2> DEFINE r == [Idle EXCEPT !.op = "create", !.backend = b, !.pc = EnsureFirst(b)]
  <2>1. EnsureFirst(b) \in {"getCert", "persist"} /\ (EnsureFirst(b) = "getCert" <=> b \in Builtin)
    BY DEF EnsureFirst
  <2>2. r \in Requests /\ r.op = "create" /\ r.backend = b /\ r.pc = EnsureFirst(b)
    BY <2>1, IdleIsRequest DEF Requests
  <2>3. Begin(w, r)
    BY <1>1 DEF PutMesh
  <2> HIDE DEF r
  <2>4. r.pc \in PCs(r.op)
    BY <2>1, <2>2 DEF PCs, PutPCs
  <2> QED
    BY <2>1, <2>2, <2>3, <2>4, BeginInvariant
<1>2. ASSUME NEW b \in Backends, PutMesh(w, b), mesh # NotFound
      PROVE  IInv'
  <2> DEFINE r == [Idle EXCEPT !.op = "update", !.backend = b, !.pc = "current",
                               !.version = mesh.version]
  <2>1. mesh.version \in Nat
    BY <1>2 DEF IInv, TypeOK, Meshes
  <2>2. r \in Requests /\ r.op = "update" /\ r.pc = "current" /\ r.version = mesh.version
    BY <2>1, IdleIsRequest DEF Requests
  <2>3. Begin(w, r)
    BY <1>2 DEF PutMesh
  <2> HIDE DEF r
  <2>4. r.pc \in PCs(r.op)
    BY <2>2 DEF PCs, PutPCs
  <2> QED
    BY <1>2, <2>2, <2>3, <2>4, BeginInvariant
<1>3. CASE CreateDefaultMesh(w)
  <2> DEFINE r == [Idle EXCEPT !.op = "create", !.backend = NoBackend, !.pc = "persist"]
  <2>1. r \in Requests /\ r.op = "create" /\ r.pc = "persist" /\ r.backend = NoBackend
    BY IdleIsRequest DEF Requests, Backends
  <2>2. Begin(w, r)
    BY <1>3 DEF CreateDefaultMesh
  <2> HIDE DEF r
  <2>3. r.pc \in PCs(r.op)
    BY <2>1 DEF PCs, PutPCs
  <2> QED
    BY <2>1, <2>2, <2>3, NamesAssumption, BeginInvariant
<1>4. CASE DeleteMesh(w)
  <2> DEFINE r == [Idle EXCEPT !.op = "delete", !.pc = "deleteMesh"]
  <2>1. r \in Requests /\ r.op = "delete" /\ r.pc = "deleteMesh" /\ r.stack = Idle.stack
    BY IdleIsRequest DEF Requests
  <2>2. Begin(w, r)
    BY <1>4 DEF DeleteMesh
  <2> HIDE DEF r
  <2>3. r.pc \in PCs(r.op) /\ r.stack = << >>
    BY <2>1, IdleIsRequest DEF PCs, DeletePCs
  <2> QED
    BY <2>1, <2>2, <2>3, BeginInvariant
<1>5. CASE PutPolicy(w)
  <2> DEFINE r == [Idle EXCEPT !.op = "policy", !.pc = "ensureMesh"]
  <2>1. r \in Requests /\ r.op = "policy" /\ r.pc = "ensureMesh"
    BY IdleIsRequest DEF Requests
  <2>2. Begin(w, r)
    BY <1>5 DEF PutPolicy
  <2> HIDE DEF r
  <2>3. r.pc \in PCs(r.op)
    BY <2>1 DEF PCs
  <2> QED
    BY <2>1, <2>2, <2>3, BeginInvariant
<1>6. CASE RemovePolicy(w)
  <2> DEFINE r == [Idle EXCEPT !.op = "policy", !.pc = "deletePolicy"]
  <2>1. r \in Requests /\ r.op = "policy" /\ r.pc = "deletePolicy"
    BY IdleIsRequest DEF Requests
  <2>2. Begin(w, r)
    BY <1>6 DEF RemovePolicy
  <2> HIDE DEF r
  <2>3. r.pc \in PCs(r.op)
    BY <2>1 DEF PCs
  <2> QED
    BY <2>1, <2>2, <2>3, BeginInvariant
<1> QED
  BY <1>1, <1>2, <1>3, <1>4, <1>5, <1>6

\* Every step keeps the invariant.
LEMMA NextInvariant == IInv /\ [Next]_vars => IInv'
<1> SUFFICES ASSUME IInv, [Next]_vars PROVE IInv'
  OBVIOUS
<1>1. CASE UNCHANGED vars
  BY <1>1 DEF vars, IInv, TypeOK, WellFormed, Alone, RequestsHold, PutHolds, DeleteHolds, MeshHasCA,
              Paired, Deleting, Running, Complete, Matches, Exists
<1>2. ASSUME NEW w \in Workers, Put(w)
      PROVE  IInv'
  BY <1>2, GetCurrentInvariant, GetInvariant, CreateInvariant, PersistInvariant DEF Put
<1>3. ASSUME NEW w \in Workers, Delete(w)
      PROVE  IInv'
  BY <1>3, DeleteFirstInvariant, ListSecretsInvariant, DeleteSecretsInvariant, DeletedInvariant,
     DeleteAllInvariant DEF Delete
<1>4. ASSUME NEW w \in Workers, Policy(w)
      PROVE  IInv'
  BY <1>4, PolicyInvariant, DeletePolicyInvariant DEF Policy
<1> QED
  BY <1>1, <1>2, <1>3, <1>4, TakeInvariant, FailInvariant DEF Next

\* What the store holds of the mesh, and what the workers do, has its type
\* always; the builtin manager is asked for its own backends only.
THEOREM TypeCorrect == Spec => []TypeOK
<1>1. IInv => TypeOK
  BY DEF IInv
<1> QED
  BY <1>1, InitInvariant, NextInvariant, PTL DEF Spec

\* As long as no deletion of a mesh overlaps with another request, a mesh with
\* a builtin CA has its certificate and its key: EnsureEnabledCA before the
\* store, and the deletion of the mesh before its secrets, see to that for any
\* number of concurrent requests and wherever one fails.
THEOREM MeshAlwaysHasCA == Spec => []MeshHasCA
<1>1. IInv => MeshHasCA
  BY DEF IInv
<1> QED
  BY <1>1, InitInvariant, NextInvariant, PTL DEF Spec

\* The certificate and the key of a builtin CA are of one pair, whichever of
\* the requests that create them one after the other got how far.
THEOREM KeyAlwaysMatchesCert == Spec => []KeyMatchesCert
<1>1. IInv => KeyMatchesCert
  BY DEF IInv, KeyMatchesCert, Paired
<1> QED
  BY <1>1, InitInvariant, NextInvariant, PTL DEF Spec
-----------------------------------------------------------------------------
\* Only a deletion and the last call of Create and Update change the mesh.
LEMMA MeshChanges ==
    ASSUME [Next]_vars, mesh' # mesh, mesh' # NotFound
    PROVE  \E w \in Workers : Persist(w)
<1>1. ~UNCHANGED vars
  BY DEF vars
<1>2. PICK w \in Workers :
          \/ \E b \in Backends : PutMesh(w, b)
          \/ CreateDefaultMesh(w) \/ DeleteMesh(w) \/ PutPolicy(w) \/ RemovePolicy(w)
          \/ Put(w) \/ Delete(w) \/ Policy(w)
          \/ Fail(w)
  BY <1>1 DEF Next
<1>3. \A r : ~Begin(w, r)
  BY DEF Begin, storeVars
<1>4. ~(\E b \in Backends : PutMesh(w, b))
  BY <1>3 DEF PutMesh
<1>5. ~CreateDefaultMesh(w) /\ ~DeleteMesh(w) /\ ~PutPolicy(w) /\ ~RemovePolicy(w)
  BY <1>3 DEF CreateDefaultMesh, DeleteMesh, PutPolicy, RemovePolicy
<1>6. ~Delete(w)
  BY DEF Delete, DeleteFirst, ListSecrets, DeleteSecrets, Deleted, DeleteAll, storeVars
<1>7. ~Policy(w) /\ ~Fail(w)
  BY DEF Policy, ensureMeshExists, CreatePolicy, DeletePolicy, Fail, storeVars
<1>8. Put(w) => Persist(w)
  BY DEF Put, GetCurrent, GetCert, GetKey, CreateCert, CreateKey, CreateSecret, storeVars
<1> QED
  BY <1>2, <1>4, <1>5, <1>6, <1>7, <1>8

\* No request takes a mesh from one CA to another, however many calls lie
\* between the validation of the backend and the update, unless a deletion
\* overlaps: the version that is compared in the store is the one that was
\* validated.
THEOREM CANeverChanges == Spec => NeverChangesCA
<1> DEFINE Step == ~overlapped' /\ mesh # NotFound /\ mesh' # NotFound =>
                      mesh'.backend \in {mesh.backend, NoBackend} \/ mesh.backend = NoBackend
<1>1. IInv /\ [Next]_vars => [Step]_mesh
  <2> SUFFICES ASSUME IInv, [Next]_vars, mesh' # mesh, ~overlapped', mesh # NotFound, mesh' # NotFound
               PROVE  mesh'.backend \in {mesh.backend, NoBackend} \/ mesh.backend = NoBackend
    OBVIOUS
  <2>1. PICK w \in Workers : Persist(w)
    BY MeshChanges
  <2> DEFINE r == request[w]
  <2>2. Running(w) /\ r.op \in {"create", "update"} /\ r.pc = "persist"
    BY <2>1, Operation DEF Persist, Running, PutPCs
  <2>3. ~overlapped
    BY <2>1 DEF Persist, ghosts
  <2>4. PutHolds(w)
    BY <2>2, <2>3, PutFacts
  <2>5. Accepts(r) /\ mesh'.backend = r.backend
    BY <2>1 DEF Persist
  <2>6. r.op = "update" /\ mesh.version = r.version
    BY <2>5 DEF Accepts
  <2>7. ~ChangesCA(mesh.backend, r.backend)
    BY <2>2, <2>4, <2>6 DEF PutHolds
  <2> QED
    BY <2>5, <2>7 DEF ChangesCA
<1> HIDE DEF Step
<1>2. Spec => [][Step]_mesh
  BY <1>1, InitInvariant, NextInvariant, PTL DEF Spec
<1> QED
  BY <1>2 DEF NeverChangesCA, Step

\* A deletion ends with an error or as the last of its types is done.
LEMMA DeletionEnds ==
    ASSUME IInv, [Next]_vars, NEW w \in Workers, request[w].op = "delete", Running(w),
           request'[w].pc = "done", request'[w].result # "error"
    PROVE  Deleted(w)
<1>1. ~UNCHANGED vars
  BY DEF vars, Running
<1>2. PICK o \in Workers :
          \/ \E b \in Backends : PutMesh(o, b)
          \/ CreateDefaultMesh(o) \/ DeleteMesh(o) \/ PutPolicy(o) \/ RemovePolicy(o)
          \/ Put(o) \/ Delete(o) \/ Policy(o)
          \/ Fail(o)
  BY <1>1 DEF Next
<1>3. request \in [Workers -> Requests]
  BY DEF IInv, TypeOK
<1>4. request'[w] # request[w]
  BY DEF Running
<1>5. \A r : ~Begin(o, r)
  BY <1>3, <1>4 DEF Begin
<1>6. ~(\E b \in Backends : PutMesh(o, b))
  BY <1>5 DEF PutMesh
<1>7. ~CreateDefaultMesh(o) /\ ~DeleteMesh(o) /\ ~PutPolicy(o) /\ ~RemovePolicy(o)
  BY <1>5 DEF CreateDefaultMesh, DeleteMesh, PutPolicy, RemovePolicy
<1>8. ASSUME Put(o) \/ Delete(o) \/ Policy(o) \/ Fail(o)
      PROVE  o = w
  <2>1. CASE Put(o)
    BY <1>3, <1>4, <2>1 DEF Put, GetCurrent, GetCert, GetKey, CreateCert, CreateKey, CreateSecret, Persist,
                            Goto, Return
  <2>2. CASE Delete(o)
    BY <1>3, <1>4, <2>2 DEF Delete, DeleteFirst, ListSecrets, DeleteSecrets, DeleteAll, Deleted, Goto
  <2>3. CASE Policy(o) \/ Fail(o)
    BY <1>3, <1>4, <2>3 DEF Policy, ensureMeshExists, CreatePolicy, DeletePolicy, Fail, Goto, Return
  <2> QED
    BY <1>8, <2>1, <2>2, <2>3
<1>9. ~Put(w)
  BY Operation DEF Put, GetCurrent, GetCert, GetKey, CreateCert, CreateKey, Persist, PutPCs
<1>10. ~Fail(w)
  BY ReturnEffect DEF Fail, IInv
<1>11. ~Policy(w)
  BY Operation, GotoEffect DEF Policy, ensureMeshExists, CreatePolicy, DeletePolicy, IInv
<1>12. request[w] \in Requests
  BY <1>3
<1>13. Delete(w) => Deleted(w)
  <2>1. ~DeleteFirst(w)
    BY <1>3, <1>12 DEF DeleteFirst, Requests
  <2>2. ~ListSecrets(w)
    BY <1>3, <1>12 DEF ListSecrets, Requests
  <2>3. ~DeleteSecrets(w)
    <3>1. ASSUME NEW s, request' = [request EXCEPT ![w].pending = @ \ {s}]
          PROVE  request'[w].pc = request[w].pc
      BY <1>3, <1>12, <3>1 DEF Requests
    <3> QED
      BY <3>1, GotoEffect DEF DeleteSecrets, IInv, Running
  <2>4. \A type \in Types : ~DeleteAll(w, type)
    BY <1>3, <1>12 DEF DeleteAll, Requests, Types
  <2> QED
    BY <2>1, <2>2, <2>3, <2>4 DEF Delete
<1> QED
  BY <1>2, <1>6, <1>7, <1>8, <1>9, <1>10, <1>11, <1>13

\* When Delete answers that the mesh is deleted, or not found, nothing of it is
\* left, whatever failed deletions left behind before.
THEOREM DeleteLeavesNothing == Spec => DeletesEverything
<1> DEFINE Step == \A w \in Workers :
                      request[w].op = "delete" /\ Running(w) /\ request'[w].pc = "done"
                        /\ request'[w].result # "error" /\ ~overlapped =>
                      mesh' = NotFound /\ ~policy' /\ \A s \in Secrets : secrets'[s] = 0
<1>1. IInv /\ [Next]_vars => [Step]_vars
  BY DeletionEnds, DeletedInvariant
<1> HIDE DEF Step
<1>2. Spec => [][Step]_vars
  BY <1>1, InitInvariant, NextInvariant, PTL DEF Spec
<1> QED
  BY <1>2 DEF DeletesEverything, Step
=============================================================================
