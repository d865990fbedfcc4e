-------------------------- MODULE TaskQueue_proofs --------------------------
(* Theorems about TaskQueue for every value of its constants. *)
EXTENDS TaskQueue, TLAPS

USE DEF Task, Secret

LEMMA SlotType ==
  ASSUME NEW op \in {"none", "enqueue", "reset", "sweep", "complete",
                     "supersede", "fail", "fatal", "abort"},
         NEW phase \in {"free", "sent", "open", "ready"},
         NEW by \in Worker \cup Systems \cup {Null}, NEW t \in 0..MaxTasks,
         NEW s \in Nat, NEW r \in 0..MaxRetries, NEW awaits \in BOOLEAN
  PROVE  Slot(op, phase, by, t, s, r, awaits) \in Request
  BY ZenonT(30) DEF Slot, Request, ItemStatus

LEMMA FreeType == Free \in Request
<1>1. 0 \in 0..MaxTasks /\ 0 \in 0..MaxRetries /\ 0 \in Nat
  BY BoundsAssumption
<1>2. Slot("none", "free", Null, 0, 0, 0, FALSE) \in Request
  BY <1>1, SlotType
<1> QED
  BY <1>2 DEF Free

LEMMA FreeFields ==
  /\ Free.op = "none" /\ Free.phase = "free" /\ Free.by = Null
  /\ Free.task = 0 /\ Free.awaited = FALSE
  BY DEF Free, Slot

LEMMA InitInv == Init => IInv
<1> SUFFICES ASSUME Init PROVE IInv
  OBVIOUS
<1> USE BoundsAssumption, ItemAssumption DEF Init
<1>1. TypeOK
  <2>1. conn \in [Conn -> Request]
    BY FreeType
  <2>2. wk \in [Worker -> [phase : {"idle", "working", "waiting", "recovering"},
                           task : 0..MaxTasks, secret : Nat]]
    BY DEF Resting
  <2>3. itemOf \in [Task -> Item]
    OBVIOUS
  <2> QED
    BY <2>1, <2>2, <2>3 DEF TypeOK, Active, Terminal, ItemStatus, ActiveItem, Null
<1>2. IdsReserved
  BY FreeFields DEF IdsReserved
<1>3. KnownTasksExist
  BY FreeFields DEF KnownTasksExist, Resting
<1>4. RequestersKnown
  BY FreeFields DEF RequestersKnown
<1>5. RowConsistent
  BY DEF RowConsistent, Active
<1>6. SecretsInTime /\ SecretsNotShared
  BY DEF SecretsInTime, SecretsNotShared, Resting
<1>7. RepliesAwaited
  BY FreeFields DEF RepliesAwaited
<1> QED
  BY <1>1, <1>2, <1>3, <1>4, <1>5, <1>6, <1>7 DEF IInv

Poller == [phase : {"idle", "working", "waiting", "recovering"},
           task : 0..MaxTasks, secret : Nat]

LEMMA RestingType == Resting \in Poller
  BY BoundsAssumption DEF Resting, Poller

(* Answering a request leaves every other worker waiting as it was. *)
LEMMA AnsweredAwaited ==
  ASSUME wk \in [Worker -> Poller], conn \in [Conn -> Request], RepliesAwaited,
         NEW c \in Conn, NEW raises \in BOOLEAN,
         wk' = Answered(c, raises), conn' = [conn EXCEPT ![c] = Free]
  PROVE  RepliesAwaited'
<1>1. \A d \in Conn : conn'[d] = IF d = c THEN Free ELSE conn[d]
  OBVIOUS
<1>2. \A w \in Worker : wk'[w] # wk[w] => conn[c].awaited /\ conn[c].by = w
  BY DEF Answered
<1> QED
  BY <1>1, <1>2, FreeFields DEF RepliesAwaited

LEMMA CommitInv ==
  ASSUME IInv, NEW c \in Conn, Commit(c)
  PROVE  IInv'
<1> DEFINE t == conn[c].task
           i == itemOf[t]
<1>0. TypeOK /\ IdsReserved /\ KnownTasksExist /\ RequestersKnown
      /\ RepliesAwaited /\ RowConsistent /\ SecretsInTime /\ SecretsNotShared
  BY DEF IInv
<1>1. /\ conn[c] \in Request /\ t \in Task /\ t \in 0..MaxTasks
      /\ status[t] # "ABSENT"
      /\ conn[c].by \in Worker \cup {Admin, Cleanup}
  <2>1. conn[c].phase = "ready" /\ conn[c].op \notin {"enqueue", "reset"}
    BY DEF Commit, Settles
  <2>2. conn[c] \in Request
    BY <1>0 DEF TypeOK
  <2>3. t \in Task /\ status[t] # "ABSENT"
    BY <1>0, <2>1 DEF KnownTasksExist
  <2>4. conn[c].by \in Worker \cup {Admin, Cleanup}
    BY <1>0, <2>1 DEF RequestersKnown
  <2> QED
    BY <2>2, <2>3, <2>4, BoundsAssumption
<1>2. /\ Verdict(conn[c]) \in Terminal \cup {"PENDING"}
      /\ Retryable(conn[c]) <=> Verdict(conn[c]) = "PENDING"
      /\ Retryable(conn[c]) => conn[c].retry + 1 \in 0..MaxRetries
  BY <1>1, BoundsAssumption DEF Verdict, Retryable, Terminal, Request
<1>3. ItemVerdict(conn[c]) \in {"COMPLETED", "REVOKED", "RETRYING", "FAILED"}
  BY DEF ItemVerdict
<1>4. /\ OwnerAfter(conn[c]) \in Worker \cup {Null}
      /\ Verdict(conn[c]) = "PENDING" => OwnerAfter(conn[c]) = Null
  BY <1>0, <1>1, <1>2 DEF OwnerAfter, TypeOK
<1>5. /\ IssuedAfter(conn[c]) \in Nat
      /\ IssuedAfter(conn[c]) >= issued[t]
      /\ Verdict(conn[c]) = "PENDING" => IssuedAfter(conn[c]) = issued[t] + 1
  <2>1. issued[t] \in Nat
    BY <1>0, <1>1 DEF TypeOK
  <2> QED
    BY <1>1, <1>2, <2>1 DEF IssuedAfter
<1>6. /\ status' = [status EXCEPT ![t] = Verdict(conn[c])]
      /\ owner' = [owner EXCEPT ![t] = OwnerAfter(conn[c])]
      /\ issued' = [issued EXCEPT ![t] = IssuedAfter(conn[c])]
      /\ secret' = [secret EXCEPT ![t] =
            IF Verdict(conn[c]) = "PENDING" THEN IssuedAfter(conn[c]) ELSE 0]
      /\ retry' = [retry EXCEPT ![t] =
            IF Retryable(conn[c]) THEN conn[c].retry + 1 ELSE @]
      /\ stale' = [stale EXCEPT ![t] = FALSE]
      /\ conn' = [conn EXCEPT ![c] = Free]
      /\ wk' = Answered(c, conn[c].op = "supersede")
      /\ UNCHANGED <<created, itemOf, itemTask, staged, canonical>>
  BY <1>2 DEF Commit, files
<1>7. /\ \/ itemStatus' = itemStatus
         \/ itemStatus' = [itemStatus EXCEPT ![i] = ItemVerdict(conn[c])]
      /\ document' = document \/ document' = [document EXCEPT ![i] = t]
      /\ \/ announced' = announced
         \/ /\ Verdict(conn[c]) # "PENDING"
            /\ announced' = announced \cup {<<t, Verdict(conn[c])>>}
  BY <1>2 DEF Commit
<1> HIDE DEF t, i
<1>8. /\ wk' \in [Worker -> Poller]
      /\ \A w \in Worker :
           \/ wk'[w] = Resting
           \/ /\ wk'[w].task = wk[w].task /\ wk'[w].secret = wk[w].secret
              /\ wk'[w].phase # "idle" => wk[w].phase # "idle"
  BY <1>0, <1>6, RestingType DEF Answered, TypeOK, Poller, RepliesAwaited
<1>9. \A d \in Conn : conn'[d] = IF d = c THEN Free ELSE conn[d]
  BY <1>0, <1>6 DEF TypeOK
<1>10. /\ status' \in [Task -> Active \cup Terminal \cup {"ABSENT"}]
       /\ owner' \in [Task -> Worker \cup {Null}]
       /\ secret' \in [Task -> Nat] /\ issued' \in [Task -> Nat]
       /\ retry' \in [Task -> 0..MaxRetries]
       /\ stale' \in [Task -> BOOLEAN]
  BY <1>0, <1>1, <1>2, <1>4, <1>5, <1>6 DEF TypeOK, Active
<1>11. \A u \in Task :
         /\ u = t => /\ status'[u] = Verdict(conn[c])
                     /\ owner'[u] = OwnerAfter(conn[c])
                     /\ issued'[u] = IssuedAfter(conn[c])
                     /\ secret'[u] = IF Verdict(conn[c]) = "PENDING"
                                     THEN IssuedAfter(conn[c]) ELSE 0
         /\ u # t => /\ status'[u] = status[u] /\ issued'[u] = issued[u]
                     /\ secret'[u] = secret[u] /\ owner'[u] = owner[u]
  BY <1>0, <1>1, <1>6 DEF TypeOK
<1>12. \A u \in Task : status[u] = "ABSENT" <=> status'[u] = "ABSENT"
  BY <1>1, <1>2, <1>11 DEF Terminal
<1>13. TypeOK'
  <2>1. itemStatus' \in [Item -> ItemStatus]
    BY <1>0, <1>3, <1>7 DEF TypeOK, ItemStatus, ActiveItem
  <2>4. document' \in [Item -> 0..MaxTasks]
    BY <1>0, <1>1, <1>7 DEF TypeOK
  <2>2. announced' \subseteq Task \X Terminal
    BY <1>0, <1>1, <1>2, <1>7 DEF TypeOK
  <2>3. conn' \in [Conn -> Request]
    BY <1>0, <1>6, FreeType DEF TypeOK
  <2> QED
    BY <1>0, <1>6, <1>8, <1>10, <2>1, <2>2, <2>3, <2>4 DEF TypeOK, Poller
<1>14. IdsReserved'
  BY <1>0, <1>6, <1>9, <1>12, FreeFields DEF IdsReserved
<1>15. KnownTasksExist'
  <2>1. \A w \in Worker : wk[w].task \in 0..MaxTasks
    BY <1>0 DEF TypeOK
  <2>2. \A j \in Item : itemTask[j] \in 0..MaxTasks
    BY <1>0 DEF TypeOK
  <2>3. \A d \in Conn : conn'[d].phase # "free" /\ conn'[d].op # "enqueue" =>
          conn'[d].task \in Task /\ status'[conn'[d].task] # "ABSENT"
    BY <1>0, <1>9, <1>12, FreeFields DEF KnownTasksExist
  <2>4. \A w \in Worker :
          /\ wk'[w].phase # "idle" => wk'[w].task # 0
          /\ wk'[w].task # 0 => status'[wk'[w].task] # "ABSENT"
    BY <1>0, <1>8, <1>12, <2>1, BoundsAssumption DEF KnownTasksExist, Resting
  <2>5. \A j \in Item : itemTask'[j] # 0 => status'[itemTask'[j]] # "ABSENT"
    BY <1>0, <1>6, <1>12, <2>2, BoundsAssumption DEF KnownTasksExist
  <2> QED
    BY <2>3, <2>4, <2>5 DEF KnownTasksExist
<1>16. RequestersKnown'
  BY <1>0, <1>9, FreeFields DEF RequestersKnown
<1>17. RowConsistent'
  <2>1. issued[t] \in Nat
    BY <1>0, <1>1 DEF TypeOK
  <2> QED
    BY <1>0, <1>2, <1>4, <1>5, <1>11, <2>1 DEF RowConsistent, Active, Terminal
<1>18. SecretsInTime'
  <2> SUFFICES ASSUME NEW w \in Worker, wk'[w].task # 0
               PROVE  /\ wk'[w].secret <= issued'[wk'[w].task]
                      /\ status'[wk'[w].task] = "PENDING"
                           => wk'[w].secret < issued'[wk'[w].task]
    BY DEF SecretsInTime
  <2>1. wk'[w].task = wk[w].task /\ wk'[w].secret = wk[w].secret
    BY <1>8 DEF Resting
  <2>2. /\ wk[w].task \in Task /\ wk[w].secret \in Nat
        /\ wk[w].secret <= issued[wk[w].task]
        /\ status[wk[w].task] = "PENDING" => wk[w].secret < issued[wk[w].task]
    BY <1>0, <2>1, BoundsAssumption DEF SecretsInTime, TypeOK
  <2>3. issued[wk[w].task] \in Nat
    BY <1>0, <2>2 DEF TypeOK
  <2> QED
    BY <1>2, <1>5, <1>11, <2>1, <2>2, <2>3
<1>19. SecretsNotShared'
  BY <1>0, <1>8 DEF SecretsNotShared, Resting
<1>20. RepliesAwaited'
  <2>1. (conn[c].op = "supersede") \in BOOLEAN
    OBVIOUS
  <2>2. wk \in [Worker -> Poller] /\ conn \in [Conn -> Request]
    BY <1>0 DEF TypeOK, Poller
  <2>3. wk' = Answered(c, conn[c].op = "supersede") /\ conn' = [conn EXCEPT ![c] = Free]
    BY <1>6
  <2> QED
    BY <1>0, <2>1, <2>2, <2>3, AnsweredAwaited, Zenon
<1> QED
  BY <1>13, <1>14, <1>15, <1>16, <1>17, <1>18, <1>19, <1>20 DEF IInv

(* The steps that change no row of task_queue but claimed_at. *)
LEMMA QuietStep ==
  ASSUME IInv, TypeOK', RequestersKnown', RepliesAwaited',
         UNCHANGED <<created, status, owner, secret, issued>>,
         \A w \in Worker : wk'[w].task # 0 =>
           wk'[w].task = wk[w].task /\ wk'[w].secret = wk[w].secret,
         \A w \in Worker : wk'[w].phase # "idle" => wk'[w].task # 0,
         \A i \in Item : itemTask'[i] \in {itemTask[i], 0},
         \A d \in Conn : conn'[d].op = "enqueue" =>
           conn[d].op = "enqueue" /\ conn'[d].task = conn[d].task,
         \A d \in Conn : conn'[d].phase # "free" /\ conn'[d].op # "enqueue" =>
           conn'[d].task \in Task /\ status[conn'[d].task] # "ABSENT"
  PROVE  IInv'
<1>0. TypeOK /\ IdsReserved /\ KnownTasksExist /\ RowConsistent
      /\ SecretsInTime /\ SecretsNotShared
  BY DEF IInv
<1>1. IdsReserved'
  BY <1>0 DEF IdsReserved
<1>2. KnownTasksExist'
  BY <1>0 DEF KnownTasksExist
<1>3. RowConsistent'
  BY <1>0 DEF RowConsistent
<1>4. SecretsInTime'
  BY <1>0 DEF SecretsInTime
<1>5. SecretsNotShared'
  BY <1>0 DEF SecretsNotShared
<1> QED
  BY <1>1, <1>2, <1>3, <1>4, <1>5 DEF IInv

(* A request that ends, or is undone, leaves its slot free. *)
LEMMA UndoInv ==
  ASSUME IInv, NEW c \in Conn, NEW raises \in BOOLEAN,
         wk' = Answered(c, raises), conn' = [conn EXCEPT ![c] = Free],
         UNCHANGED <<rows, items, files, announced>>
  PROVE  IInv'
<1>0. TypeOK /\ KnownTasksExist /\ RequestersKnown /\ RepliesAwaited
  BY DEF IInv
<1>1. \A w \in Worker :
        \/ wk'[w] = wk[w] \/ wk'[w] = Resting
        \/ /\ wk[w].phase = "waiting"
           /\ wk'[w].task = wk[w].task /\ wk'[w].secret = wk[w].secret
  BY <1>0 DEF Answered, TypeOK, RepliesAwaited
<1>2. wk' \in [Worker -> Poller]
  BY <1>0, RestingType DEF Answered, TypeOK, Poller
<1>3. \A d \in Conn : conn'[d] = IF d = c THEN Free ELSE conn[d]
  BY <1>0 DEF TypeOK
<1>4. TypeOK'
  BY <1>0, <1>2, FreeType DEF TypeOK, Poller, rows, items, files
<1>5. RequestersKnown'
  BY <1>0, <1>3, FreeFields DEF RequestersKnown
<1>6. UNCHANGED <<created, status, owner, secret, issued, itemTask>>
  BY DEF rows, items
<1>7. \A w \in Worker : wk'[w].task # 0 =>
        wk'[w].task = wk[w].task /\ wk'[w].secret = wk[w].secret
  BY <1>1 DEF Resting
<1>8. \A d \in Conn :
        /\ conn'[d].op = "enqueue" =>
             conn[d].op = "enqueue" /\ conn'[d].task = conn[d].task
        /\ conn'[d].phase # "free" /\ conn'[d].op # "enqueue" =>
             conn'[d].task \in Task /\ status[conn'[d].task] # "ABSENT"
  BY <1>0, <1>3, FreeFields DEF KnownTasksExist
<1>9. \A w \in Worker : wk'[w].phase # "idle" => wk'[w].task # 0
  BY <1>0, <1>1 DEF Resting, KnownTasksExist
<1>10. RepliesAwaited'
  BY <1>0, AnsweredAwaited DEF TypeOK, Poller
<1>11. \A i \in Item : itemTask'[i] \in {itemTask[i], 0}
  BY <1>6
<1> QED
  BY <1>4, <1>5, <1>6, <1>7, <1>8, <1>9, <1>10, <1>11, QuietStep

(***************************************************************************)
(* Enqueueing.                                                             *)
(***************************************************************************)
LEMMA EnqueueBeginInv ==
  ASSUME IInv, NEW c \in Conn, NEW i \in Item, EnqueueBegin(c, i)
  PROVE  IInv'
<1> DEFINE t == created + 1
           slot == Slot("enqueue", "ready", Requester, t, 0, 0, FALSE)
           request == [slot EXCEPT !.found = itemStatus[i],
                         !.seen = {u \in ActiveTasks(i) : status[u] = "PENDING"}]
<1>0. TypeOK /\ IdsReserved /\ KnownTasksExist /\ RequestersKnown
      /\ RepliesAwaited /\ RowConsistent /\ SecretsInTime /\ SecretsNotShared
  BY DEF IInv
<1>1. /\ t \in Task /\ created' = t /\ conn[c] = Free
      /\ itemOf' = [itemOf EXCEPT ![t] = i]
      /\ conn' = [conn EXCEPT ![c] = request]
      /\ UNCHANGED <<status, owner, secret, issued, retry, stale, itemStatus,
                     itemTask, document, staged, canonical, announced, wk>>
  BY <1>0, BoundsAssumption DEF EnqueueBegin, TypeOK, items, files
<1>2. /\ request.op = "enqueue" /\ request.task = t /\ request.phase = "ready"
      /\ request.by = Requester /\ request.awaited = FALSE
  BY DEF Slot
<1>11. request \in Request
  <2>1. {u \in ActiveTasks(i) : status[u] = "PENDING"} \subseteq Task
    BY DEF ActiveTasks
  <2>2. t \in 0..MaxTasks /\ Requester \in Systems
    BY <1>1, BoundsAssumption DEF Systems
  <2>3. slot \in Request
    <3>1. 0 \in Nat /\ 0 \in 0..MaxRetries
      BY BoundsAssumption
    <3> QED
      BY <2>2, <3>1, SlotType
  <2> HIDE DEF slot
  <2> QED
    BY <1>0, <2>1, <2>3 DEF Request, TypeOK
<1>12. t \in 0..MaxTasks
  BY <1>1, BoundsAssumption
<1> HIDE DEF request, slot, t
<1>3. \A d \in Conn : conn'[d] = IF d = c THEN request ELSE conn[d]
  BY <1>0, <1>1 DEF TypeOK
<1>4. TypeOK'
  BY <1>0, <1>1, <1>11, <1>12 DEF TypeOK
<1>5. status[t] = "ABSENT" /\ \A d \in Conn : conn[d].op = "enqueue" => conn[d].task # t
  BY <1>0, <1>1 DEF IdsReserved, TypeOK, t
<1>6. IdsReserved'
  <2>1. \A u \in Task : u > created' => status'[u] = "ABSENT"
    BY <1>0, <1>1 DEF IdsReserved, TypeOK, t
  <2>2. \A d \in Conn : conn'[d].op = "enqueue" =>
          /\ conn'[d].task \in Task /\ conn'[d].task <= created'
          /\ status'[conn'[d].task] = "ABSENT"
    BY <1>0, <1>1, <1>2, <1>3, <1>5 DEF IdsReserved, TypeOK, t
  <2>3. \A d, e \in Conn :
          conn'[d].op = "enqueue" /\ conn'[e].op = "enqueue"
            /\ conn'[d].task = conn'[e].task => d = e
    BY <1>0, <1>2, <1>3, <1>5 DEF IdsReserved
  <2> QED
    BY <2>1, <2>2, <2>3 DEF IdsReserved
<1>7. KnownTasksExist'
  BY <1>0, <1>1, <1>2, <1>3 DEF KnownTasksExist
<1>8. RequestersKnown'
  BY <1>0, <1>2, <1>3 DEF RequestersKnown
<1>9. RepliesAwaited'
  BY <1>0, <1>1, <1>2, <1>3 DEF RepliesAwaited
<1>10. RowConsistent' /\ SecretsInTime' /\ SecretsNotShared'
  BY <1>0, <1>1 DEF RowConsistent, SecretsInTime, SecretsNotShared
<1> QED
  BY <1>4, <1>6, <1>7, <1>8, <1>9, <1>10 DEF IInv

LEMMA EnqueueCommitInv ==
  ASSUME IInv, NEW c \in Conn, EnqueueCommit(c)
  PROVE  IInv'
<1> DEFINE t == conn[c].task
           i == itemOf[t]
<1>0. TypeOK /\ IdsReserved /\ KnownTasksExist /\ RequestersKnown
      /\ RepliesAwaited /\ RowConsistent /\ SecretsInTime /\ SecretsNotShared
  BY DEF IInv
<1>1. /\ t \in Task /\ t \in 0..MaxTasks /\ t <= created /\ status[t] = "ABSENT"
      /\ \A d \in Conn : conn[d].op = "enqueue" /\ d # c => conn[d].task # t
  BY <1>0, BoundsAssumption DEF EnqueueCommit, IdsReserved
<1>2. /\ secret' = [secret EXCEPT ![t] = 1]
      /\ issued' = [issued EXCEPT ![t] = 1]
      /\ itemStatus' = [itemStatus EXCEPT ![i] = IF conn[c].found = "QUEUED" THEN @ ELSE "QUEUED"]
      /\ itemTask' = [itemTask EXCEPT ![i] = t]
      /\ conn' = [conn EXCEPT ![c] = Free]
      /\ UNCHANGED <<created, itemOf, owner, retry, stale, document, staged,
                     canonical, announced, wk>>
  BY DEF EnqueueCommit, files
<1>3. /\ status' \in [Task -> Active \cup Terminal \cup {"ABSENT"}]
      /\ status'[t] = "PENDING"
      /\ \A u \in Task : u # t =>
           status'[u] = status[u] \/ (status[u] = "PENDING" /\ status'[u] = "SUPERSEDED")
  BY <1>0, <1>1 DEF EnqueueCommit, TypeOK, Active, Terminal
<1> HIDE DEF t, i
<1>4. \A d \in Conn : conn'[d] = IF d = c THEN Free ELSE conn[d]
  BY <1>0, <1>2 DEF TypeOK
<1>5. /\ secret'[t] = 1 /\ issued'[t] = 1
      /\ \A u \in Task : u # t => secret'[u] = secret[u] /\ issued'[u] = issued[u]
  BY <1>0, <1>1, <1>2 DEF TypeOK
<1>6. TypeOK'
  BY <1>0, <1>1, <1>2, <1>3, FreeType DEF TypeOK, ItemStatus, ActiveItem
<1>15. t = conn[c].task
  BY DEF t
<1>7. IdsReserved'
  <2>1. \A u \in Task : u > created' => status'[u] = "ABSENT"
    <3>1. created \in Nat /\ created' = created
      BY <1>0, <1>2, BoundsAssumption DEF TypeOK
    <3>2. \A u \in Task : u > created => u # t
      BY <1>1, <3>1
    <3> QED
      BY <1>0, <1>3, <3>1, <3>2 DEF IdsReserved
  <2>2. \A d \in Conn : conn'[d].op = "enqueue" =>
          /\ conn'[d].task \in Task /\ conn'[d].task <= created'
          /\ status'[conn'[d].task] = "ABSENT"
    BY <1>0, <1>1, <1>2, <1>3, <1>4, FreeFields DEF IdsReserved
  <2>3. \A d, e \in Conn :
          conn'[d].op = "enqueue" /\ conn'[e].op = "enqueue"
            /\ conn'[d].task = conn'[e].task => d = e
    BY <1>0, <1>4, FreeFields DEF IdsReserved
  <2> QED
    BY <2>1, <2>2, <2>3 DEF IdsReserved
<1>16. /\ \A w \in Worker : wk[w].task \in 0..MaxTasks
       /\ \A j \in Item : itemTask[j] \in 0..MaxTasks
  BY <1>0 DEF TypeOK
<1>17. \A u \in 0..MaxTasks : u # 0 => u \in Task
  BY BoundsAssumption
<1>18. \A u \in Task : status[u] # "ABSENT" => status'[u] # "ABSENT"
  BY <1>3
<1>8. KnownTasksExist'
  <2>1. \A w \in Worker : /\ wk[w].phase # "idle" => wk[w].task # 0
                          /\ wk[w].task # 0 => status'[wk[w].task] # "ABSENT"
    BY <1>0, <1>16, <1>17, <1>18 DEF KnownTasksExist
  <2>2. \A j \in Item : itemTask'[j] # 0 => status'[itemTask'[j]] # "ABSENT"
    <3>1. \A j \in Item : itemTask'[j] \in {t, itemTask[j]}
      BY <1>0, <1>2 DEF TypeOK
    <3> QED
      BY <1>0, <1>1, <1>3, <1>16, <1>17, <1>18, <3>1 DEF KnownTasksExist
  <2>3. \A d \in Conn : conn'[d].phase # "free" /\ conn'[d].op # "enqueue" =>
          conn'[d].task \in Task /\ status'[conn'[d].task] # "ABSENT"
    BY <1>0, <1>3, <1>4, FreeFields DEF KnownTasksExist
  <2> QED
    BY <1>2, <2>1, <2>2, <2>3 DEF KnownTasksExist
<1>9. RequestersKnown'
  BY <1>0, <1>4, FreeFields DEF RequestersKnown
<1>10. RepliesAwaited'
  BY <1>0, <1>2, <1>4, FreeFields DEF RepliesAwaited
<1>11. RowConsistent'
  <2>1. owner[t] = Null
    BY <1>0, <1>1 DEF RowConsistent
  <2> QED
    BY <1>0, <1>2, <1>3, <1>5, <2>1 DEF RowConsistent, TypeOK, Active, Terminal
<1>12. \A w \in Worker : wk[w].task # 0 => wk[w].task \in Task /\ wk[w].task # t
  BY <1>0, <1>1, <1>16, <1>17 DEF KnownTasksExist
<1>13. SecretsInTime'
  BY <1>0, <1>2, <1>3, <1>5, <1>12 DEF SecretsInTime
<1>14. SecretsNotShared'
  BY <1>0, <1>2 DEF SecretsNotShared
<1> QED
  BY <1>6, <1>7, <1>8, <1>9, <1>10, <1>11, <1>13, <1>14 DEF IInv

LEMMA ClaimInv ==
  ASSUME IInv, NEW w \in Worker, NEW t \in Task, Claim(w, t)
  PROVE  IInv'
<1>0. TypeOK /\ IdsReserved /\ KnownTasksExist /\ RequestersKnown
      /\ RepliesAwaited /\ RowConsistent /\ SecretsInTime /\ SecretsNotShared
  BY DEF IInv
<1> DEFINE poll == [phase |-> "working", task |-> t, secret |-> secret[t]]
<1>1. /\ wk[w].phase = "idle" /\ status[t] = "PENDING"
      /\ status' = [status EXCEPT ![t] = "CLAIMED"]
      /\ owner' = [owner EXCEPT ![t] = w]
      /\ stale' = [stale EXCEPT ![t] = FALSE]
      /\ itemStatus' = [itemStatus EXCEPT ![itemOf[t]] = "PROCESSING"]
      /\ wk' = [wk EXCEPT ![w] = poll]
      /\ UNCHANGED <<created, itemOf, secret, issued, retry, itemTask, document,
                     staged, canonical, announced, conn>>
  BY DEF Claim, Claimable, files
<1>2. secret[t] = issued[t] /\ issued[t] \in Nat
  BY <1>0, <1>1 DEF RowConsistent, TypeOK, Active
<1>3. poll \in Poller /\ poll.task = t /\ poll.secret = issued[t] /\ poll.phase = "working"
  BY <1>2 DEF Poller
<1> HIDE DEF poll
<1>4. \A v \in Worker : wk'[v] = IF v = w THEN poll ELSE wk[v]
  BY <1>0, <1>1 DEF TypeOK
<1>5. TypeOK'
  BY <1>0, <1>1, <1>3 DEF TypeOK, Poller, Active, ItemStatus, ActiveItem
<1>6. \A u \in Task : status'[u] = IF u = t THEN "CLAIMED" ELSE status[u]
  BY <1>0, <1>1 DEF TypeOK
<1>7. IdsReserved'
  BY <1>0, <1>1, <1>6 DEF IdsReserved
<1>8. KnownTasksExist'
  <2>1. /\ \A v \in Worker : wk[v].task \in 0..MaxTasks
        /\ \A j \in Item : itemTask[j] \in 0..MaxTasks
    BY <1>0 DEF TypeOK
  <2> QED
    BY <1>0, <1>1, <1>3, <1>4, <1>6, <2>1, BoundsAssumption DEF KnownTasksExist
<1>9. RequestersKnown'
  BY <1>0, <1>1 DEF RequestersKnown
<1>10. RepliesAwaited'
  BY <1>0, <1>1, <1>4 DEF RepliesAwaited
<1>11. RowConsistent'
  BY <1>0, <1>1, <1>2, <1>6 DEF RowConsistent, TypeOK, Active
<1>12. SecretsInTime'
  <2>1. \A v \in Worker : wk[v].task \in 0..MaxTasks
    BY <1>0 DEF TypeOK
  <2> QED
    BY <1>0, <1>1, <1>2, <1>3, <1>4, <1>6, <2>1, BoundsAssumption DEF SecretsInTime
<1>13. SecretsNotShared'
  <2>1. \A v \in Worker : wk[v].task = t => wk[v].secret < issued[t] /\ wk[v].secret \in Nat
    <3>1. \A v \in Worker : wk[v].secret \in Nat BY <1>0 DEF TypeOK
    <3>2. t # 0 BY BoundsAssumption
    <3> QED BY <1>0, <1>1, <3>1, <3>2 DEF SecretsInTime
  <2> QED
    BY <1>0, <1>2, <1>3, <1>4, <2>1 DEF SecretsNotShared
<1> QED
  BY <1>5, <1>7, <1>8, <1>9, <1>10, <1>11, <1>12, <1>13 DEF IInv

(***************************************************************************)
(* The steps of the workers and of requests that change no row.            *)
(***************************************************************************)
LEMMA WorkerRequestType ==
  ASSUME IInv, NEW w \in Worker, wk[w].task # 0,
         NEW op \in {"complete", "fail", "fatal", "abort"}, NEW awaits \in BOOLEAN
  PROVE  /\ WorkerRequest(w, op, awaits) \in Request
         /\ wk[w].task \in Task /\ status[wk[w].task] # "ABSENT"
<1>1. wk[w].task \in 0..MaxTasks /\ wk[w].secret \in Nat
  BY DEF IInv, TypeOK
<1>2. status[wk[w].task] # "ABSENT"
  BY DEF IInv, KnownTasksExist
<1>3. WorkerRequest(w, op, awaits) \in Request
  BY <1>1, BoundsAssumption, SlotType DEF WorkerRequest
<1> QED
  BY <1>1, <1>2, <1>3, BoundsAssumption

LEMMA SendInv ==
  ASSUME IInv, NEW w \in Worker, NEW c \in Conn,
         NEW op \in {"complete", "fail", "fatal", "abort"},
         NEW from \in {"working", "recovering"}, Send(w, c, op, from)
  PROVE  IInv'
<1> DEFINE request == WorkerRequest(w, op, TRUE)
<1>0. TypeOK /\ IdsReserved /\ KnownTasksExist /\ RequestersKnown /\ RepliesAwaited
  BY DEF IInv
<1>1. /\ wk[w].phase = from /\ conn[c] = Free
      /\ conn' = [conn EXCEPT ![c] = request]
      /\ wk' = [wk EXCEPT ![w] = [wk[w] EXCEPT !.phase = "waiting"]]
      /\ UNCHANGED <<rows, items, files, announced>>
  BY DEF Send
<1>2. wk[w].task # 0
  BY <1>0, <1>1 DEF KnownTasksExist
<1>3. /\ request.op = op /\ request.phase = "sent" /\ request.by = w
      /\ request.task = wk[w].task /\ request.awaited = TRUE
  BY DEF WorkerRequest, Slot
<1>15. request \in Request
  BY <1>2, WorkerRequestType
<1>14. wk[w].task \in Task /\ status[wk[w].task] # "ABSENT"
  BY <1>2, WorkerRequestType
<1> HIDE DEF request
<1>4. \A d \in Conn : conn'[d] = IF d = c THEN request ELSE conn[d]
  BY <1>0, <1>1 DEF TypeOK
<1>5. \A v \in Worker :
        /\ wk'[v].task = wk[v].task /\ wk'[v].secret = wk[v].secret
        /\ wk'[v].phase = IF v = w THEN "waiting" ELSE wk[v].phase
  BY <1>0, <1>1 DEF TypeOK
<1>6. wk' \in [Worker -> Poller]
  BY <1>0, <1>1 DEF TypeOK, Poller
<1>7. TypeOK'
  BY <1>0, <1>1, <1>15, <1>6 DEF TypeOK, Poller, rows, items, files
<1>8. RequestersKnown'
  BY <1>0, <1>3, <1>4 DEF RequestersKnown
<1>9. RepliesAwaited'
  BY <1>0, <1>1, <1>3, <1>4, <1>5 DEF RepliesAwaited
<1>10. UNCHANGED <<created, status, owner, secret, issued, itemTask>>
  BY <1>1 DEF rows, items
<1>11. \A v \in Worker : wk'[v].phase # "idle" => wk'[v].task # 0
  BY <1>0, <1>2, <1>5 DEF KnownTasksExist
<1>12. \A d \in Conn :
        /\ conn'[d].op = "enqueue" =>
             conn[d].op = "enqueue" /\ conn'[d].task = conn[d].task
        /\ conn'[d].phase # "free" /\ conn'[d].op # "enqueue" =>
             conn'[d].task \in Task /\ status[conn'[d].task] # "ABSENT"
  BY <1>0, <1>3, <1>4, <1>14 DEF KnownTasksExist
<1>13. \A i \in Item : itemTask'[i] \in {itemTask[i], 0}
  BY <1>10
<1> QED
  BY <1>5, <1>7, <1>8, <1>9, <1>10, <1>11, <1>12, <1>13, QuietStep

LEMMA OpenInv ==
  ASSUME IInv, NEW c \in Conn, NEW t \in Task, status[t] # "ABSENT",
         NEW op \in {"sweep", "abort"}, NEW by \in {Admin, Cleanup},
         Open(c, op, by, t)
  PROVE  IInv'
<1> DEFINE request == Slot(op, "open", by, t, secret[t], retry[t], FALSE)
<1>0. TypeOK /\ KnownTasksExist /\ RequestersKnown /\ RepliesAwaited
  BY DEF IInv
<1>1. /\ conn[c] = Free /\ conn' = [conn EXCEPT ![c] = request]
      /\ UNCHANGED <<rows, items, files, announced, wk>>
  BY DEF Open
<1>2. request \in Request
  <2>1. secret[t] \in Nat /\ retry[t] \in 0..MaxRetries
    BY <1>0 DEF TypeOK
  <2>2. t \in 0..MaxTasks /\ by \in Worker \cup Systems \cup {Null}
    BY BoundsAssumption DEF Systems
  <2> QED
    BY <2>1, <2>2, SlotType
<1>3. /\ request.op = op /\ request.by = by /\ request.task = t
      /\ request.phase = "open" /\ request.awaited = FALSE
  BY DEF Slot
<1> HIDE DEF request
<1>4. \A d \in Conn : conn'[d] = IF d = c THEN request ELSE conn[d]
  BY <1>0, <1>1 DEF TypeOK
<1>5. TypeOK'
  BY <1>0, <1>1, <1>2 DEF TypeOK, rows, items, files
<1>6. RequestersKnown'
  BY <1>0, <1>3, <1>4 DEF RequestersKnown
<1>7. RepliesAwaited'
  BY <1>0, <1>1, <1>3, <1>4 DEF RepliesAwaited
<1>8. UNCHANGED <<created, status, owner, secret, issued, itemTask>>
  BY <1>1 DEF rows, items
<1>9. \A d \in Conn :
        /\ conn'[d].op = "enqueue" =>
             conn[d].op = "enqueue" /\ conn'[d].task = conn[d].task
        /\ conn'[d].phase # "free" /\ conn'[d].op # "enqueue" =>
             conn'[d].task \in Task /\ status[conn'[d].task] # "ABSENT"
  BY <1>0, <1>3, <1>4 DEF KnownTasksExist
<1>10. \A w \in Worker : wk'[w] = wk[w]
  BY <1>1
<1>11. \A i \in Item : itemTask'[i] \in {itemTask[i], 0}
  BY <1>8
<1>12. \A w \in Worker : wk'[w].phase # "idle" => wk'[w].task # 0
  BY <1>0, <1>10 DEF KnownTasksExist
<1> QED
  BY <1>5, <1>6, <1>7, <1>8, <1>9, <1>10, <1>11, <1>12, QuietStep

LEMMA UnawaitedFields ==
  ASSUME conn \in [Conn -> Request], NEW w \in Worker
  PROVE  /\ Unawaited(w) \in [Conn -> Request]
         /\ \A d \in Conn :
              /\ Unawaited(w)[d].op = conn[d].op
              /\ Unawaited(w)[d].phase = conn[d].phase
              /\ Unawaited(w)[d].by = conn[d].by
              /\ Unawaited(w)[d].task = conn[d].task
              /\ conn[d].by # w => Unawaited(w)[d] = conn[d]
              /\ conn[d].by = w => Unawaited(w)[d].awaited = FALSE
<1> SUFFICES ASSUME NEW d \in Conn
             PROVE  /\ Unawaited(w)[d] \in Request
                    /\ Unawaited(w)[d].op = conn[d].op
                    /\ Unawaited(w)[d].phase = conn[d].phase
                    /\ Unawaited(w)[d].by = conn[d].by
                    /\ Unawaited(w)[d].task = conn[d].task
                    /\ conn[d].by # w => Unawaited(w)[d] = conn[d]
                    /\ conn[d].by = w => Unawaited(w)[d].awaited = FALSE
  BY DEF Unawaited
<1>1. conn[d] \in Request
  OBVIOUS
<1>2. [conn[d] EXCEPT !.awaited = FALSE] \in Request
  BY <1>1 DEF Request
<1> QED
  BY <1>1, <1>2 DEF Unawaited, Request

(* What the steps have in common that give up waiting for a reply. *)
LEMMA GiveUpInv ==
  ASSUME IInv, NEW w \in Worker, TypeOK', conn' = Unawaited(w),
         UNCHANGED <<rows, items, files, announced>>,
         \A v \in Worker : v # w => wk'[v] = wk[v],
         wk'[w].task # 0 => wk'[w].task = wk[w].task /\ wk'[w].secret = wk[w].secret,
         wk'[w].phase # "idle" => wk'[w].task # 0
  PROVE  IInv'
<1>0. TypeOK /\ KnownTasksExist /\ RequestersKnown /\ RepliesAwaited
  BY DEF IInv
<1>1. \A d \in Conn :
        /\ conn'[d].op = conn[d].op /\ conn'[d].phase = conn[d].phase
        /\ conn'[d].by = conn[d].by /\ conn'[d].task = conn[d].task
        /\ conn[d].by # w => conn'[d] = conn[d]
        /\ conn[d].by = w => conn'[d].awaited = FALSE
  BY <1>0, UnawaitedFields DEF TypeOK
<1>2. RequestersKnown'
  <2>1. \A d \in Conn : conn[d].phase = "free" => conn'[d] = Free
    BY <1>0, <1>1, FreeFields, NamesAssumption DEF RequestersKnown
  <2> QED
    BY <1>0, <1>1, <2>1 DEF RequestersKnown
<1>3. RepliesAwaited'
  BY <1>0, <1>1 DEF RepliesAwaited
<1>4. UNCHANGED <<created, status, owner, secret, issued, itemTask>>
  BY DEF rows, items
<1>5. \A d \in Conn :
        /\ conn'[d].op = "enqueue" =>
             conn[d].op = "enqueue" /\ conn'[d].task = conn[d].task
        /\ conn'[d].phase # "free" /\ conn'[d].op # "enqueue" =>
             conn'[d].task \in Task /\ status[conn'[d].task] # "ABSENT"
  BY <1>0, <1>1 DEF KnownTasksExist
<1>6. \A i \in Item : itemTask'[i] \in {itemTask[i], 0}
  BY <1>4
<1>7. \A v \in Worker : wk'[v].phase # "idle" => wk'[v].task # 0
  BY <1>0 DEF KnownTasksExist
<1> QED
  BY <1>2, <1>3, <1>4, <1>5, <1>6, <1>7, QuietStep

LEMMA CrashInv ==
  ASSUME IInv, NEW w \in Worker, Crash(w)
  PROVE  IInv'
<1>1. TypeOK
  BY DEF IInv
<1>2. /\ wk' = [wk EXCEPT ![w] = Resting] /\ conn' = Unawaited(w)
      /\ UNCHANGED <<rows, items, files, announced>>
  BY DEF Crash
<1>3. TypeOK'
  BY <1>1, <1>2, RestingType, UnawaitedFields
  DEF TypeOK, Poller, rows, items, files
<1>4. wk'[w] = Resting /\ \A v \in Worker : v # w => wk'[v] = wk[v]
  BY <1>1, <1>2 DEF TypeOK
<1> QED
  BY <1>2, <1>3, <1>4, GiveUpInv DEF Resting

LEMMA TimeoutInv ==
  ASSUME IInv, NEW w \in Worker, Timeout(w)
  PROVE  IInv'
<1>1. TypeOK /\ RepliesAwaited /\ KnownTasksExist
  BY DEF IInv
<1>2. /\ \/ wk' = [wk EXCEPT ![w] = Resting]
         \/ wk' = [wk EXCEPT ![w] = [wk[w] EXCEPT !.phase = "recovering"]]
      /\ conn' = Unawaited(w) /\ wk[w].phase = "waiting"
      /\ UNCHANGED <<rows, items, files, announced>>
  BY <1>1 DEF Timeout, RepliesAwaited
<1>3. wk' \in [Worker -> Poller]
  <2>1. [wk[w] EXCEPT !.phase = "recovering"] \in Poller
    BY <1>1 DEF TypeOK, Poller
  <2>2. wk \in [Worker -> Poller]
    BY <1>1 DEF TypeOK, Poller
  <2> QED
    BY <1>2, <2>1, <2>2, RestingType
<1>4. TypeOK'
  BY <1>1, <1>2, <1>3, UnawaitedFields DEF TypeOK, Poller, rows, items, files
<1>5. \A v \in Worker : v # w => wk'[v] = wk[v]
  BY <1>1, <1>2 DEF TypeOK
<1>6. \/ wk'[w] = Resting
      \/ wk'[w].task = wk[w].task /\ wk'[w].secret = wk[w].secret
  BY <1>1, <1>2 DEF TypeOK
<1>7. wk[w].task # 0
  BY <1>1, <1>2 DEF KnownTasksExist
<1> QED
  BY <1>2, <1>4, <1>5, <1>6, <1>7, GiveUpInv DEF Resting

LEMMA SignalInv ==
  ASSUME IInv, NEW w \in Worker, NEW c \in Conn, Signal(w, c)
  PROVE  IInv'
<1> DEFINE request == WorkerRequest(w, "fail", FALSE)
<1>0. TypeOK /\ KnownTasksExist /\ RequestersKnown /\ RepliesAwaited
  BY DEF IInv
<1>1. /\ wk[w].phase # "idle" /\ conn[c] = Free
      /\ wk' = [wk EXCEPT ![w] = Resting]
      /\ conn' = [Unawaited(w) EXCEPT ![c] = request]
      /\ UNCHANGED <<rows, items, files, announced>>
  BY DEF Signal
<1>2. wk[w].task # 0
  BY <1>0, <1>1 DEF KnownTasksExist
<1>3. /\ request.op = "fail" /\ request.phase = "sent" /\ request.by = w
      /\ request.task = wk[w].task /\ request.awaited = FALSE
  BY DEF WorkerRequest, Slot
<1>4. request \in Request
  BY <1>2, WorkerRequestType
<1>5. wk[w].task \in Task /\ status[wk[w].task] # "ABSENT"
  BY <1>2, WorkerRequestType
<1> HIDE DEF request
<1>6. /\ conn' \in [Conn -> Request] /\ conn'[c] = request
      /\ \A d \in Conn : d # c => conn'[d] = Unawaited(w)[d]
  BY <1>0, <1>1, <1>4, UnawaitedFields DEF TypeOK
<1>7. \A d \in Conn : d # c =>
        /\ conn'[d].op = conn[d].op /\ conn'[d].phase = conn[d].phase
        /\ conn'[d].by = conn[d].by /\ conn'[d].task = conn[d].task
        /\ conn[d].by # w => conn'[d] = conn[d]
        /\ conn[d].by = w => conn'[d].awaited = FALSE
  <2>1. conn \in [Conn -> Request]
    BY <1>0 DEF TypeOK
  <2>2. \A d \in Conn :
          /\ Unawaited(w)[d].op = conn[d].op
          /\ Unawaited(w)[d].phase = conn[d].phase
          /\ Unawaited(w)[d].by = conn[d].by
          /\ Unawaited(w)[d].task = conn[d].task
          /\ conn[d].by # w => Unawaited(w)[d] = conn[d]
          /\ conn[d].by = w => Unawaited(w)[d].awaited = FALSE
    BY <2>1, UnawaitedFields
  <2> QED
    BY <1>6, <2>2
<1>8. TypeOK'
  BY <1>0, <1>1, <1>6, RestingType DEF TypeOK, Poller, rows, items, files
<1>9. RequestersKnown'
  <2>1. \A d \in Conn : d # c /\ conn[d].phase = "free" => conn'[d] = Free
    BY <1>0, <1>7, FreeFields, NamesAssumption DEF RequestersKnown
  <2> QED
    BY <1>0, <1>3, <1>6, <1>7, <2>1 DEF RequestersKnown
<1>10. wk'[w] = Resting /\ \A v \in Worker : v # w => wk'[v] = wk[v]
  BY <1>0, <1>1 DEF TypeOK
<1>11. RepliesAwaited'
  BY <1>0, <1>3, <1>6, <1>7, <1>10 DEF RepliesAwaited
<1>12. UNCHANGED <<created, status, owner, secret, issued, itemTask>>
  BY <1>1 DEF rows, items
<1>13. \A d \in Conn :
        /\ conn'[d].op = "enqueue" =>
             conn[d].op = "enqueue" /\ conn'[d].task = conn[d].task
        /\ conn'[d].phase # "free" /\ conn'[d].op # "enqueue" =>
             conn'[d].task \in Task /\ status[conn'[d].task] # "ABSENT"
  BY <1>0, <1>3, <1>5, <1>6, <1>7 DEF KnownTasksExist
<1>14. \A v \in Worker :
         /\ wk'[v].phase # "idle" => wk'[v].task # 0
         /\ wk'[v].task # 0 => wk'[v].task = wk[v].task /\ wk'[v].secret = wk[v].secret
  BY <1>0, <1>10 DEF KnownTasksExist, Resting
<1>15. \A i \in Item : itemTask'[i] \in {itemTask[i], 0}
  BY <1>12
<1> QED
  BY <1>8, <1>9, <1>11, <1>12, <1>13, <1>14, <1>15, QuietStep

(* Steps that only move one request on in its slot. *)
LEMMA MoveInv ==
  ASSUME IInv, NEW c \in Conn, TypeOK',
         conn[c].phase \in {"sent", "open"}, conn[c].by \in Worker \cup {Admin, Cleanup},
         \A d \in Conn : d # c => conn'[d] = conn[d],
         /\ conn'[c].task = conn[c].task /\ conn'[c].by = conn[c].by
         /\ conn'[c].awaited = conn[c].awaited
         /\ conn'[c].op \notin {"enqueue", "reset"}
         /\ conn'[c].phase \in {"open", "ready"},
         UNCHANGED <<rows, items, announced, wk>>
  PROVE  IInv'
<1>0. KnownTasksExist /\ RequestersKnown /\ RepliesAwaited
  BY DEF IInv
<1>1. RequestersKnown'
  BY <1>0 DEF RequestersKnown
<1>2. RepliesAwaited'
  BY <1>0 DEF RepliesAwaited
<1>3. UNCHANGED <<created, status, owner, secret, issued, itemTask>>
  BY DEF rows, items
<1>4. conn[c].op # "enqueue" /\ conn[c].phase # "free"
  BY <1>0 DEF RequestersKnown
<1>5. \A d \in Conn :
        /\ conn'[d].op = "enqueue" =>
             conn[d].op = "enqueue" /\ conn'[d].task = conn[d].task
        /\ conn'[d].phase # "free" /\ conn'[d].op # "enqueue" =>
             conn'[d].task \in Task /\ status[conn'[d].task] # "ABSENT"
  BY <1>0, <1>4 DEF KnownTasksExist
<1>6. \A i \in Item : itemTask'[i] \in {itemTask[i], 0}
  BY <1>3
<1>7. \A v \in Worker : wk'[v].phase # "idle" => wk'[v].task # 0
  BY <1>0 DEF KnownTasksExist
<1> QED
  BY <1>1, <1>2, <1>3, <1>5, <1>6, <1>7, QuietStep

LEMMA BeginInv ==
  ASSUME IInv, NEW c \in Conn, Begin(c)
  PROVE  IInv'
<1> DEFINE op == IF conn[c].op = "complete" /\ NewerActive(conn[c])
                 THEN "supersede" ELSE conn[c].op
           request == [conn[c] EXCEPT !.phase = "open", !.op = op,
                                      !.retry = retry[conn[c].task]]
<1>0. TypeOK /\ KnownTasksExist /\ RequestersKnown
  BY DEF IInv
<1>1. /\ conn[c].phase = "sent"
      /\ conn' = [conn EXCEPT ![c] = request]
      /\ UNCHANGED <<rows, items, files, announced, wk>>
  BY DEF Begin
<1>2. /\ conn[c] \in Request /\ conn[c].by \in Worker
      /\ conn[c].op \notin {"enqueue", "reset"} /\ conn[c].task \in Task
  BY <1>0, <1>1 DEF TypeOK, RequestersKnown, KnownTasksExist
<1>3. /\ op \in {"none", "enqueue", "reset", "sweep", "complete", "supersede",
                 "fail", "fatal", "abort"}
      /\ op \notin {"enqueue", "reset"}
      /\ retry[conn[c].task] \in 0..MaxRetries
  BY <1>0, <1>2 DEF Request, TypeOK
<1> HIDE DEF op
<1>4. /\ request \in Request /\ request.op = op /\ request.phase = "open"
      /\ request.task = conn[c].task /\ request.by = conn[c].by
      /\ request.awaited = conn[c].awaited
  BY <1>2, <1>3 DEF Request
<1> HIDE DEF request
<1>5. TypeOK'
  BY <1>0, <1>1, <1>4 DEF TypeOK, rows, items, files
<1>6. conn'[c] = request /\ \A d \in Conn : d # c => conn'[d] = conn[d]
  BY <1>0, <1>1 DEF TypeOK
<1> QED
  BY <1>1, <1>2, <1>3, <1>4, <1>5, <1>6, MoveInv

LEMMA WriteInv ==
  ASSUME IInv, NEW c \in Conn, Write(c)
  PROVE  IInv'
<1> DEFINE t == conn[c].task
           promotes == conn[c].op = "complete" /\ t \in staged
           access == MayUpdateItem(conn[c])
           request == [conn[c] EXCEPT !.phase = "ready", !.promoted = promotes,
                                      !.access = access]
<1>0. TypeOK /\ KnownTasksExist /\ RequestersKnown
  BY DEF IInv
<1>1. /\ conn[c].phase = "open" /\ conn' = [conn EXCEPT ![c] = request]
      /\ staged' = staged \ {t}
      /\ canonical' = canonical \/ canonical' = [canonical EXCEPT ![itemOf[t]] = t]
      /\ UNCHANGED <<rows, items, announced, wk>>
  BY DEF Write
<1>2. /\ conn[c] \in Request /\ conn[c].by \in Worker \cup {Admin, Cleanup}
      /\ conn[c].op \notin {"enqueue", "reset"} /\ t \in Task
  BY <1>0, <1>1 DEF TypeOK, RequestersKnown, KnownTasksExist
<1>3. t \in 0..MaxTasks
  BY <1>2, BoundsAssumption
<1>4. promotes \in BOOLEAN /\ access \in BOOLEAN
  BY DEF MayUpdateItem
<1> HIDE DEF promotes, access
<1>5. request \in Request
  BY <1>2, <1>4 DEF Request
<1>6. /\ request.op = conn[c].op /\ request.phase = "ready"
      /\ request.task = conn[c].task /\ request.by = conn[c].by
      /\ request.awaited = conn[c].awaited
  BY <1>2 DEF Request
<1> HIDE DEF request, t
<1>7. TypeOK'
  <2>1. conn' \in [Conn -> Request]
    BY <1>0, <1>1, <1>5 DEF TypeOK
  <2>2. canonical' \in [Item -> 0..MaxTasks]
    BY <1>0, <1>1, <1>3 DEF TypeOK
  <2>3. staged' \subseteq Task
    BY <1>0, <1>1 DEF TypeOK
  <2> QED
    BY <1>0, <1>1, <2>1, <2>2, <2>3 DEF TypeOK, rows, items
<1>8. conn'[c] = request /\ \A d \in Conn : d # c => conn'[d] = conn[d]
  BY <1>0, <1>1 DEF TypeOK
<1> QED
  BY <1>1, <1>2, <1>6, <1>7, <1>8, MoveInv

LEMMA UserAbortBeginInv ==
  ASSUME IInv, NEW c \in Conn, NEW i \in Item, UserAbortBegin(c, i)
  PROVE  IInv'
<1> DEFINE request == Slot("reset", "ready", User, itemTask[i], 0, 0, FALSE)
<1>0. TypeOK /\ KnownTasksExist /\ RequestersKnown /\ RepliesAwaited
  BY DEF IInv
<1>1. /\ conn[c] = Free /\ conn' = [conn EXCEPT ![c] = request]
      /\ itemTask[i] # 0
      /\ UNCHANGED <<rows, items, files, announced, wk>>
  BY DEF UserAbortBegin
<1>2. itemTask[i] \in 0..MaxTasks /\ itemTask[i] \in Task
      /\ status[itemTask[i]] # "ABSENT"
  <2>1. itemTask[i] \in 0..MaxTasks
    BY <1>0 DEF TypeOK
  <2>2. status[itemTask[i]] # "ABSENT"
    BY <1>0, <1>1 DEF KnownTasksExist
  <2> QED
    BY <1>1, <2>1, <2>2, BoundsAssumption
<1>3. request \in Request
  <2>1. 0 \in Nat /\ 0 \in 0..MaxRetries /\ User \in Worker \cup Systems \cup {Null}
    BY BoundsAssumption DEF Systems
  <2> QED
    BY <1>2, <2>1, SlotType
<1>4. /\ request.op = "reset" /\ request.by = User /\ request.task = itemTask[i]
      /\ request.phase = "ready" /\ request.awaited = FALSE
  BY DEF Slot
<1> HIDE DEF request
<1>5. \A d \in Conn : conn'[d] = IF d = c THEN request ELSE conn[d]
  BY <1>0, <1>1 DEF TypeOK
<1>6. TypeOK'
  BY <1>0, <1>1, <1>3 DEF TypeOK, rows, items, files
<1>7. RequestersKnown'
  BY <1>0, <1>4, <1>5 DEF RequestersKnown
<1>8. RepliesAwaited'
  BY <1>0, <1>1, <1>4, <1>5 DEF RepliesAwaited
<1>9. UNCHANGED <<created, status, owner, secret, issued, itemTask>>
  BY <1>1 DEF rows, items
<1>10. \A d \in Conn :
        /\ conn'[d].op = "enqueue" =>
             conn[d].op = "enqueue" /\ conn'[d].task = conn[d].task
        /\ conn'[d].phase # "free" /\ conn'[d].op # "enqueue" =>
             conn'[d].task \in Task /\ status[conn'[d].task] # "ABSENT"
  BY <1>0, <1>2, <1>4, <1>5 DEF KnownTasksExist
<1>11. \A w \in Worker : wk'[w] = wk[w]
  BY <1>1
<1>12. \A j \in Item : itemTask'[j] \in {itemTask[j], 0}
  BY <1>9
<1>13. \A w \in Worker : wk'[w].phase # "idle" => wk'[w].task # 0
  BY <1>0, <1>11 DEF KnownTasksExist
<1> QED
  BY <1>6, <1>7, <1>8, <1>9, <1>10, <1>11, <1>12, <1>13, QuietStep

LEMMA UserAbortCommitInv ==
  ASSUME IInv, NEW c \in Conn, UserAbortCommit(c)
  PROVE  IInv'
<1> DEFINE i == itemOf[conn[c].task]
<1>0. TypeOK /\ KnownTasksExist /\ RequestersKnown /\ RepliesAwaited
  BY DEF IInv
<1>1. /\ itemStatus' = [itemStatus EXCEPT ![i] = "REVOKED"]
      /\ itemTask' = [itemTask EXCEPT ![i] = 0]
      /\ conn' = [conn EXCEPT ![c] = Free]
      /\ UNCHANGED <<created, itemOf, status, owner, secret, issued, retry, stale,
                     document, staged, canonical, announced, wk>>
  BY DEF UserAbortCommit, rows, files
<1> HIDE DEF i
<1>2. TypeOK'
  <2>1. conn' \in [Conn -> Request]
    BY <1>0, <1>1, FreeType DEF TypeOK
  <2>2. itemTask' \in [Item -> 0..MaxTasks]
    <3>1. itemTask \in [Item -> 0..MaxTasks] /\ 0 \in 0..MaxTasks
      BY <1>0, BoundsAssumption DEF TypeOK
    <3> QED
      BY <1>1, <3>1
  <2> QED
    BY <1>0, <1>1, <2>1, <2>2 DEF TypeOK, ItemStatus
<1>3. \A d \in Conn : conn'[d] = IF d = c THEN Free ELSE conn[d]
  BY <1>0, <1>1 DEF TypeOK
<1>4. RequestersKnown' /\ RepliesAwaited'
  BY <1>0, <1>1, <1>3, FreeFields DEF RequestersKnown, RepliesAwaited
<1>5. \A j \in Item : itemTask'[j] \in {itemTask[j], 0}
  BY <1>0, <1>1 DEF TypeOK
<1>6. \A d \in Conn :
        /\ conn'[d].op = "enqueue" =>
             conn[d].op = "enqueue" /\ conn'[d].task = conn[d].task
        /\ conn'[d].phase # "free" /\ conn'[d].op # "enqueue" =>
             conn'[d].task \in Task /\ status[conn'[d].task] # "ABSENT"
  BY <1>0, <1>3, FreeFields DEF KnownTasksExist
<1>7. \A w \in Worker : wk'[w] = wk[w]
  BY <1>1
<1>8. \A w \in Worker : wk'[w].phase # "idle" => wk'[w].task # 0
  BY <1>0, <1>7 DEF KnownTasksExist
<1> QED
  BY <1>1, <1>2, <1>4, <1>5, <1>6, <1>7, <1>8, QuietStep

(* Uploads, heartbeats and the passing of time. *)
LEMMA AsideInv ==
  ASSUME IInv,
         \/ \E w \in Worker : UploadExtracted(w) \/ Heartbeat(w)
         \/ \E t \in Task : ClockAdvance(t)
  PROVE  IInv'
<1>0. TypeOK /\ KnownTasksExist /\ RequestersKnown /\ RepliesAwaited
  BY DEF IInv
<1>1. UNCHANGED <<created, itemOf, status, owner, secret, issued, retry, itemStatus,
                  itemTask, document, canonical, announced, conn, wk>>
  BY DEF UploadExtracted, Heartbeat, ClockAdvance, rows, items, files
<1>2. stale' \in [Task -> BOOLEAN] /\ staged' \subseteq Task
  BY <1>0 DEF UploadExtracted, Heartbeat, ClockAdvance, TypeOK, Holds, rows, files
<1>3. TypeOK' /\ RequestersKnown' /\ RepliesAwaited'
  BY <1>0, <1>1, <1>2 DEF TypeOK, RequestersKnown, RepliesAwaited
<1>4. \A d \in Conn :
        /\ conn'[d].op = "enqueue" =>
             conn[d].op = "enqueue" /\ conn'[d].task = conn[d].task
        /\ conn'[d].phase # "free" /\ conn'[d].op # "enqueue" =>
             conn'[d].task \in Task /\ status[conn'[d].task] # "ABSENT"
  BY <1>0, <1>1 DEF KnownTasksExist
<1>5. /\ \A w \in Worker : wk'[w].phase # "idle" => wk'[w].task # 0
      /\ \A j \in Item : itemTask'[j] \in {itemTask[j], 0}
  BY <1>0, <1>1 DEF KnownTasksExist
<1> QED
  BY <1>1, <1>3, <1>4, <1>5, QuietStep

(* Replies without a change: refused, rejected and undone requests. *)
LEMMA ReplyInv ==
  ASSUME IInv, NEW c \in Conn, Refuse(c) \/ CommitRefused(c) \/ Abandon(c)
  PROVE  IInv'
<1>1. \E raises \in BOOLEAN : wk' = Answered(c, raises)
  <2>1. /\ (conn[c].op = "complete") \in BOOLEAN
        /\ (conn[c].op \in {"complete", "supersede", "abort"}) \in BOOLEAN
    OBVIOUS
  <2>2. \/ wk' = Answered(c, conn[c].op = "complete")
        \/ wk' = Answered(c, conn[c].op \in {"complete", "supersede", "abort"})
    BY DEF Refuse, CommitRefused, Abandon, Undo
  <2> QED
    BY <2>1, <2>2, Zenon
<1>2. conn' = [conn EXCEPT ![c] = Free] /\ UNCHANGED <<rows, items, files, announced>>
  BY DEF Refuse, CommitRefused, Abandon, Undo
<1> QED
  BY <1>1, <1>2, UndoInv

LEMMA AdminAbortInv ==
  ASSUME IInv, NEW c \in Conn, NEW i \in Item, AdminAbort(c, i)
  PROVE  IInv'
<1>1. itemTask[i] \in Task /\ status[itemTask[i]] # "ABSENT"
  BY BoundsAssumption DEF IInv, TypeOK, KnownTasksExist, AdminAbort
<1>2. Open(c, "abort", Admin, itemTask[i])
  BY DEF AdminAbort
<1> QED
  BY <1>1, <1>2, OpenInv

LEMMA StutterInv == IInv /\ UNCHANGED vars => IInv'
<1> SUFFICES ASSUME IInv, UNCHANGED vars PROVE IInv'
  OBVIOUS
<1>0. TypeOK /\ KnownTasksExist /\ RequestersKnown /\ RepliesAwaited
  BY DEF IInv
<1>1. UNCHANGED <<created, itemOf, status, owner, secret, issued, retry, stale,
                  itemStatus, itemTask, document, staged, canonical, announced,
                  conn, wk>>
  BY DEF vars, rows, items, files
<1>2. TypeOK' /\ RequestersKnown' /\ RepliesAwaited'
  BY <1>0, <1>1 DEF TypeOK, RequestersKnown, RepliesAwaited
<1>3. \A d \in Conn :
        /\ conn'[d].op = "enqueue" =>
             conn[d].op = "enqueue" /\ conn'[d].task = conn[d].task
        /\ conn'[d].phase # "free" /\ conn'[d].op # "enqueue" =>
             conn'[d].task \in Task /\ status[conn'[d].task] # "ABSENT"
  BY <1>0, <1>1 DEF KnownTasksExist
<1>4. /\ \A w \in Worker : wk'[w].phase # "idle" => wk'[w].task # 0
      /\ \A j \in Item : itemTask'[j] \in {itemTask[j], 0}
  BY <1>0, <1>1 DEF KnownTasksExist
<1> QED
  BY <1>1, <1>2, <1>3, <1>4, QuietStep

(***************************************************************************)
(* The invariant, one step per action.                                     *)
(***************************************************************************)
LEMMA StepInv == IInv /\ [Next]_vars => IInv'
<1> SUFFICES ASSUME IInv, [Next]_vars PROVE IInv'
  OBVIOUS
<1>1. ASSUME NEW c \in Conn, NEW i \in Item, EnqueueBegin(c, i) PROVE IInv'
  BY <1>1, EnqueueBeginInv
<1>2. ASSUME NEW c \in Conn, NEW i \in Item, AdminAbort(c, i) PROVE IInv'
  BY <1>2, AdminAbortInv
<1>3. ASSUME NEW c \in Conn, NEW i \in Item, UserAbortBegin(c, i) PROVE IInv'
  BY <1>3, UserAbortBeginInv
<1>4. ASSUME NEW w \in Worker, NEW t \in Task, Claim(w, t) PROVE IInv'
  BY <1>4, ClaimInv
<1>5. ASSUME NEW w \in Worker, UploadExtracted(w) \/ Heartbeat(w) PROVE IInv'
  BY <1>5, AsideInv
<1>6. ASSUME NEW w \in Worker, Timeout(w) PROVE IInv'
  BY <1>6, TimeoutInv
<1>7. ASSUME NEW w \in Worker, Crash(w) PROVE IInv'
  BY <1>7, CrashInv
<1>8. ASSUME NEW w \in Worker, NEW c \in Conn, Report(w, c) PROVE IInv'
  <2>1. PICK op \in {"complete", "fail", "fatal"} : Send(w, c, op, "working")
    BY <1>8 DEF Report
  <2> QED
    BY <2>1, SendInv
<1>9. ASSUME NEW w \in Worker, NEW c \in Conn, ReportFailure(w, c) PROVE IInv'
  <2>1. PICK op \in {"fail", "fatal"} : Send(w, c, op, "recovering")
    BY <1>9 DEF ReportFailure
  <2> QED
    BY <2>1, SendInv
<1>10. ASSUME NEW w \in Worker, NEW c \in Conn, NoticeSuperseded(w, c) PROVE IInv'
  BY <1>10, SendInv DEF NoticeSuperseded
<1>11. ASSUME NEW w \in Worker, NEW c \in Conn, Signal(w, c) PROVE IInv'
  BY <1>11, SignalInv
<1>12. ASSUME NEW t \in Task, ClockAdvance(t) PROVE IInv'
  BY <1>12, AsideInv
<1>13. ASSUME NEW c \in Conn, NEW t \in Task, SweepBegin(c, t) PROVE IInv'
  <2>1. status[t] # "ABSENT" /\ Open(c, "sweep", Cleanup, t)
    BY <1>13 DEF SweepBegin
  <2> QED
    BY <2>1, OpenInv
<1>14. ASSUME NEW c \in Conn, EnqueueCommit(c) PROVE IInv'
  BY <1>14, EnqueueCommitInv
<1>15. ASSUME NEW c \in Conn, UserAbortCommit(c) PROVE IInv'
  BY <1>15, UserAbortCommitInv
<1>16. ASSUME NEW c \in Conn, Begin(c) PROVE IInv'
  BY <1>16, BeginInv
<1>17. ASSUME NEW c \in Conn, Refuse(c) \/ CommitRefused(c) \/ Abandon(c) PROVE IInv'
  BY <1>17, ReplyInv
<1>18. ASSUME NEW c \in Conn, Write(c) PROVE IInv'
  BY <1>18, WriteInv
<1>19. ASSUME NEW c \in Conn, Commit(c) PROVE IInv'
  BY <1>19, CommitInv
<1>20. CASE UNCHANGED vars
  BY <1>20, StutterInv
<1> QED
  BY <1>1, <1>2, <1>3, <1>4, <1>5, <1>6, <1>7, <1>8, <1>9, <1>10, <1>11, <1>12,
     <1>13, <1>14, <1>15, <1>16, <1>17, <1>18, <1>19, <1>20 DEF Next

(* The inductive invariant holds in every reachable state. *)
THEOREM Invariance == Spec => []IInv
  BY InitInv, StepInv, PTL DEF Spec

(* Every variable keeps its type, and retry_count stays within max_retries *)
(* whichever of two racing failure reports or sweeps writes it last.       *)
THEOREM TypeCorrect == Spec => []TypeOK
<1>1. IInv => TypeOK
  BY DEF IInv
<1> QED
  BY <1>1, Invariance, PTL

(* Whatever requests race for a row of task_queue, it stays one the code   *)
(* can act on: mark_task_requeued and the mark_task_* that settle it leave *)
(* claimed_by, task_secret and status fitting together.                    *)
THEOREM RowsConsistent == Spec => []RowConsistent
<1>1. IInv => RowConsistent
  BY DEF IInv
<1> QED
  BY <1>1, Invariance, PTL

(* A retry locks the worker of the earlier attempt out: no two workers     *)
(* ever hold the same task_secret of the same task.                        *)
THEOREM SecretsSeparate == Spec => []SecretsNotShared
<1>1. IInv => SecretsNotShared
  BY DEF IInv
<1> QED
  BY <1>1, Invariance, PTL

(***************************************************************************)
(* Claims, and the refinement: three actions change status or issued.      *)
(***************************************************************************)
LEMMA RowChanges ==
  ASSUME [Next]_vars
  PROVE  \/ UNCHANGED <<status, owner, issued>>
         \/ \E c \in Conn : EnqueueCommit(c) \/ Commit(c)
         \/ \E w \in Worker, t \in Task : Claim(w, t)
<1>1. CASE \E c \in Conn, i \in Item :
             EnqueueBegin(c, i) \/ AdminAbort(c, i) \/ UserAbortBegin(c, i)
  BY <1>1 DEF EnqueueBegin, AdminAbort, Open, UserAbortBegin, rows
<1>2. CASE \E w \in Worker :
             UploadExtracted(w) \/ Heartbeat(w) \/ Timeout(w) \/ Crash(w)
  BY <1>2 DEF UploadExtracted, Heartbeat, Timeout, Crash, rows
<1>3. CASE \E w \in Worker, c \in Conn :
             Report(w, c) \/ ReportFailure(w, c) \/ NoticeSuperseded(w, c) \/ Signal(w, c)
  BY <1>3 DEF Report, ReportFailure, NoticeSuperseded, Signal, Send, rows
<1>4. CASE \/ \E t \in Task : ClockAdvance(t)
           \/ \E c \in Conn, t \in Task : SweepBegin(c, t)
  BY <1>4 DEF ClockAdvance, SweepBegin, Open, rows
<1>5. CASE \E c \in Conn : UserAbortCommit(c) \/ Begin(c) \/ Refuse(c) \/ Write(c)
                           \/ CommitRefused(c) \/ Abandon(c)
  BY <1>5 DEF UserAbortCommit, Begin, Refuse, Write, CommitRefused, Abandon, Undo, rows
<1>6. CASE UNCHANGED vars
  BY <1>6 DEF vars, rows
<1> QED
  BY <1>1, <1>2, <1>3, <1>4, <1>5, <1>6 DEF Next

(* What a commit does to its row, and who may make it. *)
LEMMA CommitRow ==
  ASSUME IInv, NEW c \in Conn, Commit(c)
  PROVE  /\ conn[c].task \in Task /\ conn[c].phase = "ready" /\ conn'[c] = Free
         /\ status[conn[c].task] # "ABSENT"
         /\ status' = [status EXCEPT ![conn[c].task] = Verdict(conn[c])]
         /\ owner' = [owner EXCEPT ![conn[c].task] = OwnerAfter(conn[c])]
         /\ issued' = [issued EXCEPT ![conn[c].task] =
              IF Verdict(conn[c]) = "PENDING" THEN @ + 1 ELSE @]
         /\ Verdict(conn[c]) \in Terminal \cup {"PENDING"}
         /\ \/ conn[c].by \in {Admin, Cleanup}
            \/ conn[c].by = owner[conn[c].task]
            \/ status[conn[c].task] = "PENDING"
<1>1. conn[c].phase = "ready" /\ conn[c].op \notin {"enqueue", "reset"}
  BY DEF Commit, Settles
<1>2. /\ conn[c].task \in Task /\ status[conn[c].task] # "ABSENT"
      /\ conn[c].by \in Worker \cup {Admin, Cleanup}
  BY <1>1 DEF IInv, KnownTasksExist, RequestersKnown
<1>3. /\ Verdict(conn[c]) \in Terminal \cup {"PENDING"}
      /\ Retryable(conn[c]) <=> Verdict(conn[c]) = "PENDING"
  BY DEF Verdict, Retryable, Terminal
<1>4. MayUpdateTask(conn[c]) /\ conn' = [conn EXCEPT ![c] = Free]
      /\ status' = [status EXCEPT ![conn[c].task] = Verdict(conn[c])]
      /\ owner' = [owner EXCEPT ![conn[c].task] = OwnerAfter(conn[c])]
      /\ issued' = [issued EXCEPT ![conn[c].task] = IssuedAfter(conn[c])]
  BY DEF Commit
<1>5. conn'[c] = Free
  BY <1>4 DEF IInv, TypeOK
<1>6. \/ conn[c].by \in {Admin, Cleanup}
      \/ conn[c].by = owner[conn[c].task]
      \/ status[conn[c].task] = "PENDING"
  BY <1>2, <1>4 DEF MayUpdateTask, WorkerMaySee
<1>7. issued' = [issued EXCEPT ![conn[c].task] =
        IF Verdict(conn[c]) = "PENDING" THEN @ + 1 ELSE @]
  BY <1>3, <1>4 DEF IssuedAfter
<1> QED
  BY <1>1, <1>2, <1>3, <1>4, <1>5, <1>6, <1>7

(* No late or repeated report of a worker that had a task before can end   *)
(* the claim of the worker that has it now: complete_task, fail_task and   *)
(* abort_task are stopped by the row policy even where the status they     *)
(* tested is stale.                                                        *)
THEOREM ClaimsKept == Spec => ClaimNotStolen
<1> DEFINE Kept == \A t \in Task :
      status[t] = "CLAIMED" /\ ~(status'[t] = "CLAIMED" /\ owner'[t] = owner[t])
        => EndedBy(t, {owner[t], Admin, Cleanup})
<1>1. IInv /\ [Next]_vars => [Kept]_vars
  <2> SUFFICES ASSUME IInv, [Next]_vars, NEW t \in Task, status[t] = "CLAIMED",
                      ~(status'[t] = "CLAIMED" /\ owner'[t] = owner[t])
               PROVE  EndedBy(t, {owner[t], Admin, Cleanup})
    OBVIOUS
  <2>1. status \in [Task -> Active \cup Terminal \cup {"ABSENT"}]
        /\ owner \in [Task -> Worker \cup {Null}]
    BY DEF IInv, TypeOK
  <2>2. ASSUME NEW c \in Conn, EnqueueCommit(c) PROVE FALSE
    <3>1. conn[c].task \in Task /\ status[conn[c].task] = "ABSENT"
      BY <2>2 DEF IInv, IdsReserved, EnqueueCommit
    <3>2. status'[t] = status[t] /\ owner' = owner
      BY <2>2, <3>1 DEF EnqueueCommit
    <3> QED
      BY <3>2
  <2>3. ASSUME NEW w \in Worker, NEW u \in Task, Claim(w, u) PROVE FALSE
    <3>1. u # t /\ status'[t] = status[t] /\ owner'[t] = owner[t]
      BY <2>1, <2>3 DEF Claim, Claimable
    <3> QED
      BY <3>1
  <2>4. ASSUME NEW c \in Conn, Commit(c) PROVE EndedBy(t, {owner[t], Admin, Cleanup})
    <3>1. conn[c].task = t
      BY <2>1, <2>4, CommitRow
    <3> QED
      BY <2>4, <3>1, CommitRow DEF EndedBy
  <2> QED
    BY <2>2, <2>3, <2>4, RowChanges
<1> QED
  BY <1>1, Invariance, PTL DEF Spec, ClaimNotStolen

(* The queue implements the life of a task that TaskLifecycle describes.   *)
THEOREM Refinement == Spec => LifecycleSpec
<1>1. Init => Lifecycle!Init
  BY DEF Init, Lifecycle!Init, Phase
<1>2. IInv /\ [Next]_vars => [Lifecycle!Next]_<<Phase, issued>>
  <2> SUFFICES ASSUME IInv, [Next]_vars
               PROVE  Lifecycle!Next \/ UNCHANGED <<Phase, issued>>
    OBVIOUS
  <2>1. status \in [Task -> Active \cup Terminal \cup {"ABSENT"}]
        /\ issued \in [Task -> Nat]
    BY DEF IInv, TypeOK
  <2>2. CASE UNCHANGED <<status, owner, issued>>
    BY <2>2 DEF Phase
  <2>3. ASSUME NEW c \in Conn, EnqueueCommit(c) PROVE Lifecycle!Next
    <3> DEFINE t == conn[c].task
               replaced == {u \in Task : u \in conn[c].seen /\ status[u] = "PENDING"}
    <3>1. t \in Task /\ status[t] = "ABSENT"
      BY <2>3 DEF IInv, IdsReserved, EnqueueCommit
    <3>2. /\ status' = [u \in Task |-> IF u = t THEN "PENDING"
               ELSE IF u \in replaced THEN "SUPERSEDED" ELSE status[u]]
          /\ issued' = [issued EXCEPT ![t] = 1]
      BY <2>3 DEF EnqueueCommit
    <3>3. replaced \in SUBSET Task /\ \A u \in replaced : status[u] = "PENDING"
      OBVIOUS
    <3> HIDE DEF t, replaced
    <3>4. Lifecycle!Submit(t, replaced)
      BY <3>1, <3>2, <3>3 DEF Lifecycle!Submit, Phase
    <3> QED
      BY <3>1, <3>3, <3>4 DEF Lifecycle!Next
  <2>4. ASSUME NEW w \in Worker, NEW t \in Task, Claim(w, t) PROVE Lifecycle!Next
    <3>1. Lifecycle!Take(t)
      BY <2>1, <2>4 DEF Claim, Claimable, Lifecycle!Take, Phase
    <3> QED
      BY <3>1 DEF Lifecycle!Next
  <2>5. ASSUME NEW c \in Conn, Commit(c)
        PROVE  Lifecycle!Next \/ UNCHANGED <<Phase, issued>>
    <3> DEFINE t == conn[c].task
    <3>1. /\ t \in Task /\ status[t] # "ABSENT"
          /\ status' = [status EXCEPT ![t] = Verdict(conn[c])]
          /\ issued' = [issued EXCEPT ![t] =
                          IF Verdict(conn[c]) = "PENDING" THEN @ + 1 ELSE @]
          /\ Verdict(conn[c]) \in Terminal \cup {"PENDING"}
      BY <2>5, CommitRow
    <3> HIDE DEF t
    <3>2. CASE Verdict(conn[c]) = "PENDING"
      <4>1. Lifecycle!Return(t)
        BY <2>1, <3>1, <3>2 DEF Lifecycle!Return, Phase
      <4> QED
        BY <3>1, <4>1 DEF Lifecycle!Next
    <3>3. CASE Verdict(conn[c]) \in Terminal /\ status[t] \in Active
      <4>1. issued' = issued
        BY <2>1, <3>1, <3>3 DEF Terminal
      <4>2. Lifecycle!Settle(t)
        BY <2>1, <3>1, <3>3, <4>1 DEF Lifecycle!Settle, Phase, Terminal, Active
      <4> QED
        BY <3>1, <4>2 DEF Lifecycle!Next
    <3>4. CASE Verdict(conn[c]) \in Terminal /\ status[t] \notin Active
      <4>1. issued' = issued
        BY <2>1, <3>1, <3>4 DEF Terminal
      <4>2. status[t] \in Terminal
        BY <2>1, <3>1, <3>4
      <4>3. Phase' = Phase
        BY <2>1, <3>1, <3>4, <4>2 DEF Phase, Terminal
      <4> QED
        BY <4>1, <4>3
    <3> QED
      BY <3>1, <3>2, <3>3, <3>4
  <2> QED
    BY <2>2, <2>3, <2>4, <2>5, RowChanges
<1> QED
  BY <1>1, <1>2, Invariance, PTL DEF Spec, LifecycleSpec, Lifecycle!Spec

----------------------------------------------------------------------------
(***************************************************************************)
(* The tasks and their items.                                              *)
(*                                                                         *)
(* An item loses its last active task to a commit alone, and that commit   *)
(* writes the item too unless its request found, between its test of the   *)
(* secret and its UPDATE, that the task had been given out again.  The     *)
(* invariant says what a request in progress may still rely on.            *)
(***************************************************************************)

(* The row is as the request found it when it was tested. *)
UpToDate(c) ==
  /\ status[conn[c].task] = "CLAIMED" /\ owner[conn[c].task] = conn[c].by
  /\ conn[c].phase = "ready" => conn[c].access

(* A worker's request in progress is up to date, late for a task that has  *)
(* been settled, or older than the task's secret.                          *)
InTime(c) ==
  conn[c].phase \in {"open", "ready"} /\ conn[c].by \in Worker =>
    /\ conn[c].secret <= issued[conn[c].task]
    /\ conn[c].secret = issued[conn[c].task] /\ status[conn[c].task] \in Active => UpToDate(c)

(* The UPDATE of an item matches for an admin and the sweep. *)
Matches(c) == conn[c].phase = "ready" /\ conn[c].by \in {Admin, Cleanup} => conn[c].access

(* What an enqueue replaces are committed tasks of its item. *)
SeenOfItem(c) ==
  conn[c].op = "enqueue" =>
    /\ conn[c].by = Requester
    /\ \A u \in conn[c].seen : status[u] # "ABSENT" /\ itemOf[u] = itemOf[conn[c].task]

(* The row policy hides the newer task: no completion is superseded. *)
NotSuperseded(c) == conn[c].op # "supersede"

Good(c) == InTime(c) /\ Matches(c) /\ SeenOfItem(c) /\ NotSuperseded(c)

RInv == \A c \in Conn : Good(c)

LEMMA InitRequests == Init => RInv
  BY FreeFields, BoundsAssumption
  DEF Init, RInv, Good, InTime, Matches, SeenOfItem, NotSuperseded

(***************************************************************************)
(* Requests.  A slot keeps its request, or it is in one of these steps.    *)
(***************************************************************************)
SameRequest(c) ==
  /\ conn'[c].op = conn[c].op /\ conn'[c].phase = conn[c].phase /\ conn'[c].by = conn[c].by
  /\ conn'[c].task = conn[c].task /\ conn'[c].secret = conn[c].secret
  /\ conn'[c].access = conn[c].access /\ conn'[c].seen = conn[c].seen

(* A request that is not tested yet, or none. *)
Untested(c) == conn'[c].phase \notin {"open", "ready"} /\ conn'[c].op \notin {"enqueue", "supersede"}

LEMMA SlotStep ==
  ASSUME IInv, [Next]_vars, NEW c \in Conn
  PROVE  \/ SameRequest(c)
         \/ Untested(c)
         \/ \E i \in Item : EnqueueBegin(c, i)
         \/ Begin(c)
         \/ Write(c)
         \/ /\ conn'[c].phase = "open" /\ conn'[c].by \in {Admin, Cleanup}
            /\ conn'[c].op \in {"sweep", "abort"}
         \/ conn'[c].phase = "ready" /\ conn'[c].by = User /\ conn'[c].op = "reset"
<1>0. conn \in [Conn -> Request] BY DEF IInv, TypeOK
<1>1. ASSUME NEW d \in Conn, NEW i \in Item, EnqueueBegin(d, i)
      PROVE  SameRequest(c) \/ EnqueueBegin(c, i)
  BY <1>0, <1>1 DEF EnqueueBegin, SameRequest
<1>2. ASSUME NEW d \in Conn, NEW op \in {"sweep", "abort"}, NEW by \in {Admin, Cleanup},
             NEW t, Open(d, op, by, t)
      PROVE  \/ SameRequest(c)
             \/ /\ conn'[c].phase = "open" /\ conn'[c].by \in {Admin, Cleanup}
                /\ conn'[c].op \in {"sweep", "abort"}
  <2> DEFINE slot == Slot(op, "open", by, t, secret[t], retry[t], FALSE)
  <2>1. slot.phase = "open" /\ slot.by = by /\ slot.op = op BY DEF Slot
  <2> HIDE DEF slot
  <2>2. conn' = [conn EXCEPT ![d] = slot] BY <1>2 DEF Open, slot
  <2> QED BY <1>0, <2>1, <2>2 DEF SameRequest
<1>3. ASSUME NEW d \in Conn, NEW i \in Item, UserAbortBegin(d, i)
      PROVE  \/ SameRequest(c)
             \/ conn'[c].phase = "ready" /\ conn'[c].by = User /\ conn'[c].op = "reset"
  <2> DEFINE slot == Slot("reset", "ready", User, itemTask[i], 0, 0, FALSE)
  <2>1. slot.phase = "ready" /\ slot.by = User /\ slot.op = "reset" BY DEF Slot
  <2> HIDE DEF slot
  <2>2. conn' = [conn EXCEPT ![d] = slot] BY <1>3 DEF UserAbortBegin, slot
  <2> QED BY <1>0, <2>1, <2>2 DEF SameRequest
<1>4. ASSUME NEW d \in Conn, conn' = [conn EXCEPT ![d] = Free]
      PROVE  SameRequest(c) \/ Untested(c)
  BY <1>0, <1>4, FreeFields DEF SameRequest, Untested
<1>5. ASSUME NEW w \in Worker, conn' = Unawaited(w) PROVE SameRequest(c)
  BY <1>0, <1>5 DEF Unawaited, SameRequest, Request
<1>6. ASSUME NEW w \in Worker, NEW d \in Conn, NEW awaits \in BOOLEAN,
             NEW op \in {"complete", "fail", "fatal", "abort"}
      PROVE  /\ conn' = [conn EXCEPT ![d] = WorkerRequest(w, op, awaits)] => SameRequest(c) \/ Untested(c)
             /\ conn' = [Unawaited(w) EXCEPT ![d] = WorkerRequest(w, op, awaits)]
                  => SameRequest(c) \/ Untested(c)
  <2> DEFINE slot == WorkerRequest(w, op, awaits)
  <2>1. slot.phase = "sent" /\ slot.op = op BY DEF WorkerRequest, Slot
  <2> HIDE DEF slot
  <2>2. ASSUME conn' = [conn EXCEPT ![d] = slot] PROVE SameRequest(c) \/ Untested(c)
    BY <1>0, <2>1, <2>2 DEF SameRequest, Untested
  <2>3. ASSUME conn' = [Unawaited(w) EXCEPT ![d] = slot] PROVE SameRequest(c) \/ Untested(c)
    BY <1>0, <2>1, <2>3 DEF SameRequest, Untested, Unawaited, Request
  <2> QED BY <2>2, <2>3 DEF slot
<1>7. ASSUME NEW d \in Conn, Begin(d) PROVE SameRequest(c) \/ Begin(c)
  BY <1>0, <1>7 DEF Begin, SameRequest
<1>8. ASSUME NEW d \in Conn, Write(d) PROVE SameRequest(c) \/ Write(c)
  BY <1>0, <1>8 DEF Write, SameRequest
<1>9. conn' = conn => SameRequest(c) BY DEF SameRequest
<1>10. CASE \E d \in Conn, i \in Item :
              EnqueueBegin(d, i) \/ AdminAbort(d, i) \/ UserAbortBegin(d, i)
  BY <1>10, <1>1, <1>2, <1>3 DEF AdminAbort
<1>11. CASE \E w \in Worker, t \in Task : Claim(w, t)
  BY <1>11, <1>9 DEF Claim
<1>12. CASE \E w \in Worker : UploadExtracted(w) \/ Heartbeat(w) \/ Timeout(w) \/ Crash(w)
  BY <1>12, <1>5, <1>9 DEF UploadExtracted, Heartbeat, Timeout, Crash
<1>13. CASE \E w \in Worker, d \in Conn :
              Report(w, d) \/ ReportFailure(w, d) \/ NoticeSuperseded(w, d) \/ Signal(w, d)
  BY <1>13, <1>6 DEF Report, ReportFailure, NoticeSuperseded, Signal, Send
<1>14. CASE \E t \in Task : ClockAdvance(t)
  BY <1>14, <1>9 DEF ClockAdvance
<1>15. CASE \E d \in Conn, t \in Task : SweepBegin(d, t)
  BY <1>15, <1>2 DEF SweepBegin
<1>16. CASE \E d \in Conn : \/ EnqueueCommit(d) \/ UserAbortCommit(d) \/ Refuse(d) \/ Commit(d)
                            \/ CommitRefused(d) \/ Abandon(d)
  BY <1>16, <1>4 DEF EnqueueCommit, UserAbortCommit, Refuse, Commit, CommitRefused, Abandon, Undo
<1>17. CASE \E d \in Conn : Begin(d) \/ Write(d)
  BY <1>17, <1>7, <1>8
<1>18. CASE UNCHANGED vars BY <1>18, <1>9 DEF vars
<1> QED
  BY <1>10, <1>11, <1>12, <1>13, <1>14, <1>15, <1>16, <1>17, <1>18 DEF Next

(***************************************************************************)
(* Rows and items.                                                         *)
(***************************************************************************)
LEMMA ItemChanges ==
  ASSUME [Next]_vars
  PROVE  \/ UNCHANGED <<itemOf, status, owner, issued, itemStatus>>
         \/ \E c \in Conn, i \in Item : EnqueueBegin(c, i)
         \/ \E c \in Conn : EnqueueCommit(c) \/ UserAbortCommit(c) \/ Commit(c)
         \/ \E w \in Worker, t \in Task : Claim(w, t)
<1>1. CASE \E c \in Conn, i \in Item : AdminAbort(c, i) \/ UserAbortBegin(c, i)
  BY <1>1 DEF AdminAbort, Open, UserAbortBegin, rows, items
<1>2. CASE \E w \in Worker :
             UploadExtracted(w) \/ Heartbeat(w) \/ Timeout(w) \/ Crash(w)
  BY <1>2 DEF UploadExtracted, Heartbeat, Timeout, Crash, rows, items
<1>3. CASE \E w \in Worker, c \in Conn :
             Report(w, c) \/ ReportFailure(w, c) \/ NoticeSuperseded(w, c) \/ Signal(w, c)
  BY <1>3 DEF Report, ReportFailure, NoticeSuperseded, Signal, Send, rows, items
<1>4. CASE \/ \E t \in Task : ClockAdvance(t)
           \/ \E c \in Conn, t \in Task : SweepBegin(c, t)
  BY <1>4 DEF ClockAdvance, SweepBegin, Open, rows, items
<1>5. CASE \E c \in Conn : Begin(c) \/ Refuse(c) \/ Write(c) \/ CommitRefused(c) \/ Abandon(c)
  BY <1>5 DEF Begin, Refuse, Write, CommitRefused, Abandon, Undo, rows, items
<1>6. CASE UNCHANGED vars
  BY <1>6 DEF vars, rows, items
<1> QED
  BY <1>1, <1>2, <1>3, <1>4, <1>5, <1>6 DEF Next

(* A task keeps its item. *)
LEMMA ItemFixed ==
  ASSUME IInv, [Next]_vars, NEW t \in Task, t <= created
  PROVE  itemOf'[t] = itemOf[t]
<1>1. itemOf \in [Task -> Item] /\ created \in Nat
  BY BoundsAssumption DEF IInv, TypeOK
<1>2. ASSUME NEW c \in Conn, NEW i \in Item, EnqueueBegin(c, i) PROVE itemOf'[t] = itemOf[t]
  <2>1. t # created + 1 BY <1>1
  <2> QED BY <1>1, <1>2, <2>1 DEF EnqueueBegin
<1>3. ASSUME NEW c \in Conn, EnqueueCommit(c) \/ UserAbortCommit(c) \/ Commit(c)
      PROVE  itemOf'[t] = itemOf[t]
  BY <1>3 DEF EnqueueCommit, UserAbortCommit, Commit, rows
<1>4. ASSUME NEW w \in Worker, NEW u \in Task, Claim(w, u) PROVE itemOf'[t] = itemOf[t]
  BY <1>4 DEF Claim
<1> QED BY <1>2, <1>3, <1>4, ItemChanges

(* What may become of a row: a task that is active with the same secret was *)
(* active before, and its claim is the same.                               *)
Continues(t) ==
  /\ itemOf'[t] = itemOf[t] /\ status'[t] # "ABSENT"
  /\ issued'[t] >= issued[t]
  /\ status'[t] \in Active /\ issued'[t] = issued[t] =>
       /\ status[t] \in Active
       /\ status[t] = "CLAIMED" => status'[t] = "CLAIMED" /\ owner'[t] = owner[t]

LEMMA RowStep ==
  ASSUME IInv, [Next]_vars, NEW t \in Task, status[t] # "ABSENT"
  PROVE  Continues(t)
<1>0. /\ status \in [Task -> Active \cup Terminal \cup {"ABSENT"}]
      /\ owner \in [Task -> Worker \cup {Null}] /\ issued \in [Task -> Nat]
      /\ itemOf \in [Task -> Item]
  BY DEF IInv, TypeOK
<1>7. created \in Nat
  BY BoundsAssumption DEF IInv, TypeOK
<1>1. CASE UNCHANGED <<itemOf, status, owner, issued, itemStatus>>
  BY <1>0, <1>1 DEF Continues
<1>2. ASSUME NEW c \in Conn, NEW i \in Item, EnqueueBegin(c, i) PROVE Continues(t)
  <2>1. t # created + 1 BY <1>7 DEF IInv, IdsReserved
  <2> QED BY <1>0, <1>2, <2>1 DEF EnqueueBegin, Continues
<1>3. ASSUME NEW c \in Conn, EnqueueCommit(c) PROVE Continues(t)
  <2>1. conn[c].task # t BY <1>3 DEF IInv, IdsReserved, EnqueueCommit
  <2>2. /\ status'[t] \in {status[t], "SUPERSEDED"}
        /\ issued'[t] = issued[t] /\ owner' = owner /\ itemOf' = itemOf
    BY <1>0, <1>3, <2>1 DEF EnqueueCommit
  <2> QED BY <1>0, <2>2 DEF Continues, Active
<1>4. ASSUME NEW c \in Conn, UserAbortCommit(c) PROVE Continues(t)
  BY <1>0, <1>4 DEF UserAbortCommit, rows, Continues
<1>5. ASSUME NEW c \in Conn, Commit(c) PROVE Continues(t)
  <2> DEFINE u == conn[c].task
             verdict == Verdict(conn[c])
  <2>1. /\ u \in Task /\ verdict \in Terminal \cup {"PENDING"}
        /\ status' = [status EXCEPT ![u] = verdict]
        /\ owner' = [owner EXCEPT ![u] = OwnerAfter(conn[c])]
        /\ issued' = [issued EXCEPT ![u] = IF verdict = "PENDING" THEN @ + 1 ELSE @]
    BY <1>5, CommitRow
  <2>2. itemOf' = itemOf BY <1>5 DEF Commit
  <2> HIDE DEF u, verdict
  <2>3. CASE u = t BY <1>0, <2>1, <2>2, <2>3 DEF Continues, Active, Terminal
  <2>4. CASE u # t BY <1>0, <2>1, <2>2, <2>4 DEF Continues
  <2> QED BY <2>3, <2>4
<1>6. ASSUME NEW w \in Worker, NEW u \in Task, Claim(w, u) PROVE Continues(t)
  BY <1>0, <1>6 DEF Claim, Claimable, Continues, Active
<1> QED BY <1>1, <1>2, <1>3, <1>4, <1>5, <1>6, ItemChanges

(***************************************************************************)
(* The invariant of the requests in progress.                              *)
(***************************************************************************)
LEMMA SameGood ==
  ASSUME IInv, [Next]_vars, NEW c \in Conn, Good(c), SameRequest(c)
  PROVE  Good(c)'
<1>0. /\ conn[c] \in Request /\ issued \in [Task -> Nat] /\ issued' \in [Task -> Nat]
  BY StepInv DEF IInv, TypeOK
<1>1. conn[c].phase # "free" /\ conn[c].op # "enqueue" =>
        /\ conn[c].task \in Task /\ status[conn[c].task] # "ABSENT"
        /\ Continues(conn[c].task)
  BY RowStep DEF IInv, KnownTasksExist
<1>2. InTime(c)'
  <2> SUFFICES ASSUME conn[c].phase \in {"open", "ready"}, conn[c].by \in Worker
               PROVE  /\ conn[c].secret <= issued'[conn[c].task]
                      /\ conn[c].secret = issued'[conn[c].task] /\ status'[conn[c].task] \in Active =>
                           /\ status'[conn[c].task] = "CLAIMED" /\ owner'[conn[c].task] = conn[c].by
                           /\ conn[c].phase = "ready" => conn[c].access
    BY DEF SameRequest, InTime, UpToDate
  <2>1. /\ conn[c].task \in Task /\ Continues(conn[c].task)
        /\ issued[conn[c].task] \in Nat /\ issued'[conn[c].task] \in Nat /\ conn[c].secret \in Nat
    <3>1. conn[c].op # "enqueue"
      BY NamesAssumption DEF Good, SeenOfItem, Systems
    <3> QED BY <1>0, <1>1, <3>1 DEF Request
  <2> QED BY <2>1 DEF Good, InTime, UpToDate, Continues
<1>3. Matches(c)' BY DEF Good, Matches, SameRequest
<1>4. SeenOfItem(c)'
  <2> SUFFICES ASSUME conn[c].op = "enqueue", NEW u \in conn[c].seen
               PROVE  status'[u] # "ABSENT" /\ itemOf'[u] = itemOf'[conn[c].task]
    BY DEF SameRequest, SeenOfItem, Good
  <2>1. u \in Task /\ status[u] # "ABSENT" /\ itemOf[u] = itemOf[conn[c].task]
    BY <1>0 DEF Good, SeenOfItem, Request
  <2>2. itemOf'[conn[c].task] = itemOf[conn[c].task]
    BY ItemFixed DEF IInv, IdsReserved
  <2> QED BY <2>1, <2>2, RowStep DEF Continues
<1>5. NotSuperseded(c)' BY DEF Good, NotSuperseded, SameRequest
<1> QED BY <1>2, <1>3, <1>4, <1>5 DEF Good

(* A newer task is no reason to supersede a worker's completion. *)
LEMMA NewerHidden ==
  ASSUME NEW c \in Conn, conn[c].by \in Worker, conn[c].task \in Task
  PROVE  ~NewerActive(conn[c])
  BY DEF NewerActive, ActiveTasks, Visible

LEMMA BeginGood ==
  ASSUME IInv, [Next]_vars, NEW c \in Conn, Good(c), Begin(c)
  PROVE  Good(c)'
<1>0. /\ conn \in [Conn -> Request] /\ conn[c] \in Request /\ issued \in [Task -> Nat]
      /\ conn[c].by \in Worker /\ RowConsistent
  BY DEF Begin, IInv, TypeOK, RequestersKnown
<1>1. /\ conn[c].task \in Task /\ status[conn[c].task] = "CLAIMED"
      /\ owner[conn[c].task] = conn[c].by /\ secret[conn[c].task] = conn[c].secret
  BY DEF Begin, Authorized, Holds
<1>2. conn[c].secret = issued[conn[c].task] BY <1>0, <1>1 DEF RowConsistent, Active
<1>3. ~NewerActive(conn[c]) BY <1>0, <1>1, NewerHidden
<1>4. /\ conn'[c].phase = "open" /\ conn'[c].op = conn[c].op /\ conn'[c].by = conn[c].by
      /\ conn'[c].task = conn[c].task /\ conn'[c].secret = conn[c].secret
  BY <1>0, <1>3 DEF Begin, Request
<1>5. conn[c].op # "enqueue" BY DEF Begin, IInv, RequestersKnown
<1>6. UNCHANGED <<status, owner, issued>> BY DEF Begin, rows
<1>7. issued[conn[c].task] \in Nat BY <1>0, <1>1
<1>8. InTime(c)' BY <1>1, <1>2, <1>4, <1>6, <1>7 DEF InTime, UpToDate
<1> QED BY <1>4, <1>5, <1>8 DEF Good, Matches, SeenOfItem, NotSuperseded

LEMMA WriteGood ==
  ASSUME IInv, [Next]_vars, NEW c \in Conn, Good(c), Write(c)
  PROVE  Good(c)'
<1>0. /\ conn \in [Conn -> Request] /\ conn[c] \in Request /\ conn[c].phase = "open"
      /\ conn[c].op \notin {"enqueue", "reset"}
      /\ conn[c].by \in Worker \cup {Admin, Cleanup} /\ RowConsistent
      /\ conn[c].task \in Task /\ issued \in [Task -> Nat]
  BY DEF Write, IInv, TypeOK, RequestersKnown, KnownTasksExist
<1>1. /\ conn'[c].phase = "ready" /\ conn'[c].op = conn[c].op /\ conn'[c].by = conn[c].by
      /\ conn'[c].task = conn[c].task /\ conn'[c].secret = conn[c].secret
      /\ conn'[c].access = MayUpdateItem(conn[c])
  BY <1>0 DEF Write, Request
<1>2. UNCHANGED <<status, owner, issued>> BY DEF Write, rows
<1>3. InTime(c)'
  <2> SUFFICES ASSUME conn[c].by \in Worker
               PROVE  /\ conn[c].secret <= issued[conn[c].task]
                      /\ conn[c].secret = issued[conn[c].task] /\ status[conn[c].task] \in Active =>
                           /\ status[conn[c].task] = "CLAIMED" /\ owner[conn[c].task] = conn[c].by
                           /\ MayUpdateItem(conn[c])
    BY <1>1, <1>2 DEF InTime, UpToDate
  <2>1. status[conn[c].task] \in Active => secret[conn[c].task] # 0
    BY <1>0 DEF RowConsistent
  <2> QED BY <1>0, <2>1 DEF Good, InTime, UpToDate, MayUpdateItem
<1>4. Matches(c)'
  <2>1. conn[c].by \in {Admin, Cleanup} => conn[c].by \notin Worker
    BY NamesAssumption DEF Systems
  <2> QED BY <1>1, <2>1 DEF Matches, MayUpdateItem
<1> QED BY <1>0, <1>1, <1>3, <1>4 DEF Good, SeenOfItem, NotSuperseded

LEMMA EnqueueBeginGood ==
  ASSUME IInv, NEW c \in Conn, NEW i \in Item, EnqueueBegin(c, i)
  PROVE  Good(c)'
<1>0. /\ conn \in [Conn -> Request] /\ itemOf \in [Task -> Item] /\ created \in 0..MaxTasks
      /\ created + 1 \in Task /\ status' = status
  BY BoundsAssumption DEF IInv, TypeOK, EnqueueBegin
<1> DEFINE waiting == {t \in ActiveTasks(i) : status[t] = "PENDING"}
           slot == Slot("enqueue", "ready", Requester, created + 1, 0, 0, FALSE)
<1>1. /\ conn'[c].phase = "ready" /\ conn'[c].op = "enqueue" /\ conn'[c].by = Requester
      /\ conn'[c].task = created + 1 /\ conn'[c].seen = waiting
  <2>1. conn'[c] = [slot EXCEPT !.found = itemStatus[i], !.seen = waiting]
    BY <1>0 DEF EnqueueBegin
  <2> HIDE DEF waiting
  <2> QED BY <2>1 DEF Slot
<1>2. InTime(c)' /\ Matches(c)'
  BY <1>1, NamesAssumption DEF InTime, Matches, Systems, Requester, Admin, Cleanup
<1>3. SeenOfItem(c)'
  <2> SUFFICES ASSUME NEW u \in waiting PROVE status[u] # "ABSENT" /\ itemOf'[u] = itemOf'[created + 1]
    BY <1>0, <1>1 DEF SeenOfItem
  <2>1. u \in Task /\ status[u] = "PENDING" /\ itemOf[u] = i BY DEF ActiveTasks
  <2>2. itemOf' = [itemOf EXCEPT ![created + 1] = i] BY DEF EnqueueBegin
  <2> QED BY <1>0, <2>1, <2>2
<1> QED BY <1>1, <1>2, <1>3 DEF Good, NotSuperseded

LEMMA StepRequests == IInv /\ RInv /\ [Next]_vars => RInv'
<1> SUFFICES ASSUME IInv, RInv, [Next]_vars, NEW c \in Conn PROVE Good(c)'
  BY DEF RInv
<1>0. Good(c) BY DEF RInv
<1>1. CASE SameRequest(c) BY <1>0, <1>1, SameGood
<1>2. CASE Untested(c) BY <1>2 DEF Untested, Good, InTime, Matches, SeenOfItem, NotSuperseded
<1>3. CASE \E i \in Item : EnqueueBegin(c, i) BY <1>3, EnqueueBeginGood
<1>4. CASE Begin(c) BY <1>0, <1>4, BeginGood
<1>5. CASE Write(c) BY <1>0, <1>5, WriteGood
<1>6. CASE /\ conn'[c].phase = "open" /\ conn'[c].by \in {Admin, Cleanup}
           /\ conn'[c].op \in {"sweep", "abort"}
  BY <1>6, NamesAssumption DEF Good, InTime, Matches, SeenOfItem, NotSuperseded, Systems
<1>7. CASE conn'[c].phase = "ready" /\ conn'[c].by = User /\ conn'[c].op = "reset"
  BY <1>7, NamesAssumption
  DEF Good, InTime, Matches, SeenOfItem, NotSuperseded, Systems, User, Admin, Cleanup
<1> QED BY <1>1, <1>2, <1>3, <1>4, <1>5, <1>6, <1>7, SlotStep

(***************************************************************************)
(* The items.                                                              *)
(***************************************************************************)
LEMMA ActiveStays ==
  ASSUME NEW i, ~Abandoned(i), Abandoned(i)', itemStatus'[i] = itemStatus[i]
  PROVE  \E u \in ActiveTasks(i) : ~(status'[u] \in Active /\ itemOf'[u] = itemOf[u])
  BY DEF Abandoned, ActiveTasks

(* A commit that takes the last active task of an item and does not write  *)
(* the item is that of a request older than the task's secret.             *)
LEMMA CommitAbandons ==
  ASSUME IInv, RInv, NEW i \in Item, NEW c \in Conn, Commit(c), ~Abandoned(i), Abandoned(i)'
  PROVE  /\ conn[c].phase = "ready" /\ conn'[c] = Free /\ conn[c].by \in Worker
         /\ conn[c].secret < issued[conn[c].task]
<1> DEFINE t == conn[c].task
           j == itemOf[t]
           verdict == Verdict(conn[c])
           itemWrite == conn[c].access /\ conn[c].op # "supersede"
<1>1. /\ t \in Task /\ conn[c].phase = "ready" /\ conn'[c] = Free
      /\ status' = [status EXCEPT ![t] = verdict]
      /\ verdict \in Terminal \cup {"PENDING"}
  BY CommitRow
<1>2. /\ itemOf' = itemOf
      /\ itemStatus' = IF itemWrite THEN [itemStatus EXCEPT ![j] = ItemVerdict(conn[c])] ELSE itemStatus
      /\ conn[c].op \notin {"enqueue", "reset"}
  BY DEF Commit, Settles
<1>3. /\ status \in [Task -> Active \cup Terminal \cup {"ABSENT"}]
      /\ itemOf \in [Task -> Item] /\ issued \in [Task -> Nat] /\ conn[c] \in Request
  BY DEF IInv, TypeOK
<1>11. itemStatus \in [Item -> ItemStatus]
  BY DEF IInv, TypeOK
<1>4. Good(c) BY DEF RInv
<1>5. verdict = "PENDING" <=> Retryable(conn[c]) BY DEF Verdict, Retryable
<1>6. ~Retryable(conn[c]) => ItemVerdict(conn[c]) \notin ActiveItem
  BY DEF ItemVerdict, ActiveItem
<1> HIDE DEF t, j, verdict, itemWrite
<1>7. itemStatus'[i] = itemStatus[i] => status[t] \in Active /\ itemOf[t] = i /\ verdict # "PENDING"
  <2> SUFFICES ASSUME itemStatus'[i] = itemStatus[i]
               PROVE  status[t] \in Active /\ itemOf[t] = i /\ verdict # "PENDING"
    OBVIOUS
  <2>1. PICK u \in ActiveTasks(i) : ~(status'[u] \in Active /\ itemOf'[u] = itemOf[u])
    BY ActiveStays
  <2>2. u = t BY <1>1, <1>2, <1>3, <2>1 DEF ActiveTasks
  <2> QED BY <1>1, <1>2, <1>3, <2>1, <2>2 DEF ActiveTasks, Active
<1>8. itemStatus'[i] = itemStatus[i]
  <2> SUFFICES ASSUME itemStatus'[i] # itemStatus[i] PROVE FALSE OBVIOUS
  <2>1. itemWrite /\ i = j /\ itemStatus'[i] = ItemVerdict(conn[c]) BY <1>2, <1>11
  <2>2. verdict = "PENDING" BY <1>5, <1>6, <2>1 DEF Abandoned
  <2>3. t \in ActiveTasks(i)' BY <1>1, <1>2, <1>3, <2>1, <2>2 DEF ActiveTasks, Active, j
  <2> QED BY <2>3 DEF Abandoned
<1>9. ~conn[c].access
  <2> SUFFICES ASSUME conn[c].access PROVE FALSE OBVIOUS
  <2>1. itemWrite BY <1>4 DEF itemWrite, Good, NotSuperseded
  <2>2. itemStatus'[i] = ItemVerdict(conn[c]) BY <1>2, <1>7, <1>8, <1>11, <2>1 DEF j
  <2> QED BY <1>5, <1>6, <1>7, <1>8, <2>2 DEF Abandoned
<1>10. conn[c].by \in Worker
  BY <1>1, <1>2, <1>4, <1>9 DEF IInv, RequestersKnown, Good, Matches
<1> QED
  <2>1. conn[c].secret <= issued[t] /\ conn[c].secret # issued[t]
    BY <1>1, <1>4, <1>7, <1>8, <1>9, <1>10 DEF Good, InTime, UpToDate, t
  <2>2. conn[c].secret \in Nat /\ issued[t] \in Nat BY <1>1, <1>3 DEF Request
  <2> QED BY <1>1, <1>10, <2>1, <2>2 DEF t

(* No other step takes it. *)
LEMMA OthersKeep ==
  ASSUME IInv, RInv, [Next]_vars, NEW i \in Item, ~Abandoned(i), Abandoned(i)'
  PROVE  \E c \in Conn : Commit(c)
<1>0. /\ status \in [Task -> Active \cup Terminal \cup {"ABSENT"}]
      /\ itemOf \in [Task -> Item]
  BY DEF IInv, TypeOK
<1>1. itemStatus \in [Item -> ItemStatus]
  BY DEF IInv, TypeOK
<1>2. CASE UNCHANGED <<itemOf, status, owner, issued, itemStatus>>
  BY <1>2 DEF Abandoned, ActiveTasks
<1>3. ASSUME NEW c \in Conn, NEW j \in Item, EnqueueBegin(c, j) PROVE FALSE
  <2>1. itemStatus' = itemStatus /\ status' = status BY <1>3 DEF EnqueueBegin, items
  <2>2. PICK u \in ActiveTasks(i) : ~(status'[u] \in Active /\ itemOf'[u] = itemOf[u])
    BY <2>1, ActiveStays
  <2>3. u \in Task /\ status[u] \in Active BY DEF ActiveTasks
  <2> QED BY <2>1, <2>2, <2>3, RowStep DEF Active, Continues
<1>4. ASSUME NEW c \in Conn, EnqueueCommit(c) PROVE FALSE
  <2> DEFINE t == conn[c].task
  <2>1. /\ t \in Task /\ itemOf' = itemOf
        /\ itemStatus' = [itemStatus EXCEPT ![itemOf[t]] =
                            IF conn[c].found = "QUEUED" THEN @ ELSE "QUEUED"]
        /\ status' = [u \in Task |->
             IF u = t THEN "PENDING"
             ELSE IF u \in conn[c].seen /\ status[u] = "PENDING" THEN "SUPERSEDED"
             ELSE status[u]]
    BY <1>4 DEF EnqueueCommit, IInv, IdsReserved
  <2>2. \A u \in conn[c].seen : itemOf[u] = itemOf[t]
    BY <1>4 DEF EnqueueCommit, RInv, Good, SeenOfItem
  <2> HIDE DEF t
  <2>3. i # itemOf[t]
    <3>1. status'[t] = "PENDING" /\ itemOf'[t] = itemOf[t] BY <2>1
    <3>2. ActiveTasks(i)' = {} BY DEF Abandoned
    <3> QED BY <2>1, <3>1, <3>2 DEF ActiveTasks, Active
  <2>4. PICK u \in ActiveTasks(i) : ~(status'[u] \in Active /\ itemOf'[u] = itemOf[u])
    BY <1>1, <2>1, <2>3, ActiveStays
  <2> QED BY <2>1, <2>2, <2>3, <2>4 DEF ActiveTasks
<1>5. ASSUME NEW c \in Conn, UserAbortCommit(c) PROVE FALSE
  <2> DEFINE j == itemOf[conn[c].task]
  <2>1. /\ UNCHANGED <<itemOf, status>>
        /\ itemStatus' = [itemStatus EXCEPT ![j] = "REVOKED"]
    BY <1>5 DEF UserAbortCommit, rows
  <2> HIDE DEF j
  <2>2. itemStatus'[i] \in {itemStatus[i], "REVOKED"} BY <1>1, <2>1
  <2> QED BY <2>1, <2>2 DEF Abandoned, ActiveTasks, ActiveItem
<1>6. ASSUME NEW w \in Worker, NEW t \in Task, Claim(w, t) PROVE FALSE
  <2>1. /\ itemOf' = itemOf /\ itemStatus' = [itemStatus EXCEPT ![itemOf[t]] = "PROCESSING"]
        /\ status' = [status EXCEPT ![t] = "CLAIMED"]
    BY <1>6 DEF Claim
  <2>2. status'[t] = "CLAIMED" /\ itemOf'[t] = itemOf[t] BY <1>0, <2>1
  <2>5. ActiveTasks(i)' = {} BY DEF Abandoned
  <2>3. i # itemOf[t] BY <2>2, <2>5 DEF ActiveTasks, Active
  <2>4. PICK u \in ActiveTasks(i) : ~(status'[u] \in Active /\ itemOf'[u] = itemOf[u])
    BY <1>1, <2>1, <2>3, ActiveStays
  <2> QED BY <1>0, <2>1, <2>4 DEF ActiveTasks, Active
<1> QED BY <1>2, <1>3, <1>4, <1>5, <1>6, ItemChanges

(* An item that says it is being processed keeps an active task, whatever  *)
(* enqueues, retries, sweeps and aborts race for it: the one request that  *)
(* takes its last one is a worker's that was tested before the task was    *)
(* given out again, as ItemNotAbandoned says.                              *)
THEOREM ItemsKeepTheirTask == Spec => ItemNotAbandoned
<1> DEFINE Step == \A i \in Item :
       ~Abandoned(i) /\ Abandoned(i)' =>
         \E c \in Conn :
           /\ conn[c].phase = "ready" /\ conn'[c] = Free
           /\ conn[c].by \in Worker
           /\ conn[c].secret < issued[conn[c].task]
<1>1. Init => IInv /\ RInv BY InitInv, InitRequests
<1>2. IInv /\ RInv /\ [Next]_vars => (IInv /\ RInv)' BY StepInv, StepRequests
<1>3. IInv /\ RInv /\ [Next]_vars => [Step]_vars BY OthersKeep, CommitAbandons
<1>4. Spec => [][Step]_vars BY <1>1, <1>2, <1>3, PTL DEF Spec
<1> QED BY <1>4 DEF ItemNotAbandoned
=============================================================================
