----------------------------- MODULE ApiKeysProofs -----------------------------
(***************************************************************************)
(* Proofs about ApiKeys: for both back ends, any number of owners, keys    *)
(* and concurrent requests, and every retry limit and rate window.         *)
(***************************************************************************)
EXTENDS ApiKeys, FiniteSetTheorems, TLAPS

(* Shapes of the tables and of the requests in flight. *)
Times == 1..MaxTime
KeyRow == [owner : Owners \cup {"none"}, created : Nat, expires : Nat,
           revoked : Nat, start : Nat, count : 0..MaxRequests]
Receipt == [key : KeyIds \cup {0}, at : Nat]
CreateCall == [pc : {"createTx", "createGate", "createBatch", "createClassify"},
               owner : Owners, idem : Idems, at : Times,
               attempt : 1..MaxAttempts, key : KeyIds \cup {0}]
RevokeCall == [pc : {"revokeTx", "revokeGate", "revokeBatch"},
               owner : Owners, idem : Idems, key : KeyIds, at : Times]
UseCall == [pc : {"use"}, key : KeyIds, at : Times]

Typed ==
  /\ member \in [Owners -> {"active", "suspended"}]
  /\ keys \in [KeyIds -> KeyRow]
  /\ creates \in [Commands -> Receipt]
  /\ revokes \in [Commands -> Receipt]
  /\ call \in [Callers -> {Idle} \cup CreateCall \cup RevokeCall \cup UseCall]
  /\ disclosed \subseteq Owners \X Idems \X KeyIds
  /\ now \in Times

(* A batch carries the id it drew, and a use the key its lookup found. *)
CallsNameKeys ==
  \A c \in Callers :
    /\ call[c].pc \in {"createBatch", "createClassify"} => call[c].key \in KeyIds
    /\ call[c].pc = "use" => keys[call[c].key].owner \in Owners

(* The tables as constraints keep them: a row without an owner is no row, a
   receipt that names no key is no receipt. *)
Rows ==
  /\ \A k \in KeyIds : keys[k].owner = "none" => keys[k] = NoKey
  /\ \A c \in Commands : /\ creates[c].key = 0 => creates[c] = NoReceipt
                         /\ revokes[c].key = 0 => revokes[c] = NoReceipt

(* Receipts and keys are written together, and each key by one receipt. *)
Created ==
  /\ \A k \in KeyIds : keys[k].owner \in Owners =>
        \E c \in Commands : creates[c].key = k /\ c[1] = keys[k].owner
  /\ \A c \in Commands : creates[c].key # 0 => keys[creates[c].key].owner \in Owners
  /\ \A c, d \in Commands : creates[c].key # 0 /\ creates[c].key = creates[d].key => c = d
  /\ \A d \in disclosed : creates[<<d[1], d[2]>>].key = d[3]

Withdrawn ==
  /\ \A k \in KeyIds : keys[k].revoked # 0 => \E c \in Commands : revokes[c].key = k
  /\ \A c \in Commands : revokes[c].key # 0 =>
        /\ revokes[c].at = keys[revokes[c].key].revoked
        /\ revokes[c].at # 0
  /\ \A c, d \in Commands : revokes[c].key # 0 /\ revokes[c].key = revokes[d].key => c = d

Inv == Typed /\ CallsNameKeys /\ Rows /\ Created /\ Withdrawn

Tables == <<keys, creates, revokes, disclosed>>

-----------------------------------------------------------------------------
LEMMA NoKeyType == NoKey \in KeyRow /\ NoReceipt \in Receipt
PROOF BY ApiKeysAssumption DEF NoKey, KeyRow, NoReceipt, Receipt

(* A free id is an id whose row has no owner. *)
LEMMA FreeId ==
  ASSUME Typed, Rows, NEW k \in KeyIds
  PROVE  k \in Existing <=> keys[k].owner \in Owners
PROOF
<1>1. keys[k] \in KeyRow
  BY DEF Typed
<1>2. NoKey.owner = "none" /\ "none" \notin Owners
  BY ApiKeysAssumption DEF NoKey
<1> QED
  BY <1>1, <1>2 DEF Rows, Existing, KeyRow

LEMMA NewKeyType ==
  ASSUME NEW x \in CreateCall
  PROVE  NewKey(x) \in KeyRow /\ NewKey(x).owner = x.owner /\ NewKey(x).revoked = 0
PROOF
<1> DEFINE none == NoKey
           o == x.owner
           a == x.at
           b == x.at + Lifetime
<1>1. none \in KeyRow /\ none.revoked = 0
  BY NoKeyType DEF NoKey
<1>2. o \in Owners /\ a \in Nat /\ b \in Nat
  BY ApiKeysAssumption DEF CreateCall, Times
<1>3. NewKey(x) = [none EXCEPT !.owner = o, !.created = a, !.expires = b]
  BY DEF NewKey
<1> HIDE DEF none, o, a, b
<1>4. NewKey(x) \in KeyRow /\ NewKey(x).owner = o /\ NewKey(x).revoked = 0
  BY <1>1, <1>2, <1>3 DEF KeyRow
<1> QED
  BY <1>4 DEF o

LEMMA InitInv == Init => Inv
PROOF
<1> SUFFICES ASSUME Init PROVE Inv
  OBVIOUS
<1>1. Typed
  BY NoKeyType, ApiKeysAssumption DEF Init, Typed, Times, Idle
<1>2. CallsNameKeys
  BY DEF Init, CallsNameKeys, Idle
<1>3. Rows
  BY DEF Init, Rows
<1>4. Created /\ Withdrawn
  BY ApiKeysAssumption DEF Init, Created, Withdrawn, NoKey, NoReceipt
<1> QED
  BY <1>1, <1>2, <1>3, <1>4 DEF Inv

-----------------------------------------------------------------------------
(* What the three statements that write do to the tables. *)
Kept ==
  /\ keys' \in [KeyIds -> KeyRow] /\ creates' \in [Commands -> Receipt]
  /\ revokes' \in [Commands -> Receipt] /\ disclosed' \subseteq Owners \X Idems \X KeyIds
  /\ \A k \in KeyIds : keys[k].owner \in Owners => keys'[k].owner \in Owners
  /\ Rows' /\ Created' /\ Withdrawn'

LEMMA UnchangedKeeps ==
  ASSUME Inv, UNCHANGED Tables
  PROVE  Kept
PROOF BY DEF Inv, Kept, Tables, Typed, Rows, Created, Withdrawn, Existing

LEMMA InsertKeeps ==
  ASSUME Inv, NEW x \in CreateCall, NEW k \in KeyIds, k \notin Existing, ~Issued(x),
         Insert(x, k), UNCHANGED revokes,
         disclosed' \in {disclosed, disclosed \cup {<<x.owner, x.idem, k>>}}
  PROVE  Kept
PROOF
<1> DEFINE cmd == <<x.owner, x.idem>>
<1>0. /\ x.owner \in Owners /\ x.idem \in Idems /\ x.at \in Times /\ cmd \in Commands
      /\ cmd[1] = x.owner
  BY DEF CreateCall, Commands
<1>1. /\ keys \in [KeyIds -> KeyRow] /\ creates \in [Commands -> Receipt]
      /\ revokes \in [Commands -> Receipt] /\ disclosed \subseteq Owners \X Idems \X KeyIds
      /\ Rows /\ Created /\ Withdrawn
  BY DEF Inv, Typed
<1>2. keys[k].owner \notin Owners /\ keys[k] = NoKey
  BY FreeId DEF Inv, Existing
<1>3. creates[cmd].key = 0
  BY <1>0 DEF Inv, Issued, NoReceipt
<1>4. NewKey(x) \in KeyRow /\ NewKey(x).owner = x.owner /\ NewKey(x).revoked = 0
  BY NewKeyType
<1>5. k # 0 /\ [key |-> k, at |-> x.at] \in Receipt /\ "none" \notin Owners
  BY <1>0, ApiKeysAssumption DEF Receipt, Times
<1>6. /\ keys' = [keys EXCEPT ![k] = NewKey(x)]
      /\ creates' = [creates EXCEPT ![cmd] = [key |-> k, at |-> x.at]]
  BY DEF Insert
<1>7. /\ keys'[k] = NewKey(x) /\ \A j \in KeyIds : j # k => keys'[j] = keys[j]
      /\ creates'[cmd].key = k /\ \A c \in Commands : c # cmd => creates'[c] = creates[c]
  BY <1>0, <1>1, <1>6
<1> HIDE DEF cmd
<1>8. /\ keys' \in [KeyIds -> KeyRow] /\ creates' \in [Commands -> Receipt]
      /\ \A j \in KeyIds : keys[j].owner \in Owners => keys'[j].owner \in Owners
  BY <1>0, <1>1, <1>2, <1>4, <1>5, <1>6, <1>7
<1>9. disclosed' \subseteq Owners \X Idems \X KeyIds
  BY <1>0, <1>1
<1>10. Rows'
  BY <1>0, <1>1, <1>4, <1>5, <1>7 DEF Rows
<1>11. Created'
  <2>1. \A c \in Commands : creates[c].key # k
    BY <1>1, <1>2, <1>5 DEF Created
  <2>2. \A j \in KeyIds : keys'[j].owner \in Owners =>
            \E c \in Commands : creates'[c].key = j /\ c[1] = keys'[j].owner
    <3> TAKE j \in KeyIds
    <3> HAVE keys'[j].owner \in Owners
    <3>1. CASE j = k
      BY <3>1, <1>0, <1>4, <1>7
    <3>2. CASE j # k
      <4>1. PICK c \in Commands : creates[c].key = j /\ c[1] = keys[j].owner
        BY <3>2, <1>1, <1>7 DEF Created
      <4>2. c # cmd
        BY <4>1, <1>3, ApiKeysAssumption
      <4> QED
        BY <4>1, <4>2, <3>2, <1>7
    <3> QED
      BY <3>1, <3>2
  <2>3. \A c \in Commands : creates'[c].key # 0 => keys'[creates'[c].key].owner \in Owners
    <3> TAKE c \in Commands
    <3> HAVE creates'[c].key # 0
    <3>1. CASE c = cmd
      BY <3>1, <1>0, <1>4, <1>7
    <3>2. CASE c # cmd
      <4>1. creates[c].key \in KeyIds /\ creates[c].key # k
        BY <3>2, <2>1, <1>1, <1>7 DEF Receipt
      <4> QED
        BY <4>1, <3>2, <1>1, <1>7 DEF Created
    <3> QED
      BY <3>1, <3>2
  <2>4. \A c, d \in Commands :
            creates'[c].key # 0 /\ creates'[c].key = creates'[d].key => c = d
    BY <2>1, <1>0, <1>1, <1>7 DEF Created
  <2>5. \A d \in disclosed' : creates'[<<d[1], d[2]>>].key = d[3]
    <3> TAKE d \in disclosed'
    <3>1. CASE d = <<x.owner, x.idem, k>>
      BY <3>1, <1>7 DEF cmd
    <3>2. CASE d \in disclosed
      <4>1. <<d[1], d[2]>> \in Commands /\ d[3] \in KeyIds
        BY <3>2, <1>1 DEF Commands
      <4>2. creates[<<d[1], d[2]>>].key = d[3] /\ d[3] # 0
        BY <3>2, <4>1, <1>1, ApiKeysAssumption DEF Created
      <4> QED
        BY <4>1, <4>2, <1>3, <1>7
    <3> QED
      BY <3>1, <3>2
  <2> QED
    BY <2>2, <2>3, <2>4, <2>5 DEF Created
<1>12. Withdrawn'
  <2>1. revokes' = revokes /\ keys[k].revoked = 0
    BY <1>2 DEF NoKey
  <2>2. \A j \in KeyIds : keys'[j].revoked = keys[j].revoked
    BY <2>1, <1>4, <1>7
  <2>3. \A c \in Commands : revokes[c].key \in KeyIds \cup {0}
    BY <1>1 DEF Receipt
  <2> QED
    BY <2>1, <2>2, <2>3, <1>1 DEF Withdrawn
<1> QED
  BY <1>1, <1>8, <1>9, <1>10, <1>11, <1>12 DEF Kept

LEMMA RevocationKeeps ==
  ASSUME Inv, NEW x \in RevokeCall, Revocable(x), WriteRevocation(x),
         UNCHANGED <<creates, disclosed>>
  PROVE  Kept
PROOF
<1> DEFINE cmd == <<x.owner, x.idem>>
<1>0. /\ x.owner \in Owners /\ x.idem \in Idems /\ x.at \in Nat /\ x.at # 0
      /\ x.key \in KeyIds /\ cmd \in Commands
  BY DEF RevokeCall, Commands, Times
<1>1. /\ keys \in [KeyIds -> KeyRow] /\ creates \in [Commands -> Receipt]
      /\ revokes \in [Commands -> Receipt] /\ disclosed \subseteq Owners \X Idems \X KeyIds
      /\ Rows /\ Created /\ Withdrawn
  BY DEF Inv, Typed
<1>2. keys[x.key].owner = x.owner /\ keys[x.key].revoked = 0 /\ revokes[cmd].key = 0
  BY <1>0, <1>1 DEF Revocable, Revoked, NoReceipt
<1>3. x.key # 0 /\ [key |-> x.key, at |-> x.at] \in Receipt /\ "none" \notin Owners
  BY <1>0, ApiKeysAssumption DEF Receipt
<1>4. /\ revokes' = [revokes EXCEPT ![cmd] = [key |-> x.key, at |-> x.at]]
      /\ keys' = [keys EXCEPT ![x.key] = [keys[x.key] EXCEPT !.revoked = x.at]]
  BY DEF WriteRevocation
<1>5. /\ [keys[x.key] EXCEPT !.revoked = x.at] \in KeyRow
      /\ keys'[x.key] = [keys[x.key] EXCEPT !.revoked = x.at]
      /\ \A j \in KeyIds : j # x.key => keys'[j] = keys[j]
  BY <1>0, <1>1, <1>4 DEF KeyRow
<1>6. /\ keys'[x.key].revoked = x.at
      /\ \A j \in KeyIds : keys'[j].owner = keys[j].owner
  BY <1>0, <1>1, <1>5 DEF KeyRow
<1>7. /\ revokes'[cmd] = [key |-> x.key, at |-> x.at]
      /\ \A c \in Commands : c # cmd => revokes'[c] = revokes[c]
  BY <1>0, <1>1, <1>4
<1> HIDE DEF cmd
<1>8. keys' \in [KeyIds -> KeyRow] /\ revokes' \in [Commands -> Receipt]
  BY <1>0, <1>1, <1>3, <1>4, <1>5
<1>9. Rows'
  BY <1>0, <1>1, <1>2, <1>3, <1>5, <1>6, <1>7 DEF Rows
<1>10. Created'
  <2>1. creates' = creates /\ disclosed' = disclosed
    OBVIOUS
  <2>2. \A c \in Commands : creates[c].key \in KeyIds \cup {0}
    BY <1>1 DEF Receipt
  <2> QED
    BY <2>1, <2>2, <1>1, <1>6 DEF Created
<1>11. Withdrawn'
  <2>1. \A c \in Commands : revokes[c].key # x.key
    BY <1>1, <1>2, <1>3 DEF Withdrawn
  <2>2. \A c \in Commands : revokes[c].key \in KeyIds \cup {0}
    BY <1>1 DEF Receipt
  <2>3. \A k \in KeyIds : keys'[k].revoked # 0 => \E c \in Commands : revokes'[c].key = k
    <3> TAKE k \in KeyIds
    <3> HAVE keys'[k].revoked # 0
    <3>1. CASE k = x.key
      BY <3>1, <1>0, <1>7
    <3>2. CASE k # x.key
      <4>1. PICK c \in Commands : revokes[c].key = k
        BY <3>2, <1>1, <1>5 DEF Withdrawn
      <4> QED
        BY <4>1, <1>2, <1>7, ApiKeysAssumption
    <3> QED
      BY <3>1, <3>2
  <2>4. \A c \in Commands : revokes'[c].key # 0 =>
            revokes'[c].at = keys'[revokes'[c].key].revoked /\ revokes'[c].at # 0
    <3> TAKE c \in Commands
    <3> HAVE revokes'[c].key # 0
    <3>1. CASE c = cmd
      BY <3>1, <1>0, <1>6, <1>7
    <3>2. CASE c # cmd
      <4>1. revokes'[c] = revokes[c] /\ revokes[c].key \in KeyIds /\ revokes[c].key # x.key
        BY <3>2, <2>1, <2>2, <1>7
      <4> QED
        BY <4>1, <1>1, <1>5 DEF Withdrawn
    <3> QED
      BY <3>1, <3>2
  <2>5. \A c, d \in Commands :
            revokes'[c].key # 0 /\ revokes'[c].key = revokes'[d].key => c = d
    BY <2>1, <1>0, <1>1, <1>7 DEF Withdrawn
  <2> QED
    BY <2>3, <2>4, <2>5 DEF Withdrawn
<1> QED
  BY <1>1, <1>6, <1>8, <1>9, <1>10, <1>11 DEF Kept

LEMMA UseKeeps ==
  ASSUME Inv, NEW k \in KeyIds, keys[k].owner \in Owners,
         NEW start \in Nat, NEW count \in 0..MaxRequests,
         keys' = [keys EXCEPT ![k] = [keys[k] EXCEPT !.start = start, !.count = count]],
         UNCHANGED <<creates, revokes, disclosed>>
  PROVE  Kept
PROOF
<1>1. keys \in [KeyIds -> KeyRow]
  BY DEF Inv, Typed
<1>2. keys' \in [KeyIds -> KeyRow]
  <2>1. [keys[k] EXCEPT !.start = start, !.count = count] \in KeyRow
    BY <1>1 DEF KeyRow
  <2> QED
    BY <2>1, <1>1
<1>3. /\ \A j \in KeyIds : keys'[j].owner = keys[j].owner /\ keys'[j].revoked = keys[j].revoked
      /\ \A j \in KeyIds : keys'[j].owner \notin Owners => keys'[j] = keys[j]
  BY <1>1 DEF KeyRow
<1>4. Rows'
  BY <1>3, ApiKeysAssumption DEF Inv, Rows
<1>5. \A c \in Commands : creates[c].key \in KeyIds \cup {0} /\ revokes[c].key \in KeyIds \cup {0}
  BY DEF Inv, Typed, Receipt
<1>6. Created'
  BY <1>3, <1>5 DEF Inv, Created
<1>7. Withdrawn'
  BY <1>3, <1>5 DEF Inv, Withdrawn
<1> QED
  BY <1>2, <1>3, <1>4, <1>6, <1>7 DEF Inv, Typed, Kept

-----------------------------------------------------------------------------
(* Requests in flight: a step of one caller replaces its own request only. *)
Well(x, rows) ==
  /\ x \in {Idle} \cup CreateCall \cup RevokeCall \cup UseCall
  /\ x.pc \in {"createBatch", "createClassify"} => x.key \in KeyIds
  /\ x.pc = "use" => rows[x.key].owner \in Owners

LEMMA IdleWell == Well(Idle, keys')
PROOF BY DEF Well, Idle

LEMMA CallsKeep ==
  ASSUME Inv, Kept, NEW c \in Callers, NEW x,
         Well(x, keys'), call' = [call EXCEPT ![c] = x]
  PROVE  CallsNameKeys' /\ call' \in [Callers -> {Idle} \cup CreateCall \cup RevokeCall \cup UseCall]
PROOF
<1>1. call' \in [Callers -> {Idle} \cup CreateCall \cup RevokeCall \cup UseCall]
  BY DEF Inv, Typed, Well
<1>2. ASSUME NEW d \in Callers
      PROVE  /\ call'[d].pc \in {"createBatch", "createClassify"} => call'[d].key \in KeyIds
             /\ call'[d].pc = "use" => keys'[call'[d].key].owner \in Owners
  <2>1. CASE d = c
    BY <2>1 DEF Inv, Typed, Well
  <2>2. CASE d # c
    <3>1. call'[d] = call[d]
      BY <2>2 DEF Inv, Typed
    <3>2. call[d].pc = "use" => call[d].key \in KeyIds
      BY DEF Inv, Typed, Idle, CreateCall, RevokeCall, UseCall
    <3> QED
      BY <3>1, <3>2 DEF Inv, CallsNameKeys, Kept
  <2> QED
    BY <2>1, <2>2
<1> QED
  BY <1>1, <1>2 DEF CallsNameKeys

LEMMA Reassemble ==
  ASSUME Inv, Kept, member' \in [Owners -> {"active", "suspended"}], now' \in Times,
         CallsNameKeys', call' \in [Callers -> {Idle} \cup CreateCall \cup RevokeCall \cup UseCall]
  PROVE  Inv'
PROOF BY DEF Inv, Kept, Typed

(* The whole step of one caller, from its effect on the tables. *)
LEMMA CallerStep ==
  ASSUME Inv, Kept, NEW c \in Callers, NEW x, Well(x, keys'),
         call' = [call EXCEPT ![c] = x], UNCHANGED <<member, now>>
  PROVE  Inv'
PROOF BY CallsKeep, Reassemble DEF Inv, Typed

LEMMA CallShapes ==
  ASSUME Inv, NEW c \in Callers
  PROVE  /\ call[c].pc \in {"createTx", "createGate", "createBatch", "createClassify"}
              => call[c] \in CreateCall
         /\ call[c].pc \in {"revokeTx", "revokeGate", "revokeBatch"} => call[c] \in RevokeCall
         /\ call[c].pc = "use" => call[c] \in UseCall
PROOF BY DEF Inv, Typed, Idle, CreateCall, RevokeCall, UseCall

(* A create goes on with an id it drew, or to classify a batch. *)
LEMMA CreateMoves ==
  ASSUME NEW x \in CreateCall
  PROVE  /\ \A k \in KeyIds : Well([x EXCEPT !.pc = "createBatch", !.key = k], keys')
         /\ x.key \in KeyIds => Well([x EXCEPT !.pc = "createClassify"], keys')
PROOF BY DEF Well, CreateCall

LEMMA RetryWell ==
  ASSUME Inv, NEW c \in Callers, call[c] \in CreateCall,
         call[c].pc = "createTx" \/ (call[c].pc = "createClassify" /\ call[c].key \in KeyIds),
         RetryCredential(c)
  PROVE  \E x : Well(x, keys') /\ call' = [call EXCEPT ![c] = x]
PROOF
<1>1. CASE call[c].attempt < MaxAttempts
  <2> DEFINE n == call[c].attempt + 1
             pc == IF Backend = "d1" THEN "createGate" ELSE call[c].pc
             x == [call[c] EXCEPT !.attempt = n, !.pc = pc]
  <2>1. n \in 1..MaxAttempts /\ pc \in {"createTx", "createGate", "createClassify"}
        /\ (pc = "createClassify" => call[c].key \in KeyIds)
    BY <1>1, ApiKeysAssumption DEF CreateCall
  <2>2. call' = [call EXCEPT ![c] = x]
    BY <1>1 DEF RetryCredential
  <2> HIDE DEF n, pc
  <2>3. Well(x, keys')
    BY <2>1 DEF Well, CreateCall
  <2> QED
    BY <2>2, <2>3
<1>2. CASE ~(call[c].attempt < MaxAttempts)
  BY <1>2, IdleWell DEF RetryCredential, Inv, Typed
<1> QED
  BY <1>1, <1>2

-----------------------------------------------------------------------------
(* One lemma for the steps of one caller, in the order of Step. *)
LEMMA CreateTxKeeps ==
  ASSUME Inv, NEW c \in Callers, CreateTx(c)
  PROVE  Inv'
PROOF
<1> DEFINE x == call[c]
<1>1. x \in CreateCall /\ x.pc = "createTx"
  BY CallShapes DEF CreateTx
<1>2. UNCHANGED <<member, revokes, now>>
  BY DEF CreateTx
<1>3. CASE End(c) /\ UNCHANGED <<keys, creates, disclosed>>
  BY <1>2, <1>3, IdleWell, UnchangedKeeps, CallerStep DEF End, Tables
<1>4. ASSUME ~Issued(x), NEW k \in KeyIds, k \in Existing, RetryCredential(c),
             UNCHANGED <<keys, creates, disclosed>>
      PROVE  Inv'
  BY <1>1, <1>2, <1>4, RetryWell, UnchangedKeeps, CallerStep DEF Tables
<1>5. ASSUME ~Issued(x), NEW k \in KeyIds, k \notin Existing, Insert(x, k), End(c),
             disclosed' = disclosed \cup {<<x.owner, x.idem, k>>}
      PROVE  Inv'
  <2>1. Kept
    BY <1>1, <1>2, <1>5, InsertKeeps
  <2> QED
    BY <2>1, <1>2, <1>5, IdleWell, CallerStep DEF End
<1> QED
  BY <1>3, <1>4, <1>5 DEF CreateTx

LEMMA CreateGateKeeps ==
  ASSUME Inv, NEW c \in Callers, CreateGate(c)
  PROVE  Inv'
PROOF
<1>1. call[c] \in CreateCall /\ UNCHANGED <<member, now>> /\ UNCHANGED Tables
  BY CallShapes DEF CreateGate, Tables
<1>2. Kept
  BY <1>1, UnchangedKeeps
<1>3. CASE End(c)
  BY <1>1, <1>2, <1>3, IdleWell, CallerStep DEF End
<1>4. ASSUME NEW k \in KeyIds, call' = [call EXCEPT ![c].pc = "createBatch", ![c].key = k]
      PROVE  Inv'
  <2> DEFINE x == [call[c] EXCEPT !.pc = "createBatch", !.key = k]
  <2>1. call' = [call EXCEPT ![c] = x]
    BY <1>4 DEF Inv, Typed
  <2>2. Well(x, keys')
    BY <1>1, CreateMoves
  <2> HIDE DEF x
  <2> QED
    BY <2>1, <2>2, <1>1, <1>2, CallerStep
<1> QED
  BY <1>3, <1>4 DEF CreateGate

LEMMA CreateBatchKeeps ==
  ASSUME Inv, NEW c \in Callers, CreateBatch(c)
  PROVE  Inv'
PROOF
<1> DEFINE x == call[c]
           y == [x EXCEPT !.pc = "createClassify"]
<1>1. x \in CreateCall /\ x.pc = "createBatch" /\ x.key \in KeyIds
  BY CallShapes DEF CreateBatch, Inv, CallsNameKeys
<1>2. UNCHANGED <<member, revokes, now>>
  BY DEF CreateBatch
<1>3. Well(y, keys')
  BY <1>1, CreateMoves
<1>4. ASSUME CreateApplies(x), Insert(x, x.key),
             disclosed' \in {disclosed, disclosed \cup {<<x.owner, x.idem, x.key>>}}
      PROVE  Kept
  BY <1>1, <1>2, <1>4, InsertKeeps DEF CreateApplies
<1>5. CASE End(c) /\ Kept
  BY <1>2, <1>5, IdleWell, CallerStep DEF End
<1>6. ASSUME call' = [call EXCEPT ![c].pc = "createClassify"], Kept
      PROVE  Inv'
  <2>1. call' = [call EXCEPT ![c] = y]
    BY <1>6 DEF Inv, Typed
  <2> HIDE DEF y
  <2> QED
    BY <2>1, <1>2, <1>3, <1>6, CallerStep
<1>7. CASE CreateApplies(x) /\ Insert(x, x.key)
  BY <1>4, <1>5, <1>6, <1>7 DEF CreateBatch
<1>8. CASE ~CreateApplies(x)
  <2>1. UNCHANGED Tables /\ call' = [call EXCEPT ![c].pc = "createClassify"]
    BY <1>2, <1>8 DEF CreateBatch, Tables
  <2> QED
    BY <2>1, <1>6, UnchangedKeeps
<1> QED
  BY <1>7, <1>8 DEF CreateBatch

LEMMA CreateClassifyKeeps ==
  ASSUME Inv, NEW c \in Callers, CreateClassify(c)
  PROVE  Inv'
PROOF
<1>1. call[c] \in CreateCall /\ UNCHANGED <<member, now>> /\ UNCHANGED Tables
  BY CallShapes DEF CreateClassify, Tables
<1>2. Kept
  BY <1>1, UnchangedKeeps
<1>3. CASE End(c)
  BY <1>1, <1>2, <1>3, IdleWell, CallerStep DEF End
<1>4. CASE RetryCredential(c)
  <2>1. call[c].pc = "createClassify" /\ call[c].key \in KeyIds
    BY DEF CreateClassify, Inv, CallsNameKeys
  <2> QED
    BY <1>1, <1>2, <1>4, <2>1, RetryWell, CallerStep
<1> QED
  BY <1>3, <1>4 DEF CreateClassify

LEMMA RevokeKeeps ==
  ASSUME Inv, NEW c \in Callers, RevokeTx(c) \/ RevokeGate(c) \/ RevokeBatch(c)
  PROVE  Inv'
PROOF
<1> DEFINE x == call[c]
<1>1. x \in RevokeCall /\ UNCHANGED <<member, creates, disclosed, now>>
  BY CallShapes DEF RevokeTx, RevokeGate, RevokeBatch
<1>2. CASE End(c) /\ UNCHANGED <<keys, revokes>>
  BY <1>1, <1>2, UnchangedKeeps, IdleWell, CallerStep DEF End, Tables
<1>3. CASE End(c) /\ Revocable(x) /\ WriteRevocation(x)
  BY <1>1, <1>3, RevocationKeeps, IdleWell, CallerStep DEF End
<1>4. CASE RevokeGate(c) /\ ~End(c)
  <2> DEFINE y == [x EXCEPT !.pc = "revokeBatch"]
  <2>1. UNCHANGED Tables /\ call' = [call EXCEPT ![c] = y]
    BY <1>4 DEF RevokeGate, Tables, Inv, Typed
  <2>2. Well(y, keys')
    BY <1>1 DEF Well, RevokeCall
  <2> HIDE DEF y
  <2> QED
    BY <1>1, <2>1, <2>2, UnchangedKeeps, CallerStep
<1> QED
  BY <1>2, <1>3, <1>4 DEF RevokeTx, RevokeGate, RevokeBatch, RevokeApplies

LEMMA RecordUseKeeps ==
  ASSUME Inv, NEW c \in Callers, RecordUse(c)
  PROVE  Inv'
PROOF
<1> DEFINE x == call[c]
           k == x.key
           row == keys[k]
<1>1. /\ k \in KeyIds /\ x.at \in Nat /\ row \in KeyRow /\ row.owner \in Owners
      /\ UNCHANGED <<member, creates, revokes, disclosed, now>>
  BY CallShapes DEF RecordUse, UseCall, Times, Inv, Typed, CallsNameKeys
<1>2. CASE UNCHANGED keys
  BY <1>1, <1>2, UnchangedKeeps, IdleWell, CallerStep DEF RecordUse, End, Tables
<1>3. CASE Admits(row, x.at)
  <2> DEFINE start == IF WindowOver(row, x.at) THEN x.at ELSE row.start
             count == IF WindowOver(row, x.at) THEN 1 ELSE row.count + 1
  <2>1. start \in Nat /\ count \in 0..MaxRequests
    BY <1>1, <1>3, ApiKeysAssumption DEF Admits, KeyRow
  <2>2. keys' = [keys EXCEPT ![k] = [keys[k] EXCEPT !.start = start, !.count = count]]
    BY <1>1, <1>3 DEF RecordUse, Inv, Typed, KeyRow
  <2> HIDE DEF start, count
  <2>3. Kept
    BY <1>1, <2>1, <2>2, UseKeeps
  <2> QED
    BY <1>1, <2>3, IdleWell, CallerStep DEF RecordUse, End
<1> QED
  BY <1>2, <1>3 DEF RecordUse

LEMMA UseTouchesWindow ==
  ASSUME keys \in [KeyIds -> KeyRow], NEW c \in Callers, RecordUse(c), call[c].key \in KeyIds
  PROVE  \A k \in KeyIds :
           /\ keys'[k].owner = keys[k].owner /\ keys'[k].revoked = keys[k].revoked
           /\ keys'[k].created = keys[k].created
           /\ k # call[c].key => keys'[k] = keys[k]
PROOF
<1> DEFINE x == call[c]
           row == keys[x.key]
           start == IF WindowOver(row, x.at) THEN x.at ELSE row.start
           count == IF WindowOver(row, x.at) THEN 1 ELSE row.count + 1
<1>1. UNCHANGED keys
      \/ keys' = [keys EXCEPT ![x.key] = [keys[x.key] EXCEPT !.start = start, !.count = count]]
  BY DEF RecordUse, KeyRow
<1>2. row \in KeyRow /\ x.key \in KeyIds
  OBVIOUS
<1> HIDE DEF start, count, x, row
<1>3. CASE keys' = [keys EXCEPT ![x.key] = [row EXCEPT !.start = start, !.count = count]]
  <2>1. \A k \in KeyIds : k # x.key => keys'[k] = keys[k]
    BY <1>2, <1>3
  <2>2. keys'[x.key] = [row EXCEPT !.start = start, !.count = count]
    BY <1>2, <1>3
  <2>3. /\ keys'[x.key].owner = row.owner /\ keys'[x.key].revoked = row.revoked
        /\ keys'[x.key].created = row.created
    BY <1>2, <2>2 DEF KeyRow
  <2> QED
    BY <2>1, <2>3 DEF row, x
<1> QED
  BY <1>1, <1>3 DEF row, x

(* Requests begin with a shape of their own. *)
LEMMA BeginKeeps ==
  ASSUME Inv, NEW c \in Callers, NEW x, call' = [call EXCEPT ![c] = x],
         UNCHANGED <<member, now>>, UNCHANGED Tables,
         \/ x \in CreateCall /\ x.pc \in {"createTx", "createGate"}
         \/ x \in RevokeCall
         \/ x \in UseCall /\ keys[x.key].owner \in Owners
  PROVE  Inv'
PROOF
<1>1. Well(x, keys')
  BY DEF Well, CreateCall, RevokeCall, UseCall, Tables
<1> QED
  BY <1>1, UnchangedKeeps, CallerStep

LEMMA CreateBegins ==
  ASSUME Inv, NEW c \in Callers, NEW o \in Owners, NEW i \in Idems, CreateApiKey(c, o, i)
  PROVE  Inv'
PROOF
<1> DEFINE x == [pc |-> IF Backend = "d1" THEN "createGate" ELSE "createTx",
                 owner |-> o, idem |-> i, at |-> now, attempt |-> 1, key |-> 0]
<1>1. x \in CreateCall /\ x.pc \in {"createTx", "createGate"}
  BY ApiKeysAssumption DEF CreateCall, Inv, Typed
<1>2. call' = [call EXCEPT ![c] = x] /\ UNCHANGED <<member, now>> /\ UNCHANGED Tables
  BY DEF CreateApiKey, Tables
<1> HIDE DEF x
<1> QED
  BY <1>1, <1>2, BeginKeeps

LEMMA RevokeBegins ==
  ASSUME Inv, NEW c \in Callers, NEW o \in Owners, NEW i \in Idems, NEW k \in KeyIds,
         RevokeApiKey(c, o, i, k)
  PROVE  Inv'
PROOF
<1> DEFINE x == [pc |-> IF Backend = "d1" THEN "revokeGate" ELSE "revokeTx",
                 owner |-> o, idem |-> i, key |-> k, at |-> now]
<1>1. x \in RevokeCall
  BY DEF RevokeCall, Inv, Typed
<1>2. call' = [call EXCEPT ![c] = x] /\ UNCHANGED <<member, now>> /\ UNCHANGED Tables
  BY DEF RevokeApiKey, Tables
<1> HIDE DEF x
<1> QED
  BY <1>1, <1>2, BeginKeeps

LEMMA UseBegins ==
  ASSUME Inv, NEW c \in Callers, NEW k \in KeyIds, Authenticate(c, k)
  PROVE  Inv'
PROOF
<1> DEFINE x == [pc |-> "use", key |-> k, at |-> now]
<1>1. x \in UseCall /\ keys[x.key].owner \in Owners
  BY FreeId DEF UseCall, Authenticate, Inv, Typed
<1>2. call' = [call EXCEPT ![c] = x] /\ UNCHANGED <<member, now>> /\ UNCHANGED Tables
  BY DEF Authenticate, Tables
<1> HIDE DEF x
<1> QED
  BY <1>1, <1>2, BeginKeeps

LEMMA StepInv == Inv /\ [Next]_vars => Inv'
PROOF
<1> SUFFICES ASSUME Inv, [Next]_vars PROVE Inv'
  OBVIOUS
<1>1. ASSUME NEW c \in Callers, Step(c) PROVE Inv'
  BY <1>1, CreateTxKeeps, CreateGateKeeps, CreateBatchKeeps, CreateClassifyKeeps, RevokeKeeps,
     RecordUseKeeps DEF Step
<1>2. ASSUME UNCHANGED call, UNCHANGED Tables, now' \in Times,
             member' \in [Owners -> {"active", "suspended"}]
      PROVE  Inv'
  BY <1>2, UnchangedKeeps, Reassemble DEF Inv, Typed, CallsNameKeys, Tables
<1>3. ASSUME NEW c \in Callers, NEW o \in Owners, NEW i \in Idems, CreateApiKey(c, o, i)
      PROVE  Inv'
  BY <1>3, CreateBegins
<1>4. ASSUME NEW o \in Owners, OpenList(o) PROVE Inv'
  BY <1>2, <1>4 DEF OpenList, Tables, Inv, Typed
<1>5. ASSUME NEW o \in Owners, SetStatus(o) PROVE Inv'
  <2>1. member' \in [Owners -> {"active", "suspended"}]
    BY <1>5 DEF SetStatus, Inv, Typed
  <2> QED
    BY <2>1, <1>2, <1>5 DEF SetStatus, Tables, Inv, Typed
<1>6. CASE ListApiKeys \/ CloseList \/ UNCHANGED vars
  BY <1>2, <1>6 DEF ListApiKeys, CloseList, vars, Tables, Inv, Typed
<1>7. CASE Tick
  <2>1. now' \in Times
    BY <1>7, ApiKeysAssumption DEF Tick, Times, Inv, Typed
  <2> QED
    BY <2>1, <1>2, <1>7 DEF Tick, Tables, Inv, Typed
<1>8. ASSUME NEW c \in Callers, NEW k \in KeyIds, Authenticate(c, k) PROVE Inv'
  BY <1>8, UseBegins
<1>9. ASSUME NEW c \in Callers, NEW o \in Owners, NEW i \in Idems, NEW k \in KeyIds,
             RevokeApiKey(c, o, i, k)
      PROVE  Inv'
  BY <1>9, RevokeBegins
<1> QED
  BY <1>1, <1>3, <1>4, <1>5, <1>6, <1>7, <1>8, <1>9 DEF Next

LEMMA SpecInv == Spec => []Inv
PROOF BY InitInv, StepInv, PTL DEF Spec

-----------------------------------------------------------------------------
(* For every number of callers and every retry limit the tables, requests and
   counters keep their types, and a create tries at most MAX_CREDENTIAL_ATTEMPTS
   credentials (ApiKeyApplication.createApiKey). *)
THEOREM ApiKeyTypes == Spec => []TypeOK
PROOF
<1>1. Inv => TypeOK
  <2> SUFFICES ASSUME Inv PROVE TypeOK
    OBVIOUS
  <2>1. \A k \in KeyIds : keys[k].owner \in Owners \cup {"none"} /\ keys[k].count \in 0..MaxRequests
    BY DEF Inv, Typed, KeyRow
  <2>2. \A c \in Commands : creates[c].key \in KeyIds \cup {0} /\ revokes[c].key \in KeyIds \cup {0}
    BY DEF Inv, Typed, Receipt
  <2>3. ASSUME NEW c \in Callers, "attempt" \in DOMAIN call[c] PROVE call[c].attempt \in 1..MaxAttempts
    <3>1. call[c] \in CreateCall
      BY <2>3 DEF Inv, Typed, Idle, RevokeCall, UseCall
    <3> QED
      BY <3>1 DEF CreateCall
  <2> QED
    BY <2>1, <2>2, <2>3 DEF Inv, Typed, TypeOK, Times
<1> QED
  BY <1>1, SpecInv, PTL

(* An idempotency key issues at most one credential, whatever races, collides
   or is answered too late: both stores write the key and its receipt under
   the receipt's primary key. *)
THEOREM OneKeyIssued == Spec => []OneKeyPerCommand
PROOF
<1>1. Inv => OneKeyPerCommand
  <2> SUFFICES ASSUME Inv PROVE OneKeyPerCommand
    OBVIOUS
  <2>1. ASSUME NEW k \in Existing
        PROVE  \E c \in Commands : /\ creates[c].key = k /\ c[1] = keys[k].owner
                                   /\ \A d \in Commands : creates[d].key = k => d = c
    <3>1. k \in KeyIds /\ k # 0 /\ keys[k].owner \in Owners
      BY <2>1, FreeId, ApiKeysAssumption DEF Existing, Inv
    <3>2. PICK c \in Commands : creates[c].key = k /\ c[1] = keys[k].owner
      BY <3>1 DEF Inv, Created
    <3> QED
      BY <3>1, <3>2 DEF Inv, Created
  <2> QED
    BY <2>1 DEF OneKeyPerCommand, Inv, Created
<1> QED
  BY <1>1, SpecInv, PTL

(* The revocation time of a key is the time of its only revocation receipt,
   for any number of revocations racing under different idempotency keys. *)
THEOREM RevocationProven == Spec => []RevocationMatchesReceipt
PROOF
<1>1. Inv => RevocationMatchesReceipt
  <2> SUFFICES ASSUME Inv, NEW k \in KeyIds
               PROVE  LET receipts == {c \in Commands : revokes[c].key = k}
                      IN /\ Cardinality(receipts) <= 1
                         /\ \A c \in receipts : revokes[c].at = keys[k].revoked
                         /\ keys[k].revoked # 0 => receipts # {}
    BY DEF RevocationMatchesReceipt
  <2> DEFINE receipts == {c \in Commands : revokes[c].key = k}
  <2>1. k # 0
    BY ApiKeysAssumption
  <2>2. \A c, d \in receipts : c = d
    BY <2>1 DEF Inv, Withdrawn
  <2>3. Cardinality(receipts) <= 1
    <3>1. CASE receipts = {}
      BY <3>1, FS_EmptySet
    <3>2. CASE receipts # {}
      <4>1. PICK c : receipts = {c}
        BY <3>2, <2>2
      <4>2. Cardinality({c}) = 1
        BY FS_Singleton
      <4> HIDE DEF receipts
      <4> QED
        BY <4>1, <4>2
    <3> QED
      BY <3>1, <3>2
  <2>4. \A c \in receipts : revokes[c].at = keys[k].revoked
    BY <2>1 DEF Inv, Withdrawn
  <2>5. keys[k].revoked # 0 => receipts # {}
    BY DEF Inv, Withdrawn
  <2> QED
    BY <2>3, <2>4, <2>5
<1> QED
  BY <1>1, SpecInv, PTL

(* Only the recording of a use appends to a key's uses. *)
LEMMA OnlyRecordUse ==
  ASSUME [Next]_vars, ~UNCHANGED used
  PROVE  \E c \in Callers : RecordUse(c)
PROOF
  BY DEF Next, Step, CreateTx, CreateGate, CreateBatch, CreateClassify, RevokeTx, RevokeGate,
         RevokeBatch, CreateApiKey, RevokeApiKey, Authenticate, OpenList, SetStatus, ListApiKeys,
         CloseList, Tick, vars

UseTimes == used \in [KeyIds -> Seq(Nat)]

LEMMA UsesTyped == Spec => []UseTimes
PROOF
<1>1. Init => UseTimes
  BY DEF Init, UseTimes
<1>2. Inv /\ UseTimes /\ [Next]_vars => UseTimes'
  <2> SUFFICES ASSUME Inv, UseTimes, [Next]_vars PROVE UseTimes'
    OBVIOUS
  <2>1. CASE UNCHANGED used
    BY <2>1 DEF UseTimes
  <2>2. ASSUME NEW c \in Callers, RecordUse(c) PROVE UseTimes'
    <3>1. call[c].key \in KeyIds /\ call[c].at \in Nat
      BY <2>2, CallShapes DEF RecordUse, UseCall, Times
    <3>2. Append(used[call[c].key], call[c].at) \in Seq(Nat)
      BY <3>1 DEF UseTimes
    <3> QED
      BY <2>2, <3>2 DEF RecordUse, UseTimes
  <2> QED
    BY <2>1, <2>2, OnlyRecordUse
<1> QED
  BY <1>1, <1>2, SpecInv, PTL DEF Spec

(* A bearer request whose key is revoked between its lookup and the recording
   of its use is refused by that recording (recordUse). *)
THEOREM RevocationHolds == Spec => RevokedNeverAuthenticates
PROOF
<1>1. ASSUME UseTimes, [Next]_vars
      PROVE  [\A k \in KeyIds : used'[k] # used[k] => keys[k].revoked = 0]_vars
  <2>1. ASSUME NEW c \in Callers, RecordUse(c), NEW k \in KeyIds, used'[k] # used[k]
        PROVE  keys[k].revoked = 0
    <3>1. Admits(keys[call[c].key], call[c].at)
      BY <2>1 DEF RecordUse
    <3>2. k = call[c].key
      BY <1>1, <2>1, <3>1 DEF RecordUse, UseTimes
    <3> QED
      BY <3>1, <3>2 DEF Admits
  <2> QED
    BY <1>1, <2>1, OnlyRecordUse
<1> QED
  BY <1>1, UsesTyped, PTL DEF Spec, RevokedNeverAuthenticates

(* Neither store creates or revokes a key of an owner who is suspended at that
   moment, although D1 read the owner's status in an earlier request. *)
THEOREM OwnersChecked == Spec => WritesWhileActive
PROOF
<1> DEFINE Written(k) == keys'[k].owner # keys[k].owner \/ keys'[k].revoked # keys[k].revoked
           Checked == \A k \in KeyIds : Written(k) => Active(keys'[k].owner)
<1>1. ASSUME Inv, [Next]_vars PROVE [Checked]_vars
  <2>0. keys \in [KeyIds -> KeyRow]
    BY <1>1 DEF Inv, Typed
  <2>1. UNCHANGED keys => Checked
    OBVIOUS
  <2>2. ASSUME NEW x \in CreateCall, NEW k \in KeyIds, Insert(x, k), Active(x.owner)
        PROVE  Checked
    BY <2>0, <2>2, NewKeyType DEF Insert
  <2>3. ASSUME NEW x \in RevokeCall, Revocable(x), WriteRevocation(x)
        PROVE  Checked
    <3>1. /\ keys' = [keys EXCEPT ![x.key] = [keys[x.key] EXCEPT !.revoked = x.at]]
          /\ x.key \in KeyIds
      BY <2>3 DEF WriteRevocation, RevokeCall
    <3>2. \A k \in KeyIds : keys'[k].owner = keys[k].owner /\ (k # x.key => keys'[k] = keys[k])
      BY <2>0, <3>1 DEF KeyRow
    <3> QED
      BY <2>3, <3>1, <3>2 DEF Revocable
  <2>4. ASSUME NEW c \in Callers, RecordUse(c) PROVE Checked
    <3>1. call[c].key \in KeyIds
      BY <1>1, <2>4, CallShapes DEF RecordUse, UseCall
    <3>2. \A k \in KeyIds : keys'[k].owner = keys[k].owner /\ keys'[k].revoked = keys[k].revoked
      BY <2>0, <2>4, <3>1, UseTouchesWindow
    <3> QED
      BY <3>2
  <2>5. ASSUME NEW c \in Callers, CreateTx(c) \/ CreateBatch(c) PROVE Checked
    <3>1. call[c] \in CreateCall /\ (call[c].pc = "createBatch" => call[c].key \in KeyIds)
      BY <1>1, <2>5, CallShapes DEF CreateTx, CreateBatch, Inv, CallsNameKeys
    <3> HIDE DEF Checked
    <3> QED
      BY <2>1, <2>2, <2>5, <3>1 DEF CreateTx, CreateBatch, CreateApplies
  <2>6. ASSUME NEW c \in Callers, RevokeTx(c) \/ RevokeBatch(c) PROVE Checked
    <3>1. call[c] \in RevokeCall
      BY <1>1, <2>6, CallShapes DEF RevokeTx, RevokeBatch
    <3> HIDE DEF Checked
    <3> QED
      BY <2>1, <2>3, <2>6, <3>1 DEF RevokeTx, RevokeBatch, RevokeApplies
  <2> HIDE DEF Checked
  <2> QED
    BY <1>1, <2>1, <2>4, <2>5, <2>6
    DEF Next, Step, CreateGate, CreateClassify, RevokeGate, CreateApiKey, RevokeApiKey,
        Authenticate, OpenList, SetStatus, ListApiKeys, CloseList, Tick, vars
<1> QED
  BY <1>1, SpecInv, PTL DEF Spec, WritesWhileActive
-----------------------------------------------------------------------------
(* The rate window.  A row counts the uses of its last window only, so the
   uses of all windows are bounded through the window's start: every window
   begins at least Window after the one before. *)
LEMMA Quotient ==
  ASSUME NEW a \in Nat, NEW w \in Nat \ {0}
  PROVE  (a \div w) \in Nat /\ w * (a \div w) <= a /\ a < w * ((a \div w) + 1)
PROOF OBVIOUS

LEMMA Cancel ==
  ASSUME NEW w \in Nat \ {0}, NEW p \in Nat, NEW q \in Nat, w * p < w * q
  PROVE  p < q
PROOF OBVIOUS

LEMMA Product ==
  ASSUME NEW m \in Nat, NEW p \in Nat, NEW q \in Nat, p <= q
  PROVE  m * p \in Nat /\ m * q \in Nat /\ m * p <= m * q
PROOF OBVIOUS

(* Uses admitted in the windows that began before the one holding time t. *)
Quota(t) == MaxRequests * ((t - 1) \div Window)

LEMMA QuotaType ==
  ASSUME NEW t \in Nat \ {0}
  PROVE  Quota(t) \in Nat /\ MaxRequests * ((t - 1) \div Window + 1) = Quota(t) + MaxRequests
PROOF
<1> DEFINE q == (t - 1) \div Window
<1>1. q \in Nat /\ MaxRequests \in Nat
  BY Quotient, ApiKeysAssumption
<1>2. Quota(t) = MaxRequests * q
  BY DEF Quota
<1> HIDE DEF q
<1>3. MaxRequests * q \in Nat /\ MaxRequests * (q + 1) = MaxRequests * q + MaxRequests
  BY <1>1, Product
<1> QED
  BY <1>2, <1>3 DEF q

LEMMA QuotaGrows ==
  ASSUME NEW s \in Nat \ {0}, NEW t \in Nat \ {0}, s <= t
  PROVE  /\ Quota(s) \in Nat /\ Quota(t) \in Nat /\ Quota(s) <= Quota(t)
         /\ s + Window <= t => Quota(s) + MaxRequests <= Quota(t)
PROOF
<1> DEFINE p == (s - 1) \div Window
           q == (t - 1) \div Window
<1>1. Window \in Nat \ {0} /\ MaxRequests \in Nat
  BY ApiKeysAssumption
<1>2. p \in Nat /\ q \in Nat /\ Window * p <= s - 1 /\ t - 1 < Window * (q + 1)
  BY <1>1, Quotient
<1>3. Quota(s) = MaxRequests * p /\ Quota(t) = MaxRequests * q
  BY DEF Quota
<1> HIDE DEF p, q
<1>4. p <= q
  <2>1. Window * p < Window * (q + 1)
    BY <1>1, <1>2
  <2> QED
    BY <2>1, <1>1, <1>2, Cancel
<1>5. ASSUME s + Window <= t PROVE p + 1 <= q
  <2>1. Window * (p + 1) = Window * p + Window
    BY <1>1, <1>2
  <2>2. Window * p \in Nat /\ Window * (q + 1) \in Nat
    BY <1>1, <1>2, Product
  <2>3. Window * (p + 1) < Window * (q + 1)
    BY <2>1, <2>2, <1>1, <1>2, <1>5
  <2> QED
    BY <2>3, <1>1, <1>2, Cancel
<1>6. MaxRequests * (p + 1) = MaxRequests * p + MaxRequests
  BY <1>1, <1>2
<1> QED
  BY <1>1, <1>2, <1>3, <1>4, <1>5, <1>6, Product

(* No reading lies in the future. *)
ReadingsPast == \A c \in Callers : call[c].pc = "use" => call[c].at <= now

(* The windows before a row's own admitted their limit at most, and its own
   what it counts. *)
Windows ==
  \A k \in KeyIds :
    /\ keys[k].start <= now
    /\ keys[k].start = 0 => used[k] = <<>>
    /\ keys[k].start # 0 => Len(used[k]) <= Quota(keys[k].start) + keys[k].count

RateInv == Inv /\ UseTimes /\ ReadingsPast /\ Windows

LEMMA TimeGoesOn ==
  ASSUME Inv, [Next]_vars
  PROVE  now \in Nat \ {0} /\ now' \in Nat /\ now <= now'
PROOF
<1>1. now' = now \/ now' = now + 1
  <2>1. ASSUME NEW c \in Callers, Step(c) PROVE now' = now
    BY <2>1 DEF Step, CreateTx, CreateGate, CreateBatch, CreateClassify, RevokeTx, RevokeGate,
                RevokeBatch, RecordUse
  <2>2. CASE \E c \in Callers, o \in Owners, i \in Idems : CreateApiKey(c, o, i)
    BY <2>2 DEF CreateApiKey
  <2>3. CASE \E c \in Callers, o \in Owners, i \in Idems, k \in KeyIds : RevokeApiKey(c, o, i, k)
    BY <2>3 DEF RevokeApiKey
  <2>4. CASE \E c \in Callers, k \in KeyIds : Authenticate(c, k)
    BY <2>4 DEF Authenticate
  <2>5. CASE (\E o \in Owners : OpenList(o) \/ SetStatus(o)) \/ ListApiKeys \/ CloseList
    BY <2>5 DEF OpenList, SetStatus, ListApiKeys, CloseList
  <2> QED
    BY <2>1, <2>2, <2>3, <2>4, <2>5 DEF Next, Tick, vars
<1>2. now \in Nat \ {0}
  BY DEF Inv, Typed, Times
<1> QED
  BY <1>1, <1>2

(* A request goes on to anything but a lookup, which is a request's first step. *)
LEMMA StepLooksNothingUp ==
  ASSUME Inv, NEW c \in Callers, Step(c)
  PROVE  \E x : x.pc # "use" /\ call' = [call EXCEPT ![c] = x]
PROOF
<1>1. call \in [Callers -> {Idle} \cup CreateCall \cup RevokeCall \cup UseCall]
  BY DEF Inv, Typed
<1>2. CASE End(c)
  BY <1>2 DEF End, Idle
<1>3. CASE call[c] \in CreateCall /\ RetryCredential(c)
  <2> DEFINE y == [call[c] EXCEPT !.attempt = call[c].attempt + 1,
                                  !.pc = IF Backend = "d1" THEN "createGate" ELSE call[c].pc]
             x == IF call[c].attempt < MaxAttempts THEN y ELSE Idle
  <2>1. y.pc \in {"createGate", call[c].pc} /\ call[c].pc # "use"
    BY <1>3 DEF CreateCall
  <2>2. call' = [call EXCEPT ![c] = x]
    BY <1>3 DEF RetryCredential
  <2> HIDE DEF y
  <2>3. x.pc # "use"
    BY <2>1 DEF Idle
  <2> QED
    BY <2>2, <2>3
<1>4. ASSUME NEW k, NEW pc \in {"createBatch", "createClassify"}, call[c] \in CreateCall,
             call' = [call EXCEPT ![c] = [call[c] EXCEPT !.pc = pc, !.key = k]]
      PROVE  \E x : x.pc # "use" /\ call' = [call EXCEPT ![c] = x]
  <2> DEFINE x == [call[c] EXCEPT !.pc = pc, !.key = k]
  <2>1. x.pc # "use"
    BY <1>4 DEF CreateCall
  <2> HIDE DEF x
  <2>2. call' = [call EXCEPT ![c] = x]
    BY <1>4 DEF x
  <2> QED
    BY <2>1, <2>2
<1>5. ASSUME NEW pc \in {"createClassify", "revokeBatch"}, call[c] \in CreateCall \cup RevokeCall,
             call' = [call EXCEPT ![c] = [call[c] EXCEPT !.pc = pc]]
      PROVE  \E x : x.pc # "use" /\ call' = [call EXCEPT ![c] = x]
  BY <1>5 DEF CreateCall, RevokeCall
<1>6. CASE CreateTx(c)
  <2>1. call[c] \in CreateCall
    BY <1>6, CallShapes DEF CreateTx
  <2> QED
    BY <1>2, <1>3, <1>6, <2>1 DEF CreateTx
<1>7. CASE CreateGate(c)
  <2>1. call[c] \in CreateCall
    BY <1>7, CallShapes DEF CreateGate
  <2>2. End(c) \/ \E k \in KeyIds :
           call' = [call EXCEPT ![c] = [call[c] EXCEPT !.pc = "createBatch", !.key = k]]
    BY <1>1, <1>7 DEF CreateGate
  <2> QED
    BY <1>2, <1>4, <2>1, <2>2
<1>8. CASE CreateBatch(c)
  <2>1. call[c] \in CreateCall
    BY <1>8, CallShapes DEF CreateBatch
  <2>2. End(c) \/ call' = [call EXCEPT ![c] = [call[c] EXCEPT !.pc = "createClassify"]]
    BY <1>1, <1>8 DEF CreateBatch
  <2> QED
    BY <1>2, <1>5, <2>1, <2>2
<1>9. CASE CreateClassify(c)
  <2>1. call[c] \in CreateCall
    BY <1>9, CallShapes DEF CreateClassify
  <2> QED
    BY <1>2, <1>3, <1>9, <2>1 DEF CreateClassify
<1>10. CASE RevokeGate(c)
  <2>1. call[c] \in RevokeCall
    BY <1>10, CallShapes DEF RevokeGate
  <2>2. End(c) \/ call' = [call EXCEPT ![c] = [call[c] EXCEPT !.pc = "revokeBatch"]]
    BY <1>1, <1>10 DEF RevokeGate
  <2> QED
    BY <1>2, <1>5, <2>1, <2>2
<1>11. CASE RevokeTx(c) \/ RevokeBatch(c) \/ RecordUse(c)
  BY <1>2, <1>11 DEF RevokeTx, RevokeBatch, RecordUse
<1> QED
  BY <1>6, <1>7, <1>8, <1>9, <1>10, <1>11 DEF Step

LEMMA ReadingsStay ==
  ASSUME Inv, ReadingsPast, [Next]_vars
  PROVE  ReadingsPast'
PROOF
<1>1. call \in [Callers -> {Idle} \cup CreateCall \cup RevokeCall \cup UseCall]
  BY DEF Inv, Typed
<1>2. \A c \in Callers : call[c].pc = "use" => call[c].at \in Nat
  BY CallShapes DEF UseCall, Times
<1>3. ASSUME NEW d \in Callers, call'[d].pc = "use"
      PROVE  call'[d] = call[d] \/ call'[d].at = now
  <2>1. ASSUME NEW c \in Callers, Step(c) PROVE call'[d] = call[d]
    <3>1. PICK x : x.pc # "use" /\ call' = [call EXCEPT ![c] = x]
      BY <2>1, StepLooksNothingUp
    <3> QED
      BY <1>1, <1>3, <3>1
  <2>2. CASE UNCHANGED call
    BY <2>2
  <2>3. ASSUME NEW c \in Callers, NEW o \in Owners, NEW i \in Idems, CreateApiKey(c, o, i)
        PROVE  call'[d] = call[d] \/ call'[d].at = now
    BY <1>1, <2>3 DEF CreateApiKey
  <2>4. ASSUME NEW c \in Callers, NEW o \in Owners, NEW i \in Idems, NEW k \in KeyIds,
               RevokeApiKey(c, o, i, k)
        PROVE  call'[d] = call[d] \/ call'[d].at = now
    BY <1>1, <2>4 DEF RevokeApiKey
  <2>5. ASSUME NEW c \in Callers, NEW k \in KeyIds, Authenticate(c, k)
        PROVE  call'[d] = call[d] \/ call'[d].at = now
    BY <1>1, <2>5 DEF Authenticate
  <2> QED
    BY <2>1, <2>2, <2>3, <2>4, <2>5
    DEF Next, OpenList, SetStatus, ListApiKeys, CloseList, Tick, vars
<1> QED
  BY <1>2, <1>3, TimeGoesOn DEF ReadingsPast

(* Steps other than the recording of a use leave every window as it is: a new
   row begins without one. *)
LEMMA WindowsStay ==
  ASSUME Inv, [Next]_vars, \A c \in Callers : ~RecordUse(c), NEW k \in KeyIds
  PROVE  keys'[k].start = keys[k].start /\ keys'[k].count = keys[k].count
PROOF
<1> DEFINE Stays == keys'[k].start = keys[k].start /\ keys'[k].count = keys[k].count
<1>0. keys \in [KeyIds -> KeyRow]
  BY DEF Inv, Typed
<1>1. UNCHANGED keys => Stays
  OBVIOUS
<1>2. ASSUME NEW x \in CreateCall, NEW j \in KeyIds, j \notin Existing, Insert(x, j)
      PROVE  Stays
  <2>1. keys[j] = NoKey /\ keys' = [keys EXCEPT ![j] = NewKey(x)]
    BY <1>2 DEF Existing, Insert
  <2>2. NewKey(x).start = NoKey.start /\ NewKey(x).count = NoKey.count
    BY DEF NewKey, NoKey
  <2> QED
    BY <1>0, <2>1, <2>2
<1>3. ASSUME NEW x \in RevokeCall, WriteRevocation(x) PROVE Stays
  <2>1. keys' = [keys EXCEPT ![x.key] = [keys[x.key] EXCEPT !.revoked = x.at]] /\ x.key \in KeyIds
    BY <1>3 DEF WriteRevocation, RevokeCall
  <2> QED
    BY <1>0, <2>1 DEF KeyRow
<1>4. ASSUME NEW c \in Callers, CreateTx(c) \/ CreateBatch(c) PROVE Stays
  <2>1. call[c] \in CreateCall /\ (call[c].pc = "createBatch" => call[c].key \in KeyIds)
    BY <1>4, CallShapes DEF CreateTx, CreateBatch, Inv, CallsNameKeys
  <2> HIDE DEF Stays
  <2> QED
    BY <1>1, <1>2, <1>4, <2>1 DEF CreateTx, CreateBatch, CreateApplies
<1>5. ASSUME NEW c \in Callers, RevokeTx(c) \/ RevokeBatch(c) PROVE Stays
  <2>1. call[c] \in RevokeCall
    BY <1>5, CallShapes DEF RevokeTx, RevokeBatch
  <2> HIDE DEF Stays
  <2> QED
    BY <1>1, <1>3, <1>5, <2>1 DEF RevokeTx, RevokeBatch
<1> HIDE DEF Stays
<1>6. Stays
  BY <1>1, <1>4, <1>5
  DEF Next, Step, CreateGate, CreateClassify, RevokeGate, CreateApiKey, RevokeApiKey,
      Authenticate, OpenList, SetStatus, ListApiKeys, CloseList, Tick, vars
<1> QED
  BY <1>6 DEF Stays

LEMMA UseCounted ==
  ASSUME RateInv, NEW c \in Callers, RecordUse(c)
  PROVE  Windows'
PROOF
<1> DEFINE x == call[c]
           row == keys[x.key]
<1>1. /\ x.key \in KeyIds /\ x.at \in Nat \ {0} /\ x.at <= now /\ now \in Nat /\ now' = now
      /\ row \in KeyRow /\ keys \in [KeyIds -> KeyRow] /\ used \in [KeyIds -> Seq(Nat)]
      /\ \A k \in KeyIds : used[k] \in Seq(Nat)
  BY CallShapes DEF RecordUse, RateInv, UseCall, Times, ReadingsPast, Inv, Typed, UseTimes
<1>2. CASE ~Admits(row, x.at)
  BY <1>1, <1>2 DEF RecordUse, RateInv, Windows
<1>3. CASE Admits(row, x.at)
  <2> DEFINE start == IF WindowOver(row, x.at) THEN x.at ELSE row.start
             count == IF WindowOver(row, x.at) THEN 1 ELSE row.count + 1
  <2>1. /\ keys' = [keys EXCEPT ![x.key] = [row EXCEPT !.start = start, !.count = count]]
        /\ used' = [used EXCEPT ![x.key] = Append(@, x.at)]
    BY <1>1, <1>3 DEF RecordUse, KeyRow
  <2>2. \A k \in KeyIds : k # x.key => keys'[k] = keys[k] /\ used'[k] = used[k]
    BY <2>1, <1>1
  <2>3. /\ keys'[x.key].start = start /\ keys'[x.key].count = count
        /\ Len(used'[x.key]) = Len(used[x.key]) + 1 /\ Len(used[x.key]) \in Nat
    <3> HIDE DEF start, count
    <3> QED
      BY <2>1, <1>1 DEF KeyRow
  <2>4. /\ row.start \in Nat /\ row.count \in 0..MaxRequests /\ MaxRequests \in Nat \ {0}
        /\ row.start <= now /\ (row.start = 0 => Len(used[x.key]) = 0)
        /\ row.start # 0 => Len(used[x.key]) <= Quota(row.start) + row.count
    <3>1. /\ row.start <= now /\ (row.start = 0 => used[x.key] = <<>>)
          /\ row.start # 0 => Len(used[x.key]) <= Quota(row.start) + row.count
      BY <1>1 DEF RateInv, Windows
    <3>2. row.start \in Nat /\ row.count \in 0..MaxRequests /\ MaxRequests \in Nat \ {0}
      BY <1>1, ApiKeysAssumption DEF KeyRow
    <3> QED
      BY <3>1, <3>2
  <2>5. start \in Nat \ {0} /\ start <= now /\ Len(used[x.key]) + 1 <= Quota(start) + count
    <3>1. CASE row.start = 0
      <4>1. Quota(x.at) \in Nat /\ start = x.at /\ count = 1
        <5>1. start = x.at /\ count = 1
          BY <3>1 DEF WindowOver
        <5> HIDE DEF start, count, row, x
        <5> QED
          BY <1>1, <5>1, QuotaType
      <4>2. Len(used[x.key]) = 0 /\ start \in Nat \ {0} /\ start <= now
        BY <4>1, <3>1, <2>4, <1>1
      <4> HIDE DEF start, count, row, x
      <4> QED
        BY <4>1, <4>2
    <3>2. CASE row.start # 0 /\ row.start + Window <= x.at
      <4>1. /\ Quota(row.start) \in Nat /\ Quota(x.at) \in Nat
            /\ Quota(row.start) + MaxRequests <= Quota(x.at)
        <5> HIDE DEF start, count, row, x
        <5>1. row.start \in Nat \ {0} /\ row.start <= x.at /\ Window \in Nat
          BY <1>1, <2>4, <3>2, ApiKeysAssumption
        <5> QED
          BY <1>1, <3>2, <5>1, QuotaGrows
      <4>2. start = x.at /\ count = 1
        BY <3>2 DEF WindowOver
      <4>3. /\ start \in Nat \ {0} /\ start <= now
            /\ row.count <= MaxRequests /\ row.count \in Nat /\ MaxRequests \in Nat
            /\ Len(used[x.key]) \in Nat /\ Len(used[x.key]) <= Quota(row.start) + row.count
        <5>1. start \in Nat \ {0} /\ start <= now
          BY <1>1, <4>2
        <5> QED
          BY <5>1, <3>2, <2>3, <2>4
      <4> HIDE DEF start, count, row, x
      <4>4. PICK m \in Nat : m = Quota(row.start)
        BY <4>1
      <4>5. PICK n \in Nat : n = Quota(start)
        BY <4>1, <4>2
      <4>6. m + MaxRequests <= n
        BY <4>1, <4>2, <4>4, <4>5
      <4>7. Len(used[x.key]) <= m + row.count
        BY <4>3, <4>4
      <4>8. Len(used[x.key]) + 1 <= n + count
        <5> HIDE DEF Quota
        <5> QED
          BY <4>2, <4>3, <4>6, <4>7
      <4> QED
        BY <4>3, <4>5, <4>8
    <3>3. CASE ~WindowOver(row, x.at)
      <4>1. start = row.start /\ count = row.count + 1 /\ row.start # 0 /\ Quota(row.start) \in Nat
        BY <3>3, <2>4, QuotaType DEF WindowOver
      <4> HIDE DEF start, count, row
      <4>2. PICK n \in Nat : n = Quota(row.start)
        BY <4>1
      <4>3. Quota(start) = n
        BY <4>1, <4>2
      <4>4. start \in Nat \ {0} /\ start <= now
        BY <4>1, <2>4
      <4>5. Len(used[x.key]) <= n + row.count
        BY <4>1, <4>2, <2>4
      <4>6. row.count \in Nat /\ count = row.count + 1 /\ Len(used[x.key]) \in Nat
        BY <4>1, <2>3, <2>4
      <4> QED
        BY <4>3, <4>4, <4>5, <4>6
    <3> QED
      BY <3>1, <3>2, <3>3 DEF WindowOver
  <2> HIDE DEF start, count
  <2> QED
    BY <1>1, <2>2, <2>3, <2>5 DEF RateInv, Windows
<1> QED
  BY <1>2, <1>3

(* A bearer key is used no more often than its limit times the windows that
   have begun, for every limit, window length and number of requests whose
   lookups and recordings interleave (authenticateApiKey, #recordUse). *)
THEOREM RateHolds == Spec => []RateBounded
PROOF
<1>1. Init => ReadingsPast /\ Windows
  BY DEF Init, ReadingsPast, Windows, Idle, NoKey
<1>2. RateInv /\ [Next]_vars => (ReadingsPast /\ Windows)'
  <2> SUFFICES ASSUME RateInv, [Next]_vars PROVE (ReadingsPast /\ Windows)'
    OBVIOUS
  <2>1. now \in Nat /\ now' \in Nat /\ now <= now' /\ ReadingsPast'
    BY ReadingsStay, TimeGoesOn DEF RateInv
  <2>2. CASE \A c \in Callers : ~RecordUse(c)
    <3>1. UNCHANGED used
      BY <2>2, OnlyRecordUse
    <3>2. \A k \in KeyIds : keys'[k].start = keys[k].start /\ keys'[k].count = keys[k].count
      BY <2>2, WindowsStay DEF RateInv
    <3>3. \A k \in KeyIds : keys[k].start \in Nat
      BY DEF RateInv, Inv, Typed, KeyRow
    <3> QED
      BY <2>1, <3>1, <3>2, <3>3 DEF RateInv, Windows, Quota
  <2> QED
    BY <2>1, <2>2, UseCounted
<1>3. RateInv => RateBounded
  <2> SUFFICES ASSUME RateInv, NEW k \in KeyIds
               PROVE  Len(used[k]) <= MaxRequests * ((now - 1) \div Window + 1)
    BY DEF RateBounded
  <2>1. /\ now \in Nat \ {0} /\ MaxRequests \in Nat \ {0} /\ keys[k].start \in Nat
        /\ keys[k].count \in 0..MaxRequests /\ used[k] \in Seq(Nat) /\ keys[k].start <= now
    BY ApiKeysAssumption DEF RateInv, Inv, Typed, Times, KeyRow, UseTimes, Windows
  <2>2. MaxRequests * ((now - 1) \div Window + 1) = Quota(now) + MaxRequests /\ Quota(now) \in Nat
    BY <2>1, QuotaType
  <2>3. /\ keys[k].start = 0 => used[k] = <<>>
        /\ keys[k].start # 0 => Len(used[k]) <= Quota(keys[k].start) + keys[k].count
    BY DEF RateInv, Windows
  <2>4. PICK n \in Nat : n = Quota(now)
    BY <2>2
  <2>5. Len(used[k]) <= n + MaxRequests
    <3>1. CASE keys[k].start = 0
      BY <2>1, <2>3, <3>1
    <3>2. CASE keys[k].start # 0
      <4>1. Quota(keys[k].start) \in Nat /\ Quota(keys[k].start) <= Quota(now)
        BY <2>1, <3>2, QuotaGrows
      <4>2. PICK m \in Nat : m = Quota(keys[k].start)
        BY <4>1
      <4>3. m <= n /\ Len(used[k]) <= m + keys[k].count
        BY <2>3, <2>4, <3>2, <4>1, <4>2
      <4>4. Len(used[k]) \in Nat /\ keys[k].count \in Nat /\ keys[k].count <= MaxRequests
        BY <2>1
      <4> QED
        BY <2>1, <4>3, <4>4
    <3> QED
      BY <3>1, <3>2
  <2> QED
    BY <2>2, <2>4, <2>5
<1> QED
  BY <1>1, <1>2, <1>3, SpecInv, UsesTyped, PTL DEF Spec, RateInv
-----------------------------------------------------------------------------
(* Listing.  The rows of a list are put in order by Before; ranks count the
   rows before a row, so the first PageLimit ranks are a page. *)
Rank(S, k) == Cardinality({j \in S : Before(j, k)})
FirstPage(S) == {k \in S : Rank(S, k) < PageLimit}

LEMMA BeforeOrders ==
  ASSUME Inv
  PROVE  /\ \A j \in KeyIds : ~Before(j, j)
         /\ \A i, j, k \in KeyIds : Before(i, j) /\ Before(j, k) => Before(i, k)
         /\ \A j, k \in KeyIds : j = k \/ Before(j, k) \/ Before(k, j)
PROOF
<1>1. \A k \in KeyIds : k \in Nat /\ keys[k].created \in Nat
  BY ApiKeysAssumption DEF Inv, Typed, KeyRow
<1> QED
  BY <1>1 DEF Before

(* Of a finite set of rows each has a rank of its own below their number, and
   a row before another has the lower one. *)
LEMMA RanksOrder ==
  ASSUME Inv, NEW S \in SUBSET KeyIds, IsFiniteSet(S)
  PROVE  /\ Cardinality(S) \in Nat
         /\ \A k \in S : Rank(S, k) \in 0..(Cardinality(S) - 1)
         /\ \A j, k \in S : Before(j, k) => Rank(S, j) < Rank(S, k)
         /\ \A j, k \in S : Rank(S, j) < Rank(S, k) => Before(j, k)
         /\ \A j, k \in S : Rank(S, j) = Rank(S, k) => j = k
PROOF
<1> DEFINE below(k) == {j \in S : Before(j, k)}
<1>0. Cardinality(S) \in Nat
  BY FS_CardinalityType
<1>1. \A k \in S : /\ IsFiniteSet(below(k)) /\ Cardinality(below(k)) \in Nat
                   /\ Cardinality(below(k)) < Cardinality(S)
  <2> TAKE k \in S
  <2>1. below(k) \in SUBSET S /\ k \notin below(k)
    BY BeforeOrders
  <2> HIDE DEF below
  <2>2. IsFiniteSet(below(k)) /\ Cardinality(below(k)) <= Cardinality(S)
        /\ Cardinality(S) # Cardinality(below(k))
    BY <2>1, FS_Subset
  <2> QED
    BY <1>0, <2>2, FS_CardinalityType
<1>2. \A j, k \in S : Before(j, k) => Cardinality(below(j)) < Cardinality(below(k))
  <2> SUFFICES ASSUME NEW j \in S, NEW k \in S, Before(j, k)
               PROVE  Cardinality(below(j)) < Cardinality(below(k))
    OBVIOUS
  <2>1. below(j) \in SUBSET below(k) /\ j \in below(k) /\ j \notin below(j)
    BY BeforeOrders
  <2>2. IsFiniteSet(below(k)) /\ Cardinality(below(j)) \in Nat /\ Cardinality(below(k)) \in Nat
    BY <1>1
  <2> HIDE DEF below
  <2> QED
    BY <2>1, <2>2, FS_Subset
<1>3. \A k \in S : Rank(S, k) = Cardinality(below(k))
  BY DEF Rank
<1> HIDE DEF below
<1>4. \A k \in S : Rank(S, k) \in 0..(Cardinality(S) - 1)
  BY <1>0, <1>1, <1>3
<1>5. \A j, k \in S : Before(j, k) => Rank(S, j) < Rank(S, k)
  BY <1>2, <1>3
<1>6. \A j, k \in S : j = k \/ Before(j, k) \/ Before(k, j)
  BY BeforeOrders
<1>7. \A j \in S : Rank(S, j) \in Int
  BY <1>0, <1>4
<1> QED
  BY <1>0, <1>4, <1>5, <1>6, <1>7

(* Injective into as many numbers as there are rows, the ranks are all of them. *)
LEMMA RanksFill ==
  ASSUME Inv, NEW S \in SUBSET KeyIds, IsFiniteSet(S)
  PROVE  \A n \in 0..(Cardinality(S) - 1) : \E k \in S : Rank(S, k) = n
PROOF
<1> DEFINE size == Cardinality(S)
           ranks == [k \in S |-> Rank(S, k)]
<1>1. /\ size \in Nat
      /\ \A k \in S : Rank(S, k) \in 0..(size - 1)
      /\ \A j, k \in S : Rank(S, j) = Rank(S, k) => j = k
  BY RanksOrder
<1>2. ranks \in Injection(S, 0..(size - 1))
  <2>1. ranks \in [S -> 0..(size - 1)] /\ \A j, k \in S : ranks[j] = ranks[k] => j = k
    BY <1>1
  <2> QED
    BY <2>1 DEF Injection, IsInjective
<1>3. IsFiniteSet(0..(size - 1)) /\ Cardinality(0..(size - 1)) = size
  BY <1>1, FS_Interval
<1>4. ranks \in Surjection(S, 0..(size - 1))
  <2> HIDE DEF ranks
  <2> QED
    BY <1>2, <1>3, FS_Injection
<1>5. \A n \in 0..(size - 1) : \E k \in S : ranks[k] = n
  <2> HIDE DEF ranks
  <2> QED
    BY <1>4 DEF Surjection
<1> QED
  BY <1>5

(* A page holds exactly the ranks below its length. *)
LEMMA PageRanks ==
  ASSUME Inv, NEW S \in SUBSET KeyIds, IsFiniteSet(S)
  PROVE  LET page == FirstPage(S)
         IN  /\ IsFiniteSet(page) /\ Cardinality(page) \in Nat
             /\ \A k \in page : Rank(S, k) + 1 \in 1..Cardinality(page)
             /\ \A n \in 1..Cardinality(page) : \E k \in page : Rank(S, k) = n - 1
PROOF
<1> DEFINE page == FirstPage(S)
           size == Cardinality(S)
           least == IF size < PageLimit THEN size ELSE PageLimit
           pageRanks == [k \in page |-> Rank(S, k)]
<1>0. PageLimit \in Nat \ {0} /\ size \in Nat /\ least \in Nat
  BY ApiKeysAssumption, FS_CardinalityType
<1>1. /\ \A k \in S : Rank(S, k) \in 0..(size - 1)
      /\ \A j, k \in S : Rank(S, j) = Rank(S, k) => j = k
  BY RanksOrder
<1>2. page \in SUBSET S
  BY DEF FirstPage
<1>3. IsFiniteSet(page) /\ Cardinality(page) \in Nat
  <2> HIDE DEF page
  <2> QED
    BY <1>2, FS_Subset, FS_CardinalityType
<1>4. \A n \in 0..(size - 1) : \E k \in S : Rank(S, k) = n
  BY RanksFill
<1>5. \A k \in page : Rank(S, k) \in 0..(least - 1)
  BY <1>0, <1>1 DEF FirstPage
<1>6. \A n \in 0..(least - 1) : \E k \in page : Rank(S, k) = n
  <2> TAKE n \in 0..(least - 1)
  <2>1. n \in 0..(size - 1) /\ n < PageLimit
    BY <1>0
  <2>2. PICK k \in S : Rank(S, k) = n
    BY <1>4, <2>1
  <2> QED
    BY <2>1, <2>2 DEF FirstPage
<1>7. Cardinality(page) = least
  <2>1. pageRanks \in Bijection(page, 0..(least - 1))
    <3> HIDE DEF page, least
    <3>1. pageRanks \in [page -> 0..(least - 1)]
      BY <1>5
    <3>2. \A j, k \in page : pageRanks[j] = pageRanks[k] => j = k
      BY <1>1, <1>2
    <3>3. \A n \in 0..(least - 1) : \E k \in page : pageRanks[k] = n
      BY <1>6
    <3> HIDE DEF pageRanks
    <3> QED
      BY <3>1, <3>2, <3>3 DEF Bijection, Injection, Surjection, IsInjective
  <2>2. ExistsBijection(page, 0..(least - 1))
    BY <2>1 DEF ExistsBijection
  <2> HIDE DEF page, least
  <2>3. Cardinality(0..(least - 1)) = Cardinality(page)
    BY <1>3, <2>2, FS_Bijection
  <2> QED
    BY <1>0, <2>3, FS_Interval
<1> HIDE DEF page, least
<1>8. \A k \in page : Rank(S, k) + 1 \in 1..Cardinality(page)
  BY <1>0, <1>5, <1>7
<1>9. \A n \in 1..Cardinality(page) : \E k \in page : Rank(S, k) = n - 1
  <2> TAKE n \in 1..Cardinality(page)
  <2>1. n - 1 \in 0..(least - 1)
    BY <1>0, <1>7
  <2> QED
    BY <1>6, <2>1
<1> QED
  BY <1>3, <1>8, <1>9 DEF page

(* What listApiKeys returns for a page: every row of it once; and the last one
   is after the others and before every row left for later pages. *)
Items(S) == [n \in 1..Cardinality(FirstPage(S)) |->
                CHOOSE k \in FirstPage(S) : Rank(S, k) = n - 1]
LastOf(page) == CHOOSE k \in page : \A j \in page : j = k \/ Before(j, k)

LEMMA ItemsList ==
  ASSUME Inv, NEW S \in SUBSET KeyIds, IsFiniteSet(S)
  PROVE  /\ Items(S) \in Seq(FirstPage(S))
         /\ \A k \in FirstPage(S) : \E n \in DOMAIN Items(S) : Items(S)[n] = k
         /\ \A m, n \in DOMAIN Items(S) : Items(S)[m] = Items(S)[n] => m = n
PROOF
<1> DEFINE page == FirstPage(S)
<1>1. /\ Cardinality(page) \in Nat
      /\ \A k \in page : Rank(S, k) + 1 \in 1..Cardinality(page)
      /\ \A n \in 1..Cardinality(page) : \E k \in page : Rank(S, k) = n - 1
  BY PageRanks
<1>2. page \subseteq S /\ \A k \in S : Rank(S, k) \in Int
  BY RanksOrder DEF FirstPage
<1>3. \A j, k \in S : Rank(S, j) = Rank(S, k) => j = k
  BY RanksOrder
<1>4. DOMAIN Items(S) = 1..Cardinality(page)
  BY DEF Items
<1>5. \A n \in 1..Cardinality(page) : Items(S)[n] \in page /\ Rank(S, Items(S)[n]) = n - 1
  BY <1>1 DEF Items
<1>6. Items(S) \in Seq(page)
  <2>1. Items(S) \in [1..Cardinality(page) -> page]
    BY <1>1 DEF Items
  <2> HIDE DEF page
  <2> QED
    BY <1>1, <2>1
<1> HIDE DEF page
<1>7. \A k \in page : \E n \in DOMAIN Items(S) : Items(S)[n] = k
  <2> TAKE k \in page
  <2> DEFINE n == Rank(S, k) + 1
  <2>1. n \in 1..Cardinality(page)
    BY <1>1
  <2>2. Items(S)[n] \in page /\ Rank(S, Items(S)[n]) = n - 1
    BY <1>5, <2>1
  <2>3. Rank(S, Items(S)[n]) = Rank(S, k)
    BY <2>2, <1>2
  <2>4. Items(S)[n] = k
    BY <2>2, <2>3, <1>2, <1>3
  <2> QED
    BY <2>1, <2>4, <1>4
<1>8. \A m, n \in DOMAIN Items(S) : Items(S)[m] = Items(S)[n] => m = n
  <2> TAKE m, n \in DOMAIN Items(S)
  <2> HAVE Items(S)[m] = Items(S)[n]
  <2>1. m \in Int /\ n \in Int /\ m - 1 = n - 1
    BY <1>1, <1>4, <1>5
  <2> QED
    BY <2>1
<1> QED
  BY <1>6, <1>7, <1>8 DEF page

LEMMA LastIsLast ==
  ASSUME Inv, NEW S \in SUBSET KeyIds, IsFiniteSet(S), S # {}
  PROVE  /\ LastOf(FirstPage(S)) \in FirstPage(S)
         /\ \A j \in FirstPage(S) : j = LastOf(FirstPage(S)) \/ Before(j, LastOf(FirstPage(S)))
         /\ \A k \in S \ FirstPage(S) : Before(LastOf(FirstPage(S)), k)
PROOF
<1> DEFINE page == FirstPage(S)
           size == Cardinality(page)
<1>1. /\ size \in Nat
      /\ \A k \in page : Rank(S, k) + 1 \in 1..size
      /\ \A n \in 1..size : \E k \in page : Rank(S, k) = n - 1
  BY PageRanks
<1>2. page \subseteq S /\ \A k \in S : Rank(S, k) \in Nat
  BY RanksOrder DEF FirstPage
<1>3. /\ \A j, k \in S : Rank(S, j) = Rank(S, k) => j = k
      /\ \A j, k \in S : Rank(S, j) < Rank(S, k) => Before(j, k)
  BY RanksOrder
<1>4. \A j \in page, k \in S \ page : Before(j, k)
  <2> TAKE j \in page, k \in S \ page
  <2>1. Rank(S, j) < PageLimit /\ ~(Rank(S, k) < PageLimit) /\ PageLimit \in Nat
    BY ApiKeysAssumption DEF FirstPage
  <2>2. Rank(S, j) \in Nat /\ Rank(S, k) \in Nat
    BY <1>2
  <2> QED
    BY <2>1, <2>2, <1>2, <1>3
<1>5. page # {}
  <2>1. Cardinality(S) \in Nat \ {0}
    BY FS_EmptySet, FS_CardinalityType
  <2>2. PICK k \in S : Rank(S, k) = 0
    BY <2>1, RanksFill
  <2> QED
    BY <2>2, ApiKeysAssumption DEF FirstPage
<1> HIDE DEF page, size
<1>6. \E k \in page : \A j \in page : j = k \/ Before(j, k)
  <2>1. size \in 1..size
    <3>1. PICK k \in page : TRUE
      BY <1>5
    <3> QED
      BY <3>1, <1>1
  <2>2. PICK k \in page : Rank(S, k) = size - 1
    BY <1>1, <2>1
  <2>3. ASSUME NEW j \in page PROVE j = k \/ Before(j, k)
    <3>1. Rank(S, j) + 1 \in 1..size /\ Rank(S, j) \in Nat
      BY <1>1, <1>2
    <3>2. Rank(S, j) = Rank(S, k) \/ Rank(S, j) < Rank(S, k)
      BY <3>1, <2>2, <1>1
    <3> QED
      BY <3>2, <1>2, <1>3
  <2> QED
    BY <2>3
<1>7. LastOf(page) \in page /\ \A j \in page : j = LastOf(page) \/ Before(j, LastOf(page))
  BY <1>6 DEF LastOf
<1> QED
  BY <1>4, <1>7 DEF page

-----------------------------------------------------------------------------
(* One client's walk.  Rows keep their owner and creation time, so the rows
   seen stay before the cursor, and a row of the start that was not seen yet is
   still after it. *)
Walks == [pc : {"page", "done"}, owner : Owners, cursor : KeyIds \cup {0},
          seen : Seq(KeyIds), start : SUBSET KeyIds]
OwnRows(o) == {k \in KeyIds : keys[k].owner = o}

Walk ==
  /\ pager \in {Idle} \cup Walks
  /\ pager \in Walks =>
       /\ pager.start \subseteq OwnRows(pager.owner)
       /\ pager.cursor = 0 => pager.seen = <<>>
       /\ pager.cursor # 0 => pager.cursor \in OwnRows(pager.owner)
       /\ \A n \in DOMAIN pager.seen :
            /\ pager.seen[n] \in OwnRows(pager.owner)
            /\ pager.seen[n] = pager.cursor \/ Before(pager.seen[n], pager.cursor)
       /\ \A m, n \in DOMAIN pager.seen : pager.seen[m] = pager.seen[n] => m = n
       /\ \A k \in pager.start :
            \/ \E n \in DOMAIN pager.seen : pager.seen[n] = k
            \/ pager.pc = "page" /\ After(k, pager.cursor)

ListInv == Inv /\ IsFiniteSet(Existing) /\ Walk

(* A step adds at most one row and keeps every other's place in the list. *)
LEMMA RowsStay ==
  ASSUME Inv, [Next]_vars
  PROVE  /\ \A k \in KeyIds : keys[k].owner \in Owners =>
               keys'[k].owner = keys[k].owner /\ keys'[k].created = keys[k].created
         /\ \E j : Existing' \subseteq Existing \cup {j}
PROOF
<1> DEFINE Stays == \A k \in KeyIds : keys[k].owner \in Owners =>
                       keys'[k].owner = keys[k].owner /\ keys'[k].created = keys[k].created
           Grows == \E j : Existing' \subseteq Existing \cup {j}
<1>0. keys \in [KeyIds -> KeyRow] /\ \A k \in KeyIds : k \in Existing <=> keys[k].owner \in Owners
  BY FreeId DEF Inv, Typed
<1>1. UNCHANGED keys => Stays /\ Grows
  BY DEF Existing
<1>2. ASSUME NEW x, NEW j \in KeyIds, j \notin Existing, Insert(x, j)
      PROVE  Stays /\ Grows
  <2>1. keys' = [keys EXCEPT ![j] = NewKey(x)] /\ keys[j].owner \notin Owners
    BY <1>0, <1>2 DEF Insert
  <2>2. \A k \in KeyIds : k # j => keys'[k] = keys[k]
    BY <1>0, <2>1
  <2>3. Existing' \subseteq Existing \cup {j}
    BY <2>2 DEF Existing
  <2> QED
    BY <2>1, <2>2, <2>3
<1>3. ASSUME NEW k \in KeyIds, k \in Existing, NEW row,
             row.owner = keys[k].owner, row.created = keys[k].created,
             keys' = [keys EXCEPT ![k] = row]
      PROVE  Stays /\ Grows
  <2>1. keys'[k] = row /\ \A j \in KeyIds : j # k => keys'[j] = keys[j]
    BY <1>0, <1>3
  <2>2. Existing' \subseteq Existing \cup {k}
    BY <2>1 DEF Existing
  <2>3. Stays
    BY <1>3, <2>1
  <2> QED
    BY <2>2, <2>3
<1>4. ASSUME NEW x \in RevokeCall, Revocable(x), WriteRevocation(x) PROVE Stays /\ Grows
  <2> DEFINE row == [keys[x.key] EXCEPT !.revoked = x.at]
  <2>1. x.key \in KeyIds /\ x.key \in Existing /\ keys[x.key] \in KeyRow
    BY <1>0, <1>4 DEF RevokeCall, Revocable
  <2>2. keys' = [keys EXCEPT ![x.key] = row]
    BY <1>4 DEF WriteRevocation
  <2>3. row.owner = keys[x.key].owner /\ row.created = keys[x.key].created
    BY <2>1 DEF KeyRow
  <2> HIDE DEF row, Stays, Grows
  <2> QED
    BY <1>3, <2>1, <2>2, <2>3
<1>5. ASSUME NEW c \in Callers, RecordUse(c) PROVE Stays /\ Grows
  <2>1. call[c].key \in KeyIds
    BY <1>5, CallShapes DEF RecordUse, UseCall
  <2>2. \A k \in KeyIds : /\ keys'[k].owner = keys[k].owner /\ keys'[k].created = keys[k].created
                          /\ k # call[c].key => keys'[k] = keys[k]
    BY <1>0, <1>5, <2>1, UseTouchesWindow
  <2>3. Existing' \subseteq Existing \cup {call[c].key}
    BY <2>2 DEF Existing
  <2> QED
    BY <2>2, <2>3
<1> HIDE DEF Stays, Grows
<1>6. ASSUME NEW c \in Callers, CreateTx(c) \/ CreateBatch(c) PROVE Stays /\ Grows
  <2>1. call[c] \in CreateCall /\ (call[c].pc = "createBatch" => call[c].key \in KeyIds)
    BY <1>6, CallShapes DEF CreateTx, CreateBatch, Inv, CallsNameKeys
  <2> QED
    BY <1>1, <1>2, <1>6, <2>1 DEF CreateTx, CreateBatch, CreateApplies
<1>7. ASSUME NEW c \in Callers, RevokeTx(c) \/ RevokeBatch(c) PROVE Stays /\ Grows
  <2>1. call[c] \in RevokeCall
    BY <1>7, CallShapes DEF RevokeTx, RevokeBatch
  <2> QED
    BY <1>1, <1>4, <1>7, <2>1 DEF RevokeTx, RevokeBatch, RevokeApplies
<1>8. Stays /\ Grows
  BY <1>1, <1>5, <1>6, <1>7
  DEF Next, Step, CreateGate, CreateClassify, RevokeGate, CreateApiKey, RevokeApiKey,
      Authenticate, OpenList, SetStatus, ListApiKeys, CloseList, Tick, vars
<1> QED
  BY <1>8 DEF Stays, Grows

(* Steps other than the pager's own leave a walk as it is. *)
LEMMA WalkStays ==
  ASSUME ListInv, [Next]_vars, UNCHANGED pager
  PROVE  Walk'
PROOF
<1>1. \A k \in KeyIds : keys[k].owner \in Owners =>
           keys'[k].owner = keys[k].owner /\ keys'[k].created = keys[k].created
  BY RowsStay DEF ListInv
<1>2. CASE pager \notin Walks
  BY <1>2 DEF ListInv, Walk, Walks
<1>3. CASE pager \in Walks
  <2> DEFINE rows == OwnRows(pager.owner)
  <2>1. pager.owner \in Owners
    BY <1>3 DEF Walks
  <2>2. /\ pager.start \subseteq rows
        /\ pager.cursor = 0 => pager.seen = <<>>
        /\ pager.cursor # 0 => pager.cursor \in rows
        /\ \A n \in DOMAIN pager.seen :
             /\ pager.seen[n] \in rows
             /\ pager.seen[n] = pager.cursor \/ Before(pager.seen[n], pager.cursor)
        /\ \A m, n \in DOMAIN pager.seen : pager.seen[m] = pager.seen[n] => m = n
        /\ \A k \in pager.start :
             \/ \E n \in DOMAIN pager.seen : pager.seen[n] = k
             \/ pager.pc = "page" /\ After(k, pager.cursor)
    BY <1>3 DEF ListInv, Walk
  <2>3. rows \subseteq rows' /\ \A k \in rows : keys'[k].created = keys[k].created
    BY <1>1, <2>1 DEF OwnRows
  <2>4. \A j, k \in rows : Before(j, k) => Before(j, k)'
    BY <2>3 DEF Before
  <2>5. pager.seen # <<>> => pager.cursor \in rows
    BY <2>2
  <2>6. \A n \in DOMAIN pager.seen : pager.cursor \in rows
    <3> TAKE n \in DOMAIN pager.seen
    <3>1. pager.seen # <<>>
      OBVIOUS
    <3> QED
      BY <3>1, <2>5
  <2>7. \A k \in pager.start : After(k, pager.cursor) => After(k, pager.cursor)'
    BY <2>2, <2>4 DEF After
  <2> HIDE DEF rows
  <2>8. \A n \in DOMAIN pager.seen :
             /\ pager.seen[n] \in rows'
             /\ pager.seen[n] = pager.cursor \/ Before(pager.seen[n], pager.cursor)'
    BY <2>2, <2>3, <2>4, <2>6
  <2>9. /\ pager.start \subseteq rows'
        /\ pager.cursor # 0 => pager.cursor \in rows'
    BY <2>2, <2>3
  <2>10. \A k \in pager.start :
             \/ \E n \in DOMAIN pager.seen : pager.seen[n] = k
             \/ pager.pc = "page" /\ After(k, pager.cursor)'
    BY <2>2, <2>7
  <2>11. pager' = pager /\ Walks' = Walks
    BY DEF Walks
  <2> QED
    BY <2>2, <2>8, <2>9, <2>10, <2>11, <1>3 DEF Walk, rows
<1> QED
  BY <1>2, <1>3

(* The rows a page is taken from. *)
Rest == {k \in Existing : keys[k].owner = pager.owner /\ After(k, pager.cursor)}

(* listApiKeys, in terms of the operators above. *)
LEMMA PageRead ==
  ASSUME ListApiKeys, Active(pager.owner)
  PROVE  pager' = [pager EXCEPT
                     !.seen = pager.seen \o Items(Rest),
                     !.cursor = IF FirstPage(Rest) = {} THEN pager.cursor ELSE LastOf(FirstPage(Rest)),
                     !.pc = IF FirstPage(Rest) = Rest THEN "done" ELSE "page"]
PROOF BY Zenon DEF ListApiKeys, Rest, Items, LastOf, FirstPage, Rank

(* A page appends rows after the cursor, each once; the rows of the start it
   leaves are after the new cursor, and there are none when the walk is done. *)
LEMMA PageKeepsWalk ==
  ASSUME ListInv, ListApiKeys, pager \in Walks, Active(pager.owner)
  PROVE  Walk'
PROOF
<1> DEFINE page == FirstPage(Rest)
           items == Items(Rest)
           old == pager.seen
           cursor == IF page = {} THEN pager.cursor ELSE LastOf(page)
           rows == OwnRows(pager.owner)
<1>0. /\ Inv /\ IsFiniteSet(Existing) /\ UNCHANGED keys /\ pager.owner \in Owners
      /\ old \in Seq(KeyIds) /\ pager.start \subseteq KeyIds
  BY DEF ListInv, ListApiKeys, Walks
<1>1. /\ pager.start \subseteq rows
      /\ pager.cursor = 0 => old = <<>>
      /\ pager.cursor # 0 => pager.cursor \in rows
      /\ \A n \in DOMAIN old :
           /\ old[n] \in rows
           /\ old[n] = pager.cursor \/ Before(old[n], pager.cursor)
      /\ \A m, n \in DOMAIN old : old[m] = old[n] => m = n
      /\ \A k \in pager.start :
           \/ \E n \in DOMAIN old : old[n] = k
           \/ pager.pc = "page" /\ After(k, pager.cursor)
  BY DEF ListInv, Walk
<1>2. Rest \in SUBSET KeyIds /\ IsFiniteSet(Rest) /\ Rest \in SUBSET Existing
  <2>1. Rest \in SUBSET Existing /\ Existing \in SUBSET KeyIds
    BY DEF Rest, Existing
  <2> QED
    BY <1>0, <2>1, FS_Subset
<1>3. page \in SUBSET Rest
  BY DEF FirstPage
<1>4. /\ \A k \in rows : k \in KeyIds /\ k \in Existing
      /\ \A k \in Rest : k \in rows /\ After(k, pager.cursor)
      /\ \A k \in rows : After(k, pager.cursor) => k \in Rest
  BY <1>0, FreeId DEF OwnRows, Rest, Inv, Existing
<1>5. /\ items \in Seq(page)
      /\ \A k \in page : \E n \in DOMAIN items : items[n] = k
      /\ \A m, n \in DOMAIN items : items[m] = items[n] => m = n
  BY <1>0, <1>2, ItemsList
<1>6. Rest # {} => /\ LastOf(page) \in page
                   /\ \A j \in page : j = LastOf(page) \/ Before(j, LastOf(page))
                   /\ \A k \in Rest \ page : Before(LastOf(page), k)
  BY <1>0, <1>2, LastIsLast
<1>7. /\ pager' = [pager EXCEPT !.seen = old \o items, !.cursor = cursor,
                                !.pc = IF page = Rest THEN "done" ELSE "page"]
  BY PageRead
<1>8. /\ \A j \in KeyIds : ~Before(j, j)
      /\ \A i, j, k \in KeyIds : Before(i, j) /\ Before(j, k) => Before(i, k)
  BY <1>0, BeforeOrders
<1>9. 0 \notin KeyIds
  BY ApiKeysAssumption
<1> HIDE DEF page, items, rows
<1>10. \A n \in DOMAIN old, k \in page : Before(old[n], k)
  <2> TAKE n \in DOMAIN old, k \in page
  <2>1. pager.cursor # 0
    BY <1>1
  <2>2. Before(pager.cursor, k) /\ pager.cursor \in KeyIds /\ k \in KeyIds /\ old[n] \in KeyIds
    BY <2>1, <1>1, <1>2, <1>3, <1>4 DEF After
  <2> QED
    BY <2>2, <1>1, <1>8
<1>11. /\ cursor = 0 => pager.cursor = 0 /\ page = {}
       /\ cursor # 0 => cursor \in rows
       /\ \A k \in page : k = cursor \/ Before(k, cursor)
       /\ \A n \in DOMAIN old : old[n] = cursor \/ Before(old[n], cursor)
       /\ page # Rest => \A k \in Rest \ page : After(k, cursor)
  <2>1. CASE Rest = {}
    BY <2>1, <1>1, <1>3
  <2>2. CASE Rest # {}
    <3>1. LastOf(page) \in page /\ cursor = LastOf(page) /\ cursor \in KeyIds /\ cursor # 0
      BY <2>2, <1>2, <1>3, <1>6, <1>9
    <3> QED
      BY <2>2, <3>1, <1>3, <1>4, <1>6, <1>10 DEF After
  <2> QED
    BY <2>1, <2>2
<1> DEFINE seen == old \o items
<1>12. /\ seen \in Seq(KeyIds) /\ DOMAIN seen = 1..(Len(old) + Len(items))
       /\ Len(old) \in Nat /\ Len(items) \in Nat
       /\ DOMAIN old = 1..Len(old) /\ DOMAIN items = 1..Len(items)
       /\ \A n \in 1..Len(old) : seen[n] = old[n]
       /\ \A n \in 1..Len(items) : seen[Len(old) + n] = items[n]
  <2>1. items \in Seq(KeyIds)
    BY <1>2, <1>3, <1>5
  <2> QED
    BY <1>0, <2>1
<1>13. \A n \in DOMAIN seen :
          \/ n \in DOMAIN old /\ seen[n] = old[n]
          \/ n \notin DOMAIN old /\ n - Len(old) \in DOMAIN items /\ seen[n] = items[n - Len(old)]
  <2> HIDE DEF old, seen
  <2> TAKE n \in DOMAIN seen
  <2>1. CASE n <= Len(old)
    BY <2>1, <1>12
  <2>2. CASE ~(n <= Len(old))
    <3> DEFINE m == n - Len(old)
    <3>1. m \in 1..Len(items) /\ n = Len(old) + m /\ n \notin DOMAIN old
      BY <2>2, <1>12
    <3> HIDE DEF m
    <3>2. seen[n] = items[m] /\ m \in DOMAIN items
      BY <3>1, <1>12
    <3> QED
      BY <3>1, <3>2 DEF m
  <2> QED
    BY <2>1, <2>2
<1>14. /\ \A n \in DOMAIN old : n \in DOMAIN seen /\ seen[n] = old[n]
       /\ \A n \in DOMAIN items : Len(old) + n \in DOMAIN seen /\ seen[Len(old) + n] = items[n]
  <2> HIDE DEF old, seen
  <2> QED
    BY <1>12
<1>15. \A n \in DOMAIN items : items[n] \in page
  BY <1>5
<1> HIDE DEF old, seen, cursor
<1>16. \A n \in DOMAIN seen : seen[n] \in rows /\ (seen[n] = cursor \/ Before(seen[n], cursor))
  BY <1>1, <1>3, <1>4, <1>11, <1>13, <1>15
<1>17. \A m, n \in DOMAIN seen : seen[m] = seen[n] => m = n
  <2> SUFFICES ASSUME NEW m \in DOMAIN seen, NEW n \in DOMAIN seen, seen[m] = seen[n]
               PROVE  m = n
    OBVIOUS
  <2>0. seen[m] \in KeyIds /\ m \in Int /\ n \in Int /\ Len(old) \in Int
    BY <1>4, <1>12, <1>16
  <2>1. CASE m \in DOMAIN old /\ n \in DOMAIN old
    BY <2>1, <1>1, <1>14
  <2>2. CASE m \notin DOMAIN old /\ n \notin DOMAIN old
    <3>1. /\ m - Len(old) \in DOMAIN items /\ n - Len(old) \in DOMAIN items
          /\ items[m - Len(old)] = items[n - Len(old)]
      BY <2>2, <1>13
    <3>2. m - Len(old) = n - Len(old)
      BY <3>1, <1>5
    <3> QED
      BY <3>2, <2>0
  <2>3. CASE m \in DOMAIN old /\ n \notin DOMAIN old
    BY <2>0, <2>3, <1>8, <1>10, <1>13, <1>15
  <2>4. CASE m \notin DOMAIN old /\ n \in DOMAIN old
    BY <2>0, <2>4, <1>8, <1>10, <1>13, <1>15
  <2> QED
    BY <2>1, <2>2, <2>3, <2>4
<1>18. \A k \in pager.start : \/ \E n \in DOMAIN seen : seen[n] = k
                              \/ page # Rest /\ After(k, cursor)
  <2> TAKE k \in pager.start
  <2>1. CASE \E n \in DOMAIN old : old[n] = k
    BY <2>1, <1>14
  <2>2. CASE k \in page
    BY <2>2, <1>5, <1>14
  <2>3. CASE After(k, pager.cursor) /\ k \notin page
    BY <2>3, <1>1, <1>4, <1>11
  <2> QED
    BY <2>1, <2>2, <2>3, <1>1
<1>19. /\ pager' \in Walks /\ pager'.start = pager.start /\ pager'.owner = pager.owner
       /\ pager'.seen = seen /\ pager'.cursor = cursor
       /\ pager'.pc = IF page = Rest THEN "done" ELSE "page"
  <2>1. cursor \in KeyIds \cup {0} /\ seen \in Seq(KeyIds)
    BY <1>4, <1>11, <1>12
  <2>2. pager' = [pager EXCEPT !.seen = seen, !.cursor = cursor,
                               !.pc = IF page = Rest THEN "done" ELSE "page"]
    BY <1>7 DEF seen
  <2> QED
    BY <2>1, <2>2 DEF Walks
<1>20. cursor = 0 => seen = <<>>
  <2> SUFFICES ASSUME cursor = 0 PROVE seen = <<>>
    OBVIOUS
  <2>1. old = <<>> /\ page = {}
    BY <1>1, <1>11
  <2>2. items = <<>>
    BY <2>1, <1>5
  <2> QED
    BY <2>1, <2>2 DEF seen
<1> HIDE DEF seen
<1>21. Walks' = Walks /\ \A k \in pager'.start : k \in rows
  BY <1>1, <1>19 DEF Walks
<1> QED
  BY <1>0, <1>11, <1>16, <1>17, <1>18, <1>19, <1>20, <1>21
  DEF Walk, OwnRows, Before, After, rows

LEMMA OpenWalks ==
  ASSUME Inv, NEW o \in Owners, OpenList(o)
  PROVE  Walk'
PROOF
<1>1. pager' = [pc |-> "page", owner |-> o, cursor |-> 0, seen |-> <<>>,
                start |-> {k \in Existing : keys[k].owner = o}]
  BY DEF OpenList
<1>2. pager' \in Walks
  BY <1>1 DEF Walks, Existing
<1>3. /\ pager'.cursor = 0 /\ pager'.seen = <<>> /\ pager'.pc = "page" /\ pager'.owner = o
      /\ \A k \in pager'.start : k \in KeyIds /\ keys'[k].owner = o
  BY <1>1 DEF OpenList, Existing
<1>4. \A k : After(k, 0)'
  BY DEF After
<1> QED
  BY <1>2, <1>3, <1>4 DEF Walk, Walks, OwnRows, After

(* A client that walks its owner's keys to the end has seen each key that was
   there when it began, and none twice, whatever is created, revoked or used
   between two pages, for every page size and any number of keys that share a
   creation time (listApiKeys and its cursor). *)
THEOREM ListsComplete == Spec => []PagesComplete
PROOF
<1>1. Init => ListInv
  <2> SUFFICES ASSUME Init PROVE ListInv
    OBVIOUS
  <2>1. Existing = {}
    BY DEF Init, Existing
  <2>2. Walk
    BY DEF Init, Walk, Walks, Idle
  <2> QED
    BY <2>1, <2>2, InitInv, FS_EmptySet DEF ListInv
<1>2. ListInv /\ [Next]_vars => ListInv'
  <2> SUFFICES ASSUME ListInv, [Next]_vars PROVE ListInv'
    OBVIOUS
  <2>1. Inv'
    BY StepInv DEF ListInv
  <2>2. IsFiniteSet(Existing')
    <3>1. PICK j : Existing' \subseteq Existing \cup {j}
      BY RowsStay DEF ListInv
    <3>2. IsFiniteSet(Existing)
      BY DEF ListInv
    <3>3. IsFiniteSet(Existing \cup {j})
      BY <3>2, FS_AddElement
    <3>4. Existing' \in SUBSET (Existing \cup {j})
      BY <3>1, ZenonT(60)
    <3> QED
      BY <3>3, <3>4, FS_Subset
  <2>3. Walk'
    <3>1. CASE UNCHANGED pager
      BY <3>1, WalkStays
    <3>2. CASE pager' = Idle
      BY <3>2 DEF Walk, Walks, Idle
    <3>3. ASSUME NEW o \in Owners, OpenList(o) PROVE Walk'
      BY <3>3, OpenWalks DEF ListInv
    <3>4. CASE ListApiKeys
      <4>1. pager \in Walks
        BY <3>4 DEF ListApiKeys, ListInv, Walk, Idle
      <4> QED
        BY <3>2, <3>4, <4>1, PageKeepsWalk DEF ListApiKeys
    <3> QED
      BY <3>1, <3>2, <3>3, <3>4
      DEF Next, Step, CreateTx, CreateGate, CreateBatch, CreateClassify, RevokeTx, RevokeGate,
          RevokeBatch, RecordUse, CreateApiKey, RevokeApiKey, Authenticate, SetStatus,
          CloseList, Tick, vars
  <2> QED
    BY <2>1, <2>2, <2>3 DEF ListInv
<1>3. ListInv => PagesComplete
  BY DEF ListInv, Walk, Walks, PagesComplete, Idle
<1> QED
  BY <1>1, <1>2, <1>3, PTL DEF Spec

=============================================================================
