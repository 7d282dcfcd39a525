--------------------------- MODULE Accounts_proofs ---------------------------
(* Proofs about Accounts, for any number of calls in progress, codes and addresses. *)
EXTENDS Accounts, FiniteSetTheorems, TLAPS

CallType == [op : {"none", "register", "resend", "verify"}, pc : Progress,
             code : Codes \cup {None}, address : Addresses \cup {None}]

(* The steps of each operation. *)
Registering == {"find", "create", "otp", "sms", "unlock"}
Verifying == {"expire", "get", "delete otp", "delete attempts", "activate", "find wallet",
              "save wallet", "set address"}

(* Steps that are reached only when there is an account. *)
WithAccount == {"otp", "sms", "delete otp", "delete attempts", "activate", "find wallet",
                "save wallet", "set address"}

(* What a call in progress knows: its operation by its step, that there is an account, and
   from the wallet's creation the address it drew, which it has saved by the last step. *)
CallKnows(c) ==
    /\ call[c].pc \in {"find", "create", "unlock"} => call[c].op = "register"
    /\ call[c].pc \in {"otp", "sms"} => call[c].op \in {"register", "resend"}
    /\ call[c].pc \in Verifying => call[c].op = "verify"
    /\ call[c].op = "register" => call[c].pc \in Registering
    /\ call[c].pc \in WithAccount => user # "ABSENT"
    /\ call[c].pc = "save wallet" => call[c].address # None
    /\ call[c].pc = "set address" => call[c].address # None /\ wallet = call[c].address

(* As long as the lock has not expired under a registration, there is one at a time, and
   the lock is set while there is. *)
OneRegistration ==
    ~lapsed => /\ \A c \in Slots : call[c].op = "register" => lock
               /\ \A c, d \in Slots :
                     call[c].op = "register" /\ call[d].op = "register" => c = d

CodeOfAccount == otp # None => user # "ABSENT"

AccountInv ==
    /\ TypeOK
    /\ \A c \in Slots : CallKnows(c)
    /\ CodeOfAccount
    /\ OneRegistration
    /\ LockGuardsPhone
    /\ AddressMatches
    /\ AttemptsExpire

LEMMA AccountInit == Init => AccountInv
<1> SUFFICES ASSUME Init PROVE AccountInv
  OBVIOUS
<1> USE AccountsAssumption DEF Init, NoCall, At
<1>1. TypeOK
  <2>1. call \in [Slots -> CallType]
    BY DEF CallType, Progress
  <2>2. /\ tries \in [made : Nat, behind : BOOLEAN] /\ faults \in 0..MaxFaults
        /\ attempts \in 0..4 /\ outbox \in [Codes -> Nat]
    OBVIOUS
  <2> QED
    BY <2>1, <2>2 DEF TypeOK, CallType
<1>2. \A c \in Slots : CallKnows(c)
  BY DEF CallKnows, Registering, Verifying, WithAccount
<1>3. CodeOfAccount /\ OneRegistration /\ LockGuardsPhone
  BY DEF CodeOfAccount, OneRegistration, LockGuardsPhone
<1>4. AddressMatches /\ AttemptsExpire
  BY DEF AddressMatches, AttemptsExpire
<1> QED
  BY <1>1, <1>2, <1>3, <1>4 DEF AccountInv

(* A call moves from what it was to h: the others stay as they are, so that only what h
   knows is to be shown, and what the rest has to do with the other variables. *)
LEMMA CallMoves ==
    ASSUME AccountInv, NEW c \in Slots, NEW h \in CallType, call' = [call EXCEPT ![c] = h]
    PROVE  /\ call' \in [Slots -> CallType] /\ call'[c] = h
           /\ \A d \in Slots : d # c => call'[d] = call[d]
<1>1. call \in [Slots -> CallType]
  BY DEF AccountInv, TypeOK, CallType
<1> QED
  BY <1>1

(* Steps after which nothing but the call, the codes sent and the faults has changed. *)
LEMMA CallOnly ==
    ASSUME AccountInv, NEW c \in Slots, NEW h \in CallType, call' = [call EXCEPT ![c] = h],
           UNCHANGED <<account, lapsed, otp, counter>>,
           lock' \in BOOLEAN, lock => lock' \/ call[c].op = "register",
           sms' \in Codes \cup {None}, outbox' \in [Codes -> Nat], crossed' \in BOOLEAN,
           faults' \in 0..MaxFaults, faults' = 0 => faults = 0,
           tries' \in [made : Nat, behind : BOOLEAN],
           h.op = "register" => call[c].op = "register" /\ (lock => lock'),
           h.pc \in {"find", "create", "unlock"} => h.op = "register",
           h.pc \in {"otp", "sms"} => h.op \in {"register", "resend"},
           h.pc \in Verifying => h.op = "verify",
           h.op = "register" => h.pc \in Registering,
           h.pc \in WithAccount => user # "ABSENT",
           h.pc = "create" => user = "ABSENT",
           h.pc = "save wallet" => h.address # None,
           h.pc # "set address",
           call[c].pc = "expire" => faults' # 0
    PROVE  AccountInv'
<1>1. /\ TypeOK /\ CodeOfAccount /\ OneRegistration /\ LockGuardsPhone /\ AddressMatches
      /\ AttemptsExpire /\ \A d \in Slots : CallKnows(d)
  BY DEF AccountInv
<1>2. /\ call' \in [Slots -> CallType] /\ call'[c] = h
      /\ \A d \in Slots : d # c => call'[d] = call[d]
  BY CallMoves
<1>3. TypeOK'
  <2>1. /\ user' = user /\ address' = address /\ wallet' = wallet /\ lapsed' = lapsed
        /\ otp' = otp /\ attempts' = attempts /\ ttl' = ttl
    BY DEF account, counter
  <2>2. /\ user' \in {"ABSENT", "PENDING", "ACTIVE"}
        /\ {address', wallet'} \subseteq Addresses \cup {None}
        /\ {lock', lapsed', crossed', ttl'} \subseteq BOOLEAN
        /\ {otp', sms'} \subseteq Codes \cup {None}
        /\ attempts' \in 0..4 /\ outbox' \in [Codes -> Nat]
    BY <1>1, <2>1 DEF TypeOK
  <2> QED
    BY <1>2, <2>2 DEF TypeOK, CallType
<1>4. \A d \in Slots : CallKnows(d)'
  BY <1>1, <1>2 DEF CallKnows, account
<1>5. CodeOfAccount'
  BY <1>1 DEF CodeOfAccount, account
<1>6. OneRegistration'
  <2> SUFFICES ASSUME ~lapsed
      PROVE  /\ \A d \in Slots : call'[d].op = "register" => lock'
             /\ \A d, e \in Slots :
                   call'[d].op = "register" /\ call'[e].op = "register" => d = e
    BY DEF OneRegistration
  <2>1. \A d \in Slots : call'[d].op = "register" => call[d].op = "register"
    BY <1>2
  <2>2. \A d, e \in Slots : call'[d].op = "register" /\ call'[e].op = "register" => d = e
    BY <1>1, <2>1 DEF OneRegistration
  <2>3. ASSUME NEW d \in Slots, call'[d].op = "register"
        PROVE  lock'
    <3>1. CASE d = c
      BY <1>1, <1>2, <2>1, <2>3, <3>1 DEF OneRegistration
    <3>2. CASE d # c
      BY <1>1, <2>1, <2>3, <3>2 DEF OneRegistration
    <3> QED
      BY <3>1, <3>2
  <2> QED
    BY <2>2, <2>3
<1>7. LockGuardsPhone'
  BY <1>1, <1>2 DEF LockGuardsPhone, At, account
<1>8. AddressMatches'
  BY <1>1 DEF AddressMatches, account
<1>9. AttemptsExpire'
  <2>1. CASE faults' # 0
    BY <2>1 DEF AttemptsExpire
  <2>2. CASE faults' = 0
    <3>1. faults = 0
      BY <2>2
    <3>2. ~At(c, "expire")
      BY <2>2 DEF At
    <3>3. attempts' = attempts /\ ttl' = ttl
      BY DEF counter
    <3>4. \A d \in Slots : At(d, "expire") => At(d, "expire")'
      BY <1>2, <3>2 DEF At
    <3> QED
      BY <1>1, <3>1, <3>3, <3>4 DEF AttemptsExpire
  <2> QED
    BY <2>1, <2>2
<1> QED
  BY <1>3, <1>4, <1>5, <1>6, <1>7, <1>8, <1>9 DEF AccountInv

(* What a call becomes: nothing, or itself one step on. *)
LEMMA Becomes ==
    ASSUME AccountInv, NEW c \in Slots
    PROVE  /\ NoCall \in CallType /\ call[c] \in CallType
           /\ \A pc \in Progress : [call[c] EXCEPT !.pc = pc] \in CallType
           /\ \A pc : GoTo(c, pc) => call' = [call EXCEPT ![c] = [call[c] EXCEPT !.pc = pc]]
           /\ Return(c) => call' = [call EXCEPT ![c] = NoCall]
<1>1. call[c] \in CallType
  BY DEF AccountInv, TypeOK, CallType
<1>2. NoCall \in CallType
  BY DEF NoCall, CallType, Progress
<1> QED
  BY <1>1, <1>2 DEF GoTo, Return, CallType

(* A call may end, and a registration go to give back its lock, at any step, but the
   one about to set the time to live only by a fault. *)
LEMMA CallEnds ==
    ASSUME AccountInv, NEW c \in Slots, UNCHANGED <<account, lapsed, otp, counter>>,
           Return(c) \/ (call[c].op = "register" /\ GoTo(c, "unlock") /\ lock' = lock),
           lock' \in BOOLEAN, lock => lock' \/ call[c].op = "register",
           sms' \in Codes \cup {None}, outbox' \in [Codes -> Nat], crossed' \in BOOLEAN,
           faults' \in 0..MaxFaults, faults' = 0 => faults = 0,
           tries' \in [made : Nat, behind : BOOLEAN],
           call[c].pc = "expire" => faults' # 0
    PROVE  AccountInv'
<1>1. CASE Return(c)
  <2> DEFINE h == NoCall
  <2>1. h \in CallType /\ call' = [call EXCEPT ![c] = h]
    BY <1>1, Becomes
  <2>2. h.op = "none" /\ h.pc = "idle"
    BY DEF NoCall
  <2> HIDE DEF h
  <2> QED
    BY <2>1, <2>2, CallOnly DEF Verifying, WithAccount
<1>2. CASE call[c].op = "register" /\ GoTo(c, "unlock") /\ lock' = lock
  <2> DEFINE h == [call[c] EXCEPT !.pc = "unlock"]
  <2>1. h \in CallType /\ call' = [call EXCEPT ![c] = h]
    BY <1>2, Becomes DEF Progress
  <2>2. h.op = "register" /\ h.pc = "unlock"
    BY <1>2, Becomes DEF CallType
  <2> HIDE DEF h
  <2> QED
    BY <1>2, <2>1, <2>2, CallOnly DEF Verifying, WithAccount, Registering
<1> QED
  BY <1>1, <1>2

LEMMA FindPhoneStep ==
    ASSUME AccountInv, NEW c \in Slots, FindPhone(c) PROVE AccountInv'
<1>1. call[c].pc = "find" /\ call[c].op = "register" /\ TypeOK
  BY DEF FindPhone, At, AccountInv, CallKnows
<1>2. /\ UNCHANGED <<account, lapsed, otp, counter>>
      /\ UNCHANGED <<lock, outbox, sms, crossed, faults, tries>>
  BY DEF FindPhone, registration, code
<1>3. /\ lock' \in BOOLEAN /\ sms' \in Codes \cup {None} /\ crossed' \in BOOLEAN
      /\ outbox' \in [Codes -> Nat]
      /\ faults' \in 0..MaxFaults /\ tries' \in [made : Nat, behind : BOOLEAN]
  BY <1>1, <1>2 DEF TypeOK
<1>4. CASE user = "ABSENT"
  <2> DEFINE h == [call[c] EXCEPT !.pc = "create"]
  <2>1. h \in CallType /\ call' = [call EXCEPT ![c] = h]
    BY <1>4, Becomes DEF FindPhone, Progress
  <2>2. h.op = "register" /\ h.pc = "create"
    BY <1>1, Becomes DEF CallType
  <2> HIDE DEF h
  <2> QED
    BY <1>1, <1>2, <1>3, <1>4, <2>1, <2>2, CallOnly DEF Verifying, WithAccount, Registering
<1>5. CASE user # "ABSENT"
  <2>1. call[c].op = "register" /\ GoTo(c, "unlock")
    BY <1>1, <1>5 DEF FindPhone, Leave
  <2> QED
    BY <1>1, <1>2, <1>3, <2>1, CallEnds
<1> QED
  BY <1>4, <1>5

LEMMA LoadForResendStep ==
    ASSUME AccountInv, NEW c \in Slots, LoadForResend(c) PROVE AccountInv'
<1>1. call[c] = NoCall /\ TypeOK /\ user = "PENDING"
  BY DEF LoadForResend, Begin, AccountInv
<1>2. /\ UNCHANGED <<account, lapsed, otp, counter>>
      /\ UNCHANGED <<lock, outbox, sms, crossed, faults, tries>>
  BY DEF LoadForResend, registration, code
<1>3. /\ lock' \in BOOLEAN /\ sms' \in Codes \cup {None} /\ crossed' \in BOOLEAN
      /\ outbox' \in [Codes -> Nat]
      /\ faults' \in 0..MaxFaults /\ tries' \in [made : Nat, behind : BOOLEAN]
  BY <1>1, <1>2 DEF TypeOK
<1> DEFINE h == [NoCall EXCEPT !.op = "resend", !.pc = "otp"]
<1>4. h \in CallType /\ call' = [call EXCEPT ![c] = h]
  BY DEF LoadForResend, Begin, NoCall, CallType, Progress
<1>5. h.op = "resend" /\ h.pc = "otp" /\ call[c].pc = "idle"
  BY <1>1 DEF NoCall
<1> HIDE DEF h
<1> QED
  BY <1>1, <1>2, <1>3, <1>4, <1>5, CallOnly DEF Verifying

LEMMA SendOtpStep ==
    ASSUME AccountInv, NEW c \in Slots, SendOtp(c) PROVE AccountInv'
<1>1. call[c].pc = "sms" /\ TypeOK
  BY DEF SendOtp, At, AccountInv
<1>2. UNCHANGED <<account, lapsed, otp, counter>> /\ UNCHANGED <<lock, sms, faults, tries>>
  BY DEF SendOtp, registration
<1>3. /\ lock' \in BOOLEAN /\ sms' \in Codes \cup {None}
      /\ faults' \in 0..MaxFaults /\ tries' \in [made : Nat, behind : BOOLEAN]
  BY <1>1, <1>2 DEF TypeOK
<1>4. crossed' \in BOOLEAN
  <2>1. crossed \in BOOLEAN
    BY <1>1 DEF TypeOK
  <2>2. crossed' = (crossed \/ Waiting)
    BY DEF SendOtp
  <2> QED
    BY <2>1, <2>2
<1>5. outbox' \in [Codes -> Nat]
  <2> DEFINE k == call[c].code
  <2>1. outbox' = [outbox EXCEPT ![k] = @ + 1] /\ outbox \in [Codes -> Nat]
    BY <1>1 DEF SendOtp, TypeOK
  <2> HIDE DEF k
  <2>2. CASE k \in Codes
    <3>1. outbox[k] + 1 \in Nat
      BY <2>1, <2>2
    <3> QED
      BY <2>1, <3>1
  <2>3. CASE k \notin Codes
    BY <2>1, <2>3
  <2> QED
    BY <2>2, <2>3
<1>6. Return(c) \/ (call[c].op = "register" /\ GoTo(c, "unlock") /\ lock' = lock)
  BY <1>2 DEF SendOtp, Leave
<1> QED
  BY <1>1, <1>2, <1>3, <1>4, <1>5, <1>6, CallEnds

LEMMA ReleaseLockStep ==
    ASSUME AccountInv, NEW c \in Slots, ReleaseLock(c) PROVE AccountInv'
<1>1. call[c].pc = "unlock" /\ call[c].op = "register" /\ TypeOK
  BY DEF ReleaseLock, At, AccountInv, CallKnows
<1>2. /\ UNCHANGED <<account, lapsed, otp, counter>>
      /\ UNCHANGED <<outbox, sms, crossed, faults, tries>>
  BY DEF ReleaseLock, code
<1>3. /\ lock' \in BOOLEAN /\ sms' \in Codes \cup {None} /\ crossed' \in BOOLEAN
      /\ outbox' \in [Codes -> Nat]
      /\ faults' \in 0..MaxFaults /\ tries' \in [made : Nat, behind : BOOLEAN]
  BY <1>1, <1>2 DEF ReleaseLock, TypeOK
<1> QED
  BY <1>1, <1>2, <1>3, CallEnds DEF ReleaseLock

LEMMA CompareOtpStep ==
    ASSUME AccountInv, NEW c \in Slots, CompareOtp(c) PROVE AccountInv'
<1>1. call[c].pc = "get" /\ call[c].op = "verify" /\ TypeOK /\ CodeOfAccount
  BY DEF CompareOtp, At, AccountInv, CallKnows, Verifying
<1>2. /\ UNCHANGED <<account, lapsed, otp, counter>>
      /\ UNCHANGED <<lock, outbox, sms, crossed, faults>>
  BY DEF CompareOtp, registration, code
<1>3. /\ lock' \in BOOLEAN /\ sms' \in Codes \cup {None} /\ crossed' \in BOOLEAN
      /\ outbox' \in [Codes -> Nat]
      /\ faults' \in 0..MaxFaults
  BY <1>1, <1>2 DEF TypeOK
<1>4. tries' \in [made : Nat, behind : BOOLEAN]
  <2>1. tries \in [made : Nat, behind : BOOLEAN]
    BY <1>1 DEF TypeOK
  <2>2. tries' = tries \/ tries' = [tries EXCEPT !.made = @ + 1]
    BY DEF CompareOtp
  <2> QED
    BY <2>1, <2>2
<1>5. CASE otp # None /\ GoTo(c, "delete otp")
  <2> DEFINE h == [call[c] EXCEPT !.pc = "delete otp"]
  <2>1. h \in CallType /\ call' = [call EXCEPT ![c] = h]
    BY <1>5, Becomes DEF Progress
  <2>2. h.op = "verify" /\ h.pc = "delete otp" /\ user # "ABSENT"
    BY <1>1, <1>5, Becomes DEF CallType, CodeOfAccount
  <2> HIDE DEF h
  <2> QED
    BY <1>1, <1>2, <1>3, <1>4, <2>1, <2>2, CallOnly DEF Registering
<1>6. CASE Return(c)
  BY <1>1, <1>2, <1>3, <1>4, <1>6, CallEnds
<1> QED
  BY <1>5, <1>6 DEF CompareOtp

LEMMA FindWalletStep ==
    ASSUME AccountInv, NEW c \in Slots, FindWallet(c) PROVE AccountInv'
<1>1. call[c].pc = "find wallet" /\ call[c].op = "verify" /\ TypeOK /\ user # "ABSENT"
  BY DEF FindWallet, At, AccountInv, CallKnows, Verifying, WithAccount
<1>2. /\ UNCHANGED <<account, lapsed, otp, counter>>
      /\ UNCHANGED <<lock, outbox, sms, crossed, faults, tries>>
  BY DEF FindWallet, registration, code
<1>3. /\ lock' \in BOOLEAN /\ sms' \in Codes \cup {None} /\ crossed' \in BOOLEAN
      /\ outbox' \in [Codes -> Nat]
      /\ faults' \in 0..MaxFaults /\ tries' \in [made : Nat, behind : BOOLEAN]
  BY <1>1, <1>2 DEF TypeOK
<1>4. CASE wallet # None
  BY <1>1, <1>2, <1>3, <1>4, CallEnds DEF FindWallet
<1>5. CASE wallet = None
  <2>1. PICK a \in FreshAddress :
               call' = [call EXCEPT ![c].pc = "save wallet", ![c].address = a]
    BY <1>5 DEF FindWallet
  <2>2. a \in Addresses /\ a # None
    BY AccountsAssumption DEF FreshAddress
  <2> DEFINE h == [call[c] EXCEPT !.pc = "save wallet", !.address = a]
  <2>3. h \in CallType /\ h.op = "verify" /\ h.pc = "save wallet" /\ h.address = a
    <3>1. call[c] \in CallType /\ "save wallet" \in Progress
      BY Becomes DEF Progress
    <3> QED
      BY <1>1, <2>2, <3>1 DEF CallType
  <2>4. call' = [call EXCEPT ![c] = h]
    BY <1>1, <2>1 DEF TypeOK
  <2> HIDE DEF h
  <2> QED
    BY <1>1, <1>2, <1>3, <2>2, <2>3, <2>4, CallOnly DEF Registering
<1> QED
  BY <1>4, <1>5

LEMMA CallFailsStep ==
    ASSUME AccountInv, NEW c \in Slots, CallFails(c) PROVE AccountInv'
<1>1. TypeOK /\ CallKnows(c)
  BY DEF AccountInv
<1>2. /\ UNCHANGED <<account, lapsed, otp, counter>>
      /\ UNCHANGED <<lock, outbox, sms, crossed, tries>>
  BY DEF CallFails, registration, code
<1>3. /\ lock' \in BOOLEAN /\ sms' \in Codes \cup {None} /\ crossed' \in BOOLEAN
      /\ outbox' \in [Codes -> Nat]
      /\ tries' \in [made : Nat, behind : BOOLEAN]
  BY <1>1, <1>2 DEF TypeOK
<1>4. faults' \in 0..MaxFaults /\ faults' # 0
  BY <1>1, AccountsAssumption DEF CallFails, TypeOK
<1>5. Return(c) \/ (call[c].op = "register" /\ GoTo(c, "unlock") /\ lock' = lock)
  BY <1>2 DEF CallFails, Leave
<1> QED
  BY <1>2, <1>3, <1>4, <1>5, CallEnds

(* The other calls keep all they know of an account that is still there and of a wallet
   that is still theirs. *)
LEMMA Others ==
    ASSUME AccountInv, NEW c \in Slots, NEW h \in CallType, call' = [call EXCEPT ![c] = h],
           user # "ABSENT" => user' # "ABSENT", wallet # None => wallet' = wallet
    PROVE  \A d \in Slots : d # c => CallKnows(d)'
<1>1. \A d \in Slots : CallKnows(d)
  BY DEF AccountInv
<1>2. \A d \in Slots : d # c => call'[d] = call[d]
  BY CallMoves
<1> SUFFICES ASSUME NEW d \in Slots, d # c PROVE CallKnows(d)'
  OBVIOUS
<1>3. CallKnows(d) /\ call'[d] = call[d]
  BY <1>1, <1>2
<1>4. call[d].pc = "set address" => wallet' = call[d].address
  BY <1>3 DEF CallKnows
<1> QED
  BY <1>3, <1>4 DEF CallKnows

(* A call that does not begin a registration leaves one registration as it was. *)
LEMMA StillOne ==
    ASSUME AccountInv, NEW c \in Slots, NEW h \in CallType, call' = [call EXCEPT ![c] = h],
           h.op = "register" => call[c].op = "register", UNCHANGED registration
    PROVE  OneRegistration'
<1>1. OneRegistration /\ lock' = lock /\ lapsed' = lapsed
  BY DEF AccountInv, registration
<1>2. \A d \in Slots : call'[d].op = "register" => call[d].op = "register"
  BY CallMoves
<1> QED
  BY <1>1, <1>2 DEF OneRegistration

(* A call that was not about to set the time to live leaves the counter's. *)
LEMMA StillExpires ==
    ASSUME AccountInv, NEW c \in Slots, NEW h \in CallType, call' = [call EXCEPT ![c] = h],
           call[c].pc # "expire", UNCHANGED <<counter, faults>>
    PROVE  AttemptsExpire'
<1>1. AttemptsExpire /\ attempts' = attempts /\ ttl' = ttl /\ faults' = faults
  BY DEF AccountInv, counter
<1>2. \A d \in Slots : At(d, "expire") => At(d, "expire")'
  BY CallMoves DEF At
<1> QED
  BY <1>1, <1>2 DEF AttemptsExpire

(* A call that does not come to write the row finds the phone as free as before. *)
LEMMA StillFree ==
    ASSUME AccountInv, NEW c \in Slots, NEW h \in CallType, call' = [call EXCEPT ![c] = h],
           h.pc # "create", UNCHANGED lapsed,
           (user = "ABSENT" => user' = "ABSENT") \/ \A d \in Slots : d # c /\ ~lapsed => ~At(d, "create")
    PROVE  LockGuardsPhone'
<1>1. LockGuardsPhone /\ lapsed' = lapsed
  BY DEF AccountInv
<1>2. call'[c] = h /\ \A d \in Slots : d # c => call'[d] = call[d]
  BY CallMoves
<1> QED
  BY <1>1, <1>2 DEF LockGuardsPhone, At

LEMMA CreateUserStep ==
    ASSUME AccountInv, NEW c \in Slots, CreateUser(c) PROVE AccountInv'
<1>1. call[c].pc = "create" /\ call[c].op = "register" /\ TypeOK
  BY DEF CreateUser, At, AccountInv, CallKnows
<1>2. /\ UNCHANGED <<address, wallet, lock, lapsed, otp, outbox, sms, crossed, attempts, ttl, tries, faults>>
      /\ UNCHANGED registration /\ UNCHANGED counter
  BY DEF CreateUser, registration, code, counter
<1>3. CASE user = "ABSENT"
  <2> DEFINE h == [call[c] EXCEPT !.pc = "otp"]
  <2>1. h \in CallType /\ call' = [call EXCEPT ![c] = h]
    BY <1>3, Becomes DEF CreateUser, Progress
  <2>2. h.op = "register" /\ h.pc = "otp" /\ user' = "PENDING"
    BY <1>1, <1>3, Becomes DEF CallType, CreateUser
  <2> HIDE DEF h
  <2>3. call' \in [Slots -> CallType] /\ call'[c] = h
    BY <2>1, CallMoves
  <2>4. TypeOK'
    BY <1>1, <1>2, <2>2, <2>3 DEF TypeOK, CallType
  <2>5. \A d \in Slots : CallKnows(d)'
    <3>1. CallKnows(c)'
      BY <2>2, <2>3 DEF CallKnows, Verifying, Registering
    <3> QED
      BY <1>2, <2>1, <2>2, <3>1, Others
  <2>6. OneRegistration'
    BY <1>1, <1>2, <2>1, StillOne
  <2>7. LockGuardsPhone'
    <3>1. \A d \in Slots : d # c /\ ~lapsed => ~At(d, "create")
      BY <1>1 DEF AccountInv, OneRegistration, CallKnows, At
    <3> QED
      BY <1>2, <2>1, <2>2, <3>1, StillFree
  <2>8. CodeOfAccount' /\ AddressMatches'
    BY <1>2, <2>2 DEF AccountInv, CodeOfAccount, AddressMatches
  <2>9. AttemptsExpire'
    BY <1>1, <1>2, <2>1, StillExpires
  <2> QED
    BY <2>4, <2>5, <2>6, <2>7, <2>8, <2>9 DEF AccountInv
<1>4. CASE user # "ABSENT"
  <2>1. UNCHANGED <<account, lapsed, otp, counter>>
    BY <1>2, <1>4 DEF CreateUser, account
  <2>2. call[c].op = "register" /\ GoTo(c, "unlock")
    BY <1>1, <1>4 DEF CreateUser, Leave
  <2>3. /\ lock' \in BOOLEAN /\ sms' \in Codes \cup {None} /\ crossed' \in BOOLEAN
      /\ outbox' \in [Codes -> Nat]
        /\ faults' \in 0..MaxFaults /\ tries' \in [made : Nat, behind : BOOLEAN]
    BY <1>1, <1>2 DEF TypeOK
  <2> QED
    BY <1>1, <1>2, <2>1, <2>2, <2>3, CallEnds
<1> QED
  BY <1>3, <1>4

LEMMA TakeLockStep ==
    ASSUME AccountInv, NEW c \in Slots, TakeLock(c) PROVE AccountInv'
<1>1. call[c] = NoCall /\ TypeOK /\ ~lock /\ lock'
  BY DEF TakeLock, Begin, AccountInv
<1>2. /\ UNCHANGED <<user, address, wallet, lapsed, otp, outbox, sms, crossed, attempts, ttl, tries, faults>>
      /\ UNCHANGED counter
  BY DEF TakeLock, account, code, counter
<1> DEFINE h == [NoCall EXCEPT !.op = "register", !.pc = "find"]
<1>3. h \in CallType /\ call' = [call EXCEPT ![c] = h]
  BY DEF TakeLock, Begin, NoCall, CallType, Progress
<1>4. h.op = "register" /\ h.pc = "find" /\ call[c].pc = "idle"
  BY <1>1 DEF NoCall
<1> HIDE DEF h
<1>5. /\ call' \in [Slots -> CallType] /\ call'[c] = h
      /\ \A d \in Slots : d # c => call'[d] = call[d]
  BY <1>3, CallMoves
<1>6. TypeOK'
  BY <1>1, <1>2, <1>5 DEF TypeOK, CallType, TakeLock
<1>7. \A d \in Slots : CallKnows(d)'
  <2>1. CallKnows(c)'
    BY <1>4, <1>5 DEF CallKnows, Verifying, Registering, WithAccount
  <2> QED
    BY <1>2, <1>3, <2>1, Others
<1>8. OneRegistration'
  BY <1>1, <1>2, <1>5 DEF AccountInv, OneRegistration
<1>9. LockGuardsPhone'
  BY <1>2, <1>3, <1>4, StillFree
<1>10. CodeOfAccount' /\ AddressMatches'
  BY <1>2 DEF AccountInv, CodeOfAccount, AddressMatches
<1>11. AttemptsExpire'
  BY <1>2, <1>3, <1>4, StillExpires
<1> QED
  BY <1>6, <1>7, <1>8, <1>9, <1>10, <1>11 DEF AccountInv

(* What a step shows of the calls, when it neither creates the account nor begins a
   registration, and knows what it says itself. *)
LEMMA Moved ==
    ASSUME AccountInv, NEW c \in Slots, NEW h \in CallType, call' = [call EXCEPT ![c] = h],
           CallKnows(c)', h.op = "register" => call[c].op = "register", h.pc # "create",
           user' = "ABSENT" <=> user = "ABSENT", wallet # None => wallet' = wallet,
           UNCHANGED registration
    PROVE  /\ \A d \in Slots : CallKnows(d)'
           /\ OneRegistration' /\ LockGuardsPhone'
           /\ call' \in [Slots -> CallType] /\ call'[c] = h
<1>1. \A d \in Slots : CallKnows(d)'
  BY Others
<1>2. OneRegistration'
  BY StillOne
<1>3. LockGuardsPhone'
  BY StillFree DEF registration
<1> QED
  BY <1>1, <1>2, <1>3, CallMoves

LEMMA StoreOtpStep ==
    ASSUME AccountInv, NEW c \in Slots, StoreOtp(c) PROVE AccountInv'
<1>1. call[c].pc = "otp" /\ call[c].op \in {"register", "resend"} /\ TypeOK /\ user # "ABSENT"
  BY DEF StoreOtp, At, AccountInv, CallKnows, WithAccount
<1>2. /\ UNCHANGED <<user, address, wallet, lock, lapsed, outbox, sms, attempts, ttl, tries, faults>>
      /\ UNCHANGED registration /\ UNCHANGED <<counter, faults>>
  BY DEF StoreOtp, registration, account, counter
<1>3. PICK k \in Codes :
         otp' = k /\ call' = [call EXCEPT ![c].pc = "sms", ![c].code = k]
  BY DEF StoreOtp
<1> DEFINE h == [call[c] EXCEPT !.pc = "sms", !.code = k]
<1>4. h \in CallType /\ h.op = call[c].op /\ h.pc = "sms"
  <2>1. call[c] \in CallType /\ "sms" \in Progress
    BY Becomes DEF Progress
  <2> QED
    BY <2>1 DEF CallType
<1>5. call' = [call EXCEPT ![c] = h]
  BY <1>1, <1>3 DEF TypeOK
<1> HIDE DEF h
<1>6. call'[c] = h
  BY <1>4, <1>5, CallMoves
<1>7. CallKnows(c)'
  BY <1>1, <1>2, <1>4, <1>6 DEF CallKnows, Verifying, Registering
<1>8. /\ \A d \in Slots : CallKnows(d)'
      /\ OneRegistration' /\ LockGuardsPhone' /\ call' \in [Slots -> CallType]
  BY <1>1, <1>2, <1>4, <1>5, <1>7, Moved
<1>9. TypeOK'
  <2>1. crossed' \in BOOLEAN
    BY <1>1 DEF StoreOtp, TypeOK
  <2> QED
    BY <1>1, <1>2, <1>3, <1>8, <2>1 DEF TypeOK, CallType
<1>10. CodeOfAccount' /\ AddressMatches'
  BY <1>1, <1>2 DEF AccountInv, CodeOfAccount, AddressMatches
<1>11. AttemptsExpire'
  BY <1>1, <1>2, <1>4, <1>5, StillExpires
<1> QED
  BY <1>8, <1>9, <1>10, <1>11 DEF AccountInv

LEMMA DeleteOtpStep ==
    ASSUME AccountInv, NEW c \in Slots, DeleteOtp(c) PROVE AccountInv'
<1>1. call[c].pc = "delete otp" /\ call[c].op = "verify" /\ TypeOK /\ user # "ABSENT"
  BY DEF DeleteOtp, At, AccountInv, CallKnows, Verifying, WithAccount
<1>2. /\ UNCHANGED <<user, address, wallet, lock, lapsed, outbox, sms, crossed, attempts, ttl, tries, faults>>
      /\ otp' = None /\ UNCHANGED registration /\ UNCHANGED <<counter, faults>>
  BY DEF DeleteOtp, registration, account, counter
<1> DEFINE h == [call[c] EXCEPT !.pc = "delete attempts"]
<1>3. h \in CallType /\ call' = [call EXCEPT ![c] = h]
  BY Becomes DEF DeleteOtp, Progress
<1>4. h.op = "verify" /\ h.pc = "delete attempts"
  BY <1>1, Becomes DEF CallType
<1> HIDE DEF h
<1>5. call'[c] = h
  BY <1>3, CallMoves
<1>6. CallKnows(c)'
  BY <1>1, <1>2, <1>4, <1>5 DEF CallKnows
<1>7. /\ \A d \in Slots : CallKnows(d)'
      /\ OneRegistration' /\ LockGuardsPhone' /\ call' \in [Slots -> CallType]
  BY <1>1, <1>2, <1>3, <1>4, <1>6, Moved
<1>8. TypeOK'
  BY <1>1, <1>2, <1>7 DEF TypeOK, CallType
<1>9. CodeOfAccount' /\ AddressMatches'
  BY <1>2 DEF AccountInv, CodeOfAccount, AddressMatches
<1>10. AttemptsExpire'
  BY <1>1, <1>2, <1>3, StillExpires
<1> QED
  BY <1>7, <1>8, <1>9, <1>10 DEF AccountInv

LEMMA ClearedType == Cleared \in [made : Nat, behind : BOOLEAN]
<1> DEFINE b == \E c \in Slots : At(c, "expire") \/ At(c, "get")
<1>1. b \in BOOLEAN
  OBVIOUS
<1>2. Cleared = [made |-> 0, behind |-> b]
  BY DEF Cleared
<1> HIDE DEF b
<1> QED
  BY <1>1, <1>2

LEMMA DeleteAttemptsStep ==
    ASSUME AccountInv, NEW c \in Slots, DeleteAttempts(c) PROVE AccountInv'
<1>1. call[c].pc = "delete attempts" /\ call[c].op = "verify" /\ TypeOK /\ user # "ABSENT"
  BY DEF DeleteAttempts, At, AccountInv, CallKnows, Verifying, WithAccount
<1>2. /\ UNCHANGED <<user, address, wallet, lock, lapsed, otp, outbox, sms, crossed, faults>>
      /\ attempts' = 0 /\ ttl' = FALSE /\ UNCHANGED registration
  BY DEF DeleteAttempts, registration, account, code
<1> DEFINE h == [call[c] EXCEPT !.pc = "activate"]
<1>3. h \in CallType /\ call' = [call EXCEPT ![c] = h]
  BY Becomes DEF DeleteAttempts, Progress
<1>4. h.op = "verify" /\ h.pc = "activate"
  BY <1>1, Becomes DEF CallType
<1> HIDE DEF h
<1>5. call'[c] = h
  BY <1>3, CallMoves
<1>6. CallKnows(c)'
  BY <1>1, <1>2, <1>4, <1>5 DEF CallKnows
<1>7. /\ \A d \in Slots : CallKnows(d)'
      /\ OneRegistration' /\ LockGuardsPhone' /\ call' \in [Slots -> CallType]
  BY <1>1, <1>2, <1>3, <1>4, <1>6, Moved
<1>8. TypeOK'
  <2>1. tries' \in [made : Nat, behind : BOOLEAN]
    BY ClearedType DEF DeleteAttempts
  <2>2. attempts' \in 0..4
    BY <1>2
  <2>3. ttl' \in BOOLEAN
    BY <1>2
  <2>4. /\ user' = user /\ address' = address /\ wallet' = wallet /\ lock' = lock
        /\ lapsed' = lapsed /\ otp' = otp /\ outbox' = outbox /\ sms' = sms /\ crossed' = crossed
        /\ faults' = faults
    BY <1>2
  <2> QED
    BY <1>1, <1>7, <2>1, <2>2, <2>3, <2>4 DEF TypeOK, CallType
<1>9. CodeOfAccount' /\ AddressMatches' /\ AttemptsExpire'
  BY <1>2 DEF AccountInv, CodeOfAccount, AddressMatches, AttemptsExpire
<1> QED
  BY <1>7, <1>8, <1>9 DEF AccountInv

LEMMA ExpireAttemptsStep ==
    ASSUME AccountInv, NEW c \in Slots, ExpireAttempts(c) PROVE AccountInv'
<1>1. call[c].pc = "expire" /\ call[c].op = "verify" /\ TypeOK
  BY DEF ExpireAttempts, At, AccountInv, CallKnows, Verifying
<1>2. /\ UNCHANGED <<user, address, wallet, lock, lapsed, otp, outbox, sms, crossed, attempts, tries, faults>>
      /\ ttl' = (attempts > 0) /\ UNCHANGED registration
  BY DEF ExpireAttempts, registration, account, code
<1> DEFINE h == [call[c] EXCEPT !.pc = "get"]
<1>3. h \in CallType /\ call' = [call EXCEPT ![c] = h]
  BY Becomes DEF ExpireAttempts, Progress
<1>4. h.op = "verify" /\ h.pc = "get"
  BY <1>1, Becomes DEF CallType
<1> HIDE DEF h
<1>5. call'[c] = h
  BY <1>3, CallMoves
<1>6. CallKnows(c)'
  BY <1>1, <1>2, <1>4, <1>5 DEF CallKnows, WithAccount
<1>7. /\ \A d \in Slots : CallKnows(d)'
      /\ OneRegistration' /\ LockGuardsPhone' /\ call' \in [Slots -> CallType]
  BY <1>1, <1>2, <1>3, <1>4, <1>6, Moved
<1>8. TypeOK'
  <2>1. ttl' \in BOOLEAN
    BY <1>2
  <2> QED
    BY <1>1, <1>2, <1>7, <2>1 DEF TypeOK, CallType
<1>9. CodeOfAccount' /\ AddressMatches' /\ AttemptsExpire'
  BY <1>2 DEF AccountInv, CodeOfAccount, AddressMatches, AttemptsExpire
<1> QED
  BY <1>7, <1>8, <1>9 DEF AccountInv

LEMMA CountAttemptStep ==
    ASSUME AccountInv, NEW c \in Slots, CountAttempt(c) PROVE AccountInv'
<1>1. TypeOK /\ call[c] = NoCall /\ AttemptsExpire /\ attempts \in 0..4
  BY DEF CountAttempt, Begin, AccountInv, TypeOK
<1>2. /\ UNCHANGED <<user, address, wallet, lock, lapsed, otp, outbox, sms, crossed, ttl, tries, faults>>
      /\ UNCHANGED registration
  BY DEF CountAttempt, registration, account, code
<1>3. attempts' \in 0..4 /\ attempts' = (IF attempts > 3 THEN attempts ELSE attempts + 1)
  BY <1>1 DEF CountAttempt
<1>4. CASE attempts < 3
  <2> DEFINE step == IF attempts = 0 THEN "expire" ELSE "get"
             h == [NoCall EXCEPT !.op = "verify", !.pc = step]
  <2>1. step \in {"expire", "get"}
    OBVIOUS
  <2>2. call' = [call EXCEPT ![c] = h]
    BY <1>4 DEF CountAttempt, Begin
  <2>3. h \in CallType /\ h.op = "verify" /\ h.pc = step
    BY <2>1 DEF NoCall, CallType, Progress
  <2>4. attempts = 0 => h.pc = "expire"
    BY <2>3
  <2> HIDE DEF step, h
  <2>5. /\ call' \in [Slots -> CallType] /\ call'[c] = h
        /\ \A d \in Slots : d # c => call'[d] = call[d]
    BY <2>2, <2>3, CallMoves
  <2>6. CallKnows(c)'
    BY <2>1, <2>3, <2>5 DEF CallKnows, Verifying, WithAccount
  <2>7. /\ \A d \in Slots : CallKnows(d)'
        /\ OneRegistration' /\ LockGuardsPhone'
    BY <1>2, <2>1, <2>2, <2>3, <2>6, Moved
  <2>8. TypeOK'
    BY <1>1, <1>2, <1>3, <2>5 DEF TypeOK, CallType
  <2>9. CodeOfAccount' /\ AddressMatches'
    BY <1>2 DEF AccountInv, CodeOfAccount, AddressMatches
  <2>10. AttemptsExpire'
    <3>1. CASE attempts = 0
      BY <2>4, <2>5, <3>1 DEF AttemptsExpire, At
    <3>2. CASE attempts > 0
      <4>1. \A d \in Slots : At(d, "expire") => At(d, "expire")'
        BY <1>1, <2>5 DEF At, NoCall
      <4> QED
        BY <1>1, <1>2, <3>2, <4>1 DEF AttemptsExpire
    <3> QED
      BY <1>1, <3>1, <3>2
  <2> QED
    BY <2>7, <2>8, <2>9, <2>10 DEF AccountInv
<1>5. CASE ~(attempts < 3)
  <2>1. call' = call /\ attempts > 0
    BY <1>1, <1>5 DEF CountAttempt
  <2>2. TypeOK'
    BY <1>1, <1>2, <1>3, <2>1 DEF TypeOK
  <2>3. \A d \in Slots : CallKnows(d)'
    BY <1>2, <2>1 DEF AccountInv, CallKnows
  <2>4. CodeOfAccount' /\ AddressMatches' /\ OneRegistration' /\ LockGuardsPhone'
    BY <1>2, <2>1 DEF AccountInv, CodeOfAccount, AddressMatches, OneRegistration,
       LockGuardsPhone, At
  <2>5. AttemptsExpire'
    BY <1>1, <1>2, <2>1 DEF AttemptsExpire, At
  <2> QED
    BY <2>2, <2>3, <2>4, <2>5 DEF AccountInv
<1> QED
  BY <1>4, <1>5

LEMMA ActivateStep ==
    ASSUME AccountInv, NEW c \in Slots, Activate(c) PROVE AccountInv'
<1>1. call[c].pc = "activate" /\ call[c].op = "verify" /\ TypeOK /\ user # "ABSENT"
  BY DEF Activate, At, AccountInv, CallKnows, Verifying, WithAccount
<1>2. /\ UNCHANGED <<address, wallet, lock, lapsed, otp, outbox, sms, crossed, attempts, ttl, tries, faults>>
      /\ user' = "ACTIVE" /\ UNCHANGED registration /\ UNCHANGED <<counter, faults>>
  BY DEF Activate, registration, code, counter
<1> DEFINE h == [call[c] EXCEPT !.pc = "find wallet"]
<1>3. h \in CallType /\ call' = [call EXCEPT ![c] = h]
  BY Becomes DEF Activate, Progress
<1>4. h.op = "verify" /\ h.pc = "find wallet"
  BY <1>1, Becomes DEF CallType
<1> HIDE DEF h
<1>5. call'[c] = h
  BY <1>3, CallMoves
<1>6. CallKnows(c)'
  BY <1>1, <1>2, <1>4, <1>5 DEF CallKnows
<1>7. /\ \A d \in Slots : CallKnows(d)'
      /\ OneRegistration' /\ LockGuardsPhone' /\ call' \in [Slots -> CallType]
  BY <1>1, <1>2, <1>3, <1>4, <1>6, Moved
<1>8. TypeOK'
  BY <1>1, <1>2, <1>7 DEF TypeOK, CallType
<1>9. CodeOfAccount' /\ AddressMatches'
  BY <1>2 DEF AccountInv, CodeOfAccount, AddressMatches
<1>10. AttemptsExpire'
  BY <1>1, <1>2, <1>3, StillExpires
<1> QED
  BY <1>7, <1>8, <1>9, <1>10 DEF AccountInv

LEMMA SaveWalletStep ==
    ASSUME AccountInv, NEW c \in Slots, SaveWallet(c) PROVE AccountInv'
<1>1. /\ call[c].pc = "save wallet" /\ call[c].op = "verify" /\ TypeOK /\ user # "ABSENT"
      /\ call[c].address # None /\ call[c].address \in Addresses \cup {None}
  BY Becomes DEF SaveWallet, At, AccountInv, CallKnows, Verifying, WithAccount, CallType
<1>2. /\ UNCHANGED <<user, address, lock, lapsed, otp, outbox, sms, crossed, attempts, ttl, tries, faults>>
      /\ UNCHANGED registration /\ UNCHANGED <<counter, faults>>
  BY DEF SaveWallet, registration, code, counter
<1>3. CASE wallet = None
  <2> DEFINE h == [call[c] EXCEPT !.pc = "set address"]
  <2>1. h \in CallType /\ call' = [call EXCEPT ![c] = h]
    BY <1>3, Becomes DEF SaveWallet, Progress
  <2>2. h.op = "verify" /\ h.pc = "set address" /\ h.address = call[c].address
    BY <1>1, Becomes DEF CallType
  <2>3. wallet' = call[c].address
    BY <1>3 DEF SaveWallet
  <2> HIDE DEF h
  <2>4. call'[c] = h
    BY <2>1, CallMoves
  <2>5. CallKnows(c)'
    BY <1>1, <1>2, <2>2, <2>3, <2>4 DEF CallKnows
  <2>6. /\ \A d \in Slots : CallKnows(d)'
        /\ OneRegistration' /\ LockGuardsPhone' /\ call' \in [Slots -> CallType]
    BY <1>1, <1>2, <1>3, <2>1, <2>2, <2>5, Moved
  <2>7. TypeOK'
    BY <1>1, <1>2, <2>3, <2>6 DEF TypeOK, CallType
  <2>8. CodeOfAccount' /\ AddressMatches'
    BY <1>2, <1>3 DEF AccountInv, CodeOfAccount, AddressMatches
  <2>9. AttemptsExpire'
    BY <1>1, <1>2, <2>1, StillExpires
  <2> QED
    BY <2>6, <2>7, <2>8, <2>9 DEF AccountInv
<1>4. CASE wallet # None
  <2>1. UNCHANGED <<account, lapsed, otp, counter>>
    BY <1>2, <1>4 DEF SaveWallet, account
  <2>3. Return(c)
    BY <1>4 DEF SaveWallet
  <2>2. /\ lock' \in BOOLEAN /\ sms' \in Codes \cup {None} /\ crossed' \in BOOLEAN
      /\ outbox' \in [Codes -> Nat]
        /\ faults' \in 0..MaxFaults /\ tries' \in [made : Nat, behind : BOOLEAN]
    BY <1>1, <1>2 DEF TypeOK
  <2> QED
    BY <1>1, <1>2, <2>1, <2>2, <2>3, CallEnds
<1> QED
  BY <1>3, <1>4

LEMMA SetAddressStep ==
    ASSUME AccountInv, NEW c \in Slots, SetAddress(c) PROVE AccountInv'
<1>1. /\ call[c].pc = "set address" /\ TypeOK /\ wallet = call[c].address
      /\ call[c].address \in Addresses \cup {None}
  BY Becomes DEF SetAddress, At, AccountInv, CallKnows, CallType
<1>2. /\ UNCHANGED <<user, wallet, lock, lapsed, otp, outbox, sms, crossed, attempts, ttl, tries, faults>>
      /\ address' = call[c].address /\ UNCHANGED registration /\ UNCHANGED <<counter, faults>>
  BY DEF SetAddress, registration, code, counter
<1> DEFINE h == NoCall
<1>3. h \in CallType /\ call' = [call EXCEPT ![c] = h]
  BY Becomes DEF SetAddress
<1>4. h.op = "none" /\ h.pc = "idle"
  BY DEF NoCall
<1> HIDE DEF h
<1>5. call'[c] = h
  BY <1>3, CallMoves
<1>6. CallKnows(c)'
  BY <1>4, <1>5 DEF CallKnows, Verifying, WithAccount
<1>7. /\ \A d \in Slots : CallKnows(d)'
      /\ OneRegistration' /\ LockGuardsPhone' /\ call' \in [Slots -> CallType]
  BY <1>1, <1>2, <1>3, <1>4, <1>6, Moved
<1>8. TypeOK'
  BY <1>1, <1>2, <1>7 DEF TypeOK, CallType
<1>9. CodeOfAccount' /\ AddressMatches'
  BY <1>1, <1>2 DEF AccountInv, CodeOfAccount, AddressMatches
<1>10. AttemptsExpire'
  BY <1>1, <1>2, <1>3, StillExpires
<1> QED
  BY <1>7, <1>8, <1>9, <1>10 DEF AccountInv

(* What happens with no call moving: an account is blocked, a key's time is over. *)
LEMMA NoCallMoves ==
    ASSUME AccountInv, UNCHANGED call, BlockUser \/ LockLapses \/ OtpLapses \/ AttemptsLapse
    PROVE  AccountInv'
<1>1. /\ TypeOK /\ CodeOfAccount /\ OneRegistration /\ LockGuardsPhone /\ AddressMatches
      /\ AttemptsExpire /\ \A d \in Slots : CallKnows(d)
  BY DEF AccountInv
<1>2. UNCHANGED <<address, wallet, outbox, sms, crossed, faults>>
  BY DEF BlockUser, LockLapses, OtpLapses, AttemptsLapse, account, registration, code, counter
<1>3. /\ user' = user \/ (user = "ACTIVE" /\ user' = "PENDING")
      /\ otp' = otp \/ otp' = None
  BY DEF BlockUser, LockLapses, OtpLapses, AttemptsLapse, account, registration, code, counter
<1>4. lapsed' \in BOOLEAN /\ lock' \in BOOLEAN
  BY <1>1 DEF BlockUser, LockLapses, OtpLapses, AttemptsLapse, TypeOK, registration
<1>5. \/ attempts' = 0 /\ ttl' = FALSE
      \/ attempts' = attempts /\ ttl' = ttl
  BY DEF BlockUser, LockLapses, OtpLapses, AttemptsLapse, counter
<1>6. tries' \in [made : Nat, behind : BOOLEAN]
  BY <1>1, ClearedType DEF BlockUser, LockLapses, OtpLapses, AttemptsLapse, TypeOK
<1>7. TypeOK'
  <2>1. attempts' \in 0..4
    BY <1>1, <1>5 DEF TypeOK
  <2>3. ttl' \in BOOLEAN
    <3>1. ttl \in BOOLEAN
      BY <1>1 DEF TypeOK
    <3> QED
      BY <1>5, <3>1
  <2>2. user' \in {"ABSENT", "PENDING", "ACTIVE"} /\ otp' \in Codes \cup {None}
    BY <1>1, <1>3 DEF TypeOK
  <2> QED
    BY <1>1, <1>2, <1>4, <1>6, <2>1, <2>2, <2>3 DEF TypeOK
<1>8. (\A d \in Slots : CallKnows(d)') /\ CodeOfAccount' /\ AddressMatches'
  BY <1>1, <1>2, <1>3 DEF CallKnows, CodeOfAccount, AddressMatches
<1>9. OneRegistration' /\ LockGuardsPhone'
  <2>1. CASE LockLapses
    BY <1>1, <2>1 DEF LockLapses, OneRegistration, LockGuardsPhone, CallKnows, At, account
  <2>2. CASE ~LockLapses
    <3>1. lock' = lock /\ lapsed' = lapsed
      BY <2>2 DEF BlockUser, OtpLapses, AttemptsLapse, registration
    <3> QED
      BY <1>1, <1>3, <3>1 DEF OneRegistration, LockGuardsPhone, At
  <2> QED
    BY <2>1, <2>2
<1>10. AttemptsExpire'
  BY <1>1, <1>2, <1>5 DEF AttemptsExpire, At
<1> QED
  BY <1>7, <1>8, <1>9, <1>10 DEF AccountInv

(* NotificationsProcessor moves no call: an sms is sent, or lost. *)
LEMMA SmsStep ==
    ASSUME AccountInv, NEW k \in Codes, HandleSendSms(k) \/ SendSmsFails(k)
    PROVE  AccountInv'
<1>1. /\ TypeOK /\ CodeOfAccount /\ OneRegistration /\ LockGuardsPhone /\ AddressMatches
      /\ AttemptsExpire /\ \A d \in Slots : CallKnows(d)
  BY DEF AccountInv
<1>2. /\ UNCHANGED <<user, address, wallet, lock, lapsed, otp, crossed, attempts, ttl, tries>>
      /\ UNCHANGED call
  BY DEF HandleSendSms, SendSmsFails, account, registration, counter
<1>3. sms' \in Codes \cup {None}
  BY <1>1 DEF HandleSendSms, SendSmsFails, TypeOK
<1>4. faults' \in 0..MaxFaults /\ (faults' = 0 => faults = 0)
  BY <1>1, AccountsAssumption DEF HandleSendSms, SendSmsFails, TypeOK
<1>5. outbox' \in [Codes -> Nat]
  <2>1. /\ outbox \in [Codes -> Nat] /\ outbox[k] > 0
        /\ outbox' = [outbox EXCEPT ![k] = @ - 1]
    BY <1>1 DEF HandleSendSms, SendSmsFails, TypeOK
  <2> QED
    BY <2>1
<1>6. TypeOK'
  BY <1>1, <1>2, <1>3, <1>4, <1>5 DEF TypeOK
<1>7. (\A d \in Slots : CallKnows(d)') /\ CodeOfAccount' /\ AddressMatches'
  BY <1>1, <1>2 DEF CallKnows, CodeOfAccount, AddressMatches
<1>8. OneRegistration' /\ LockGuardsPhone' /\ AttemptsExpire'
  BY <1>1, <1>2, <1>4 DEF OneRegistration, LockGuardsPhone, AttemptsExpire, At
<1> QED
  BY <1>6, <1>7, <1>8 DEF AccountInv

LEMMA CrashStep == ASSUME AccountInv, Crash PROVE AccountInv'
<1>1. TypeOK /\ CodeOfAccount /\ AddressMatches
  BY DEF AccountInv
<1>2. UNCHANGED <<user, address, wallet, lock, lapsed, otp, outbox, crossed, attempts, ttl, tries>>
  BY DEF Crash, account, registration, code, counter
<1>3. /\ faults' \in 0..MaxFaults /\ faults' # 0
      /\ sms' \in Codes \cup {None}
  BY <1>1, AccountsAssumption DEF Crash, TypeOK
<1>4. call' = [d \in Slots |-> NoCall] /\ NoCall \in CallType
  BY DEF Crash, NoCall, CallType, Progress
<1>5. TypeOK'
  BY <1>1, <1>2, <1>3, <1>4 DEF TypeOK, CallType
<1>6. \A d \in Slots : call'[d].op = "none" /\ call'[d].pc = "idle"
  BY <1>4 DEF NoCall
<1>7. (\A d \in Slots : CallKnows(d)') /\ OneRegistration' /\ LockGuardsPhone'
  BY <1>6 DEF CallKnows, Verifying, WithAccount, OneRegistration, LockGuardsPhone, At
<1>8. CodeOfAccount' /\ AddressMatches' /\ AttemptsExpire'
  BY <1>1, <1>2, <1>3 DEF CodeOfAccount, AddressMatches, AttemptsExpire
<1> QED
  BY <1>5, <1>7, <1>8 DEF AccountInv

LEMMA AccountStep == AccountInv /\ [Next]_vars => AccountInv'
<1> SUFFICES ASSUME AccountInv, [Next]_vars PROVE AccountInv'
  OBVIOUS
<1>1. ASSUME NEW c \in Slots, CallBegins(c) PROVE AccountInv'
  BY <1>1, TakeLockStep, LoadForResendStep, CountAttemptStep DEF CallBegins
<1>2. ASSUME NEW c \in Slots, CallStep(c) PROVE AccountInv'
  BY <1>2, FindPhoneStep, CreateUserStep, StoreOtpStep, SendOtpStep, ReleaseLockStep,
     ExpireAttemptsStep, CompareOtpStep, DeleteOtpStep, DeleteAttemptsStep, ActivateStep,
     FindWalletStep, SaveWalletStep, SetAddressStep DEF CallStep
<1>3. ASSUME NEW c \in Slots, CallFails(c) PROVE AccountInv'
  BY <1>3, CallFailsStep
<1>4. CASE BlockUser \/ LockLapses \/ OtpLapses \/ AttemptsLapse
  <2>1. UNCHANGED call
    BY <1>4 DEF BlockUser, LockLapses, OtpLapses, AttemptsLapse
  <2> QED
    BY <1>4, <2>1, NoCallMoves
<1>5. CASE Crash
  BY <1>5, CrashStep
<1>6. ASSUME NEW k \in Codes, HandleSendSms(k) \/ SendSmsFails(k) PROVE AccountInv'
  BY <1>6, SmsStep
<1>7. CASE UNCHANGED vars
  BY <1>7 DEF vars, account, registration, code, counter, AccountInv, TypeOK, CallKnows,
     CodeOfAccount, OneRegistration, LockGuardsPhone, AddressMatches, AttemptsExpire, At
<1> QED
  BY <1>1, <1>2, <1>3, <1>4, <1>5, <1>6, <1>7 DEF Next

(* AccountInv is an invariant of the calls on one phone number. *)
THEOREM AccountsHold == Spec => []AccountInv
BY AccountInit, AccountStep, PTL DEF Spec

(* The types of TypeOK hold. *)
THEOREM AccountsTypeCorrect == Spec => []TypeOK
<1>1. AccountInv => TypeOK
  BY DEF AccountInv
<1> QED
  BY <1>1, AccountsHold, PTL

(* The lock of register keeps the phone free between the look-up and the insert, whatever
   number of registrations there are, unless it expires under one. *)
THEOREM LockGuardsPhoneCorrect == Spec => []LockGuardsPhone
<1>1. AccountInv => LockGuardsPhone
  BY DEF AccountInv
<1> QED
  BY <1>1, AccountsHold, PTL

(* The address shown is that of the wallet whose key is kept: createWalletForUser sets it
   only after the insert that wallets.user_id lets through once. *)
THEOREM AddressMatchesCorrect == Spec => []AddressMatches
<1>1. AccountInv => AddressMatches
  BY DEF AccountInv
<1> QED
  BY <1>1, AccountsHold, PTL

(* verifyOtp's counter of attempts has a time to live or a call about to set it, unless
   an await has failed or the process was restarted. *)
THEOREM AttemptsExpireCorrect == Spec => []AttemptsExpire
<1>1. AccountInv => AttemptsExpire
  BY DEF AccountInv
<1> QED
  BY <1>1, AccountsHold, PTL
-----------------------------------------------------------------------------
(* As long as nothing crossed and nothing failed, at most one call is about to send a
   code and at most one sms waits; the code stored is the one about to be sent or, if
   none is, the one that waits or, if none does, the one sent last. *)
Sending(c) == At(c, "sms")

OneAtATime ==
    /\ \A c, d \in Slots : Sending(c) /\ Sending(d) => c = d
    /\ \A c \in Slots : Sending(c) => call[c].code \in Codes /\ otp \in {call[c].code, None}
    /\ \A k \in Codes : outbox[k] <= 1
    /\ \A k, l \in Codes : outbox[k] > 0 /\ outbox[l] > 0 => k = l

StoredIsSent ==
    otp # None /\ (\A c \in Slots : ~Sending(c)) =>
        (Waiting => outbox[otp] > 0) /\ (~Waiting => sms = otp)

SmsInv == ~crossed /\ faults = 0 => OneAtATime /\ StoredIsSent

LEMMA SmsInit == Init => SmsInv
BY DEF Init, SmsInv, OneAtATime, StoredIsSent, Sending, At, NoCall

(* Steps of calls that were not about to send a code and will not be. *)
LEMMA OtherCallMoves ==
    ASSUME AccountInv, SmsInv, NEW c \in Slots, NEW h \in CallType,
           call' = [call EXCEPT ![c] = h], call[c].pc # "sms", h.pc # "sms",
           UNCHANGED <<outbox, sms, crossed>>, otp' \in {otp, None}, faults' = faults
    PROVE  SmsInv'
<1>1. /\ call'[c] = h /\ \A d \in Slots : d # c => call'[d] = call[d]
  BY CallMoves
<1>2. \A d \in Slots : /\ Sending(d)' <=> Sending(d)
                       /\ Sending(d) => call'[d] = call[d]
  BY <1>1 DEF Sending, At
<1>3. SUFFICES ASSUME ~crossed, faults = 0 PROVE OneAtATime' /\ StoredIsSent'
  BY DEF SmsInv
<1>4. OneAtATime /\ StoredIsSent
  BY <1>3 DEF SmsInv
<1>5. OneAtATime'
  BY <1>2, <1>4 DEF OneAtATime
<1>6. StoredIsSent'
  BY <1>2, <1>4 DEF StoredIsSent, Waiting
<1> QED
  BY <1>5, <1>6

LEMMA StoreOtpSms ==
    ASSUME AccountInv, SmsInv, NEW c \in Slots, StoreOtp(c) PROVE SmsInv'
<1>1. PICK k \in Codes :
         otp' = k /\ call' = [call EXCEPT ![c].pc = "sms", ![c].code = k]
  BY DEF StoreOtp
<1>2. /\ crossed' = (crossed \/ \E d \in Slots : Sending(d)) /\ UNCHANGED <<outbox, sms, faults>>
      /\ call \in [Slots -> CallType] /\ call[c].pc = "otp"
  BY DEF StoreOtp, AccountInv, TypeOK, CallType, Sending, At
<1>3. SUFFICES ASSUME ~crossed', faults = 0 PROVE OneAtATime' /\ StoredIsSent'
  BY <1>2 DEF SmsInv
<1>4. OneAtATime /\ \A d \in Slots : ~Sending(d)
  BY <1>2, <1>3 DEF SmsInv
<1>5. call'[c].pc = "sms" /\ call'[c].code = k
  <2> DEFINE h == [call[c] EXCEPT !.pc = "sms", !.code = k]
  <2>1. call'[c] = h
    BY <1>1, <1>2
  <2>2. h.pc = "sms" /\ h.code = k
    BY <1>2 DEF CallType
  <2> HIDE DEF h
  <2> QED
    BY <2>1, <2>2
<1>6. \A d \in Slots : Sending(d)' <=> d = c
  BY <1>1, <1>2, <1>4, <1>5 DEF Sending, At
<1>7. OneAtATime'
  BY <1>1, <1>2, <1>4, <1>5, <1>6 DEF OneAtATime
<1>8. StoredIsSent'
  BY <1>6 DEF StoredIsSent
<1> QED
  BY <1>7, <1>8

LEMMA SendOtpSms ==
    ASSUME AccountInv, SmsInv, NEW c \in Slots, SendOtp(c) PROVE SmsInv'
<1> DEFINE k == call[c].code
<1>1. /\ Sending(c) /\ outbox' = [outbox EXCEPT ![k] = @ + 1]
      /\ crossed' = (crossed \/ Waiting) /\ UNCHANGED <<otp, sms, faults>>
      /\ outbox \in [Codes -> Nat]
  BY DEF SendOtp, Sending, AccountInv, TypeOK
<1>2. SUFFICES ASSUME ~crossed', faults = 0 PROVE OneAtATime' /\ StoredIsSent'
  BY <1>1 DEF SmsInv
<1>3. OneAtATime /\ \A l \in Codes : outbox[l] = 0
  <2>1. ~crossed /\ ~Waiting
    BY <1>1, <1>2
  <2>2. \A l \in Codes : outbox[l] = 0
    BY <1>1, <2>1 DEF Waiting
  <2> QED
    BY <1>2, <2>1, <2>2 DEF SmsInv
<1>4. k \in Codes /\ otp \in {k, None} /\ \A d \in Slots : Sending(d) => d = c
  BY <1>1, <1>3 DEF OneAtATime
<1>5. \A d \in Slots : ~Sending(d)'
  <2>1. \A d \in Slots : d # c => call'[d] = call[d]
    BY DEF SendOtp, Leave, GoTo, Return, AccountInv, TypeOK
  <2>2. call'[c].pc # "sms"
    <3>1. CASE call[c].op = "register"
      <4> DEFINE h == [call[c] EXCEPT !.pc = "unlock"]
      <4>1. h \in CallType /\ call' = [call EXCEPT ![c] = h]
        BY <3>1, Becomes DEF SendOtp, Leave, Progress
      <4>2. h.pc = "unlock"
        BY Becomes DEF CallType
      <4> HIDE DEF h
      <4> QED
        BY <4>1, <4>2, CallMoves
    <3>2. CASE call[c].op # "register"
      <4>1. call' = [call EXCEPT ![c] = NoCall] /\ NoCall \in CallType /\ NoCall.pc = "idle"
        BY <3>2, Becomes DEF SendOtp, Leave, NoCall
      <4> QED
        BY <4>1, CallMoves
    <3> QED
      BY <3>1, <3>2
  <2> QED
    BY <1>4, <2>1, <2>2 DEF Sending, At
<1> HIDE DEF k
<1>6. outbox'[k] = 1 /\ \A l \in Codes : l # k => outbox'[l] = 0
  BY <1>1, <1>3, <1>4
<1>7. OneAtATime'
  BY <1>5, <1>6 DEF OneAtATime
<1>8. StoredIsSent'
  BY <1>1, <1>4, <1>6 DEF StoredIsSent, Waiting
<1> QED
  BY <1>7, <1>8

LEMMA HandleSendSmsSms ==
    ASSUME AccountInv, SmsInv, NEW k \in Codes, HandleSendSms(k) PROVE SmsInv'
<1>1. /\ outbox[k] > 0 /\ outbox' = [outbox EXCEPT ![k] = @ - 1] /\ sms' = k
      /\ UNCHANGED <<otp, crossed, call, faults>> /\ outbox \in [Codes -> Nat]
      /\ otp \in Codes \cup {None}
  BY DEF HandleSendSms, AccountInv, TypeOK
<1>2. SUFFICES ASSUME ~crossed, faults = 0 PROVE OneAtATime' /\ StoredIsSent'
  BY <1>1 DEF SmsInv
<1>3. OneAtATime /\ StoredIsSent
  BY <1>2 DEF SmsInv
<1>4. outbox[k] = 1 /\ \A l \in Codes : l # k => outbox[l] = 0
  BY <1>1, <1>3 DEF OneAtATime
<1>5. \A l \in Codes : outbox'[l] = 0
  BY <1>1, <1>4
<1>6. OneAtATime'
  BY <1>1, <1>3, <1>5 DEF OneAtATime, Sending, At
<1>7. StoredIsSent'
  <2> SUFFICES ASSUME otp # None, \A c \in Slots : ~Sending(c)
      PROVE  (Waiting => outbox[otp] > 0)' /\ (~Waiting => sms = otp)'
    BY <1>1 DEF StoredIsSent, Sending, At
  <2>1. ~Waiting'
    BY <1>5 DEF Waiting
  <2>2. outbox[otp] > 0
    BY <1>1, <1>3 DEF StoredIsSent, Waiting
  <2>3. otp = k
    BY <1>1, <1>4, <2>2
  <2> QED
    BY <1>1, <2>1, <2>3
<1> QED
  BY <1>6, <1>7

(* Steps that move no call and leave the sms alone. *)
LEMMA NoCallSms ==
    ASSUME SmsInv, UNCHANGED <<outbox, sms, crossed, call, faults>>, otp' \in {otp, None}
    PROVE  SmsInv'
<1>1. SUFFICES ASSUME ~crossed, faults = 0 PROVE OneAtATime' /\ StoredIsSent'
  BY DEF SmsInv
<1>2. OneAtATime /\ StoredIsSent
  BY <1>1 DEF SmsInv
<1> QED
  BY <1>2 DEF OneAtATime, StoredIsSent, Sending, At, Waiting

(* The calls that neither store nor send a code. *)
LEMMA OtherCallSms ==
    ASSUME AccountInv, SmsInv, NEW c \in Slots,
           \/ CallBegins(c) \/ FindPhone(c) \/ CreateUser(c) \/ ReleaseLock(c)
           \/ ExpireAttempts(c) \/ CompareOtp(c) \/ DeleteOtp(c) \/ DeleteAttempts(c)
           \/ Activate(c) \/ FindWallet(c) \/ SaveWallet(c) \/ SetAddress(c)
    PROVE  SmsInv'
<1>1. UNCHANGED <<outbox, sms, crossed, faults>> /\ otp' \in {otp, None}
  BY DEF CallBegins, TakeLock, LoadForResend, CountAttempt, FindPhone, CreateUser, ReleaseLock,
     ExpireAttempts, CompareOtp, DeleteOtp, DeleteAttempts, Activate, FindWallet, SaveWallet,
     SetAddress, code
<1>2. ASSUME NEW pc \in Progress \ {"sms"}, GoTo(c, pc), call[c].pc # "sms" PROVE SmsInv'
  <2> DEFINE h == [call[c] EXCEPT !.pc = pc]
  <2>1. h \in CallType /\ call' = [call EXCEPT ![c] = h]
    BY <1>2, Becomes
  <2>2. h.pc # "sms"
    BY <1>2, Becomes DEF CallType
  <2> HIDE DEF h
  <2> QED
    BY <1>1, <1>2, <2>1, <2>2, OtherCallMoves
<1>3. ASSUME Return(c), call[c].pc # "sms" PROVE SmsInv'
  <2>1. call' = [call EXCEPT ![c] = NoCall] /\ NoCall \in CallType /\ NoCall.pc = "idle"
    BY <1>3, Becomes DEF NoCall
  <2> QED
    BY <1>1, <1>3, <2>1, OtherCallMoves
<1>4. ASSUME NEW op \in {"register", "resend", "verify"}, NEW pc \in Progress \ {"sms"},
             Begin(c, op, pc)
      PROVE  SmsInv'
  <2> DEFINE h == [NoCall EXCEPT !.op = op, !.pc = pc]
  <2>1. h \in CallType /\ h.pc = pc
    BY DEF NoCall, CallType
  <2>2. call' = [call EXCEPT ![c] = h] /\ call[c].pc = "idle"
    BY <1>4 DEF Begin, NoCall
  <2> HIDE DEF h
  <2> QED
    BY <1>1, <2>1, <2>2, OtherCallMoves
<1>5. CASE CallBegins(c)
  <2>1. CASE call' = call
    BY <1>1, <2>1, NoCallSms
  <2>2. CASE call' # call
    <3>1. \E op \in {"register", "resend", "verify"}, pc \in Progress \ {"sms"} : Begin(c, op, pc)
      BY <1>5, <2>2 DEF CallBegins, TakeLock, LoadForResend, CountAttempt, Progress
    <3> QED
      BY <1>4, <3>1
  <2> QED
    BY <2>1, <2>2
<1>6. CASE FindWallet(c) /\ wallet = None
  <2>1. PICK a \in FreshAddress :
               call' = [call EXCEPT ![c].pc = "save wallet", ![c].address = a]
    BY <1>6 DEF FindWallet
  <2>2. a \in Addresses
    BY DEF FreshAddress
  <2> DEFINE h == [call[c] EXCEPT !.pc = "save wallet", !.address = a]
  <2>3. h \in CallType /\ h.pc = "save wallet"
    <3>1. call[c] \in CallType /\ "save wallet" \in Progress
      BY Becomes DEF Progress
    <3> QED
      BY <2>2, <3>1 DEF CallType
  <2>4. call' = [call EXCEPT ![c] = h] /\ call[c].pc # "sms"
    BY <1>6, <2>1 DEF AccountInv, TypeOK, FindWallet, At
  <2> HIDE DEF h
  <2> QED
    BY <1>1, <2>3, <2>4, OtherCallMoves
<1>7. CASE \/ FindPhone(c) \/ CreateUser(c) \/ ReleaseLock(c) \/ ExpireAttempts(c)
           \/ CompareOtp(c) \/ DeleteOtp(c) \/ DeleteAttempts(c) \/ Activate(c)
           \/ (FindWallet(c) /\ wallet # None) \/ SaveWallet(c) \/ SetAddress(c)
  <2>1. call[c].pc # "sms" /\ (Return(c) \/ \E pc \in Progress \ {"sms"} : GoTo(c, pc))
    BY <1>7 DEF FindPhone, CreateUser, ReleaseLock, ExpireAttempts, CompareOtp, DeleteOtp,
       DeleteAttempts, Activate, FindWallet, SaveWallet, SetAddress, Leave, At, Progress
  <2> QED
    BY <1>2, <1>3, <2>1
<1> QED
  BY <1>5, <1>6, <1>7

LEMMA SmsInvStep == AccountInv /\ SmsInv /\ [Next]_vars => SmsInv'
<1> SUFFICES ASSUME AccountInv, SmsInv, [Next]_vars PROVE SmsInv'
  OBVIOUS
<1>1. ASSUME NEW c \in Slots, CallBegins(c) \/ CallStep(c) PROVE SmsInv'
  BY <1>1, StoreOtpSms, SendOtpSms, OtherCallSms DEF CallStep
<1>2. ASSUME faults' # 0 PROVE SmsInv'
  BY <1>2 DEF SmsInv
<1>3. ASSUME \/ \E c \in Slots : CallFails(c)
             \/ \E k \in Codes : SendSmsFails(k)
             \/ Crash
      PROVE  SmsInv'
  <2>1. faults' # 0
    BY <1>3 DEF CallFails, SendSmsFails, Crash, AccountInv, TypeOK
  <2> QED
    BY <1>2, <2>1
<1>4. ASSUME NEW k \in Codes, HandleSendSms(k) PROVE SmsInv'
  BY <1>4, HandleSendSmsSms
<1>5. CASE BlockUser \/ LockLapses \/ OtpLapses \/ AttemptsLapse
  <2>1. UNCHANGED <<outbox, sms, crossed, call, faults>> /\ otp' \in {otp, None}
    BY <1>5 DEF BlockUser, LockLapses, OtpLapses, AttemptsLapse, code
  <2> QED
    BY <2>1, NoCallSms
<1>6. CASE UNCHANGED vars
  BY <1>6, NoCallSms DEF vars, code
<1> QED
  BY <1>1, <1>3, <1>4, <1>5, <1>6 DEF Next

(* The code of the last sms is the one verify-otp compares with, when all is over, unless
   two calls crossed, two sms were on their way at once, or something failed. *)
THEOREM LastSmsWorksCorrect == Spec => []LastSmsWorks
<1>1. SmsInv => LastSmsWorks
  BY DEF SmsInv, LastSmsWorks, StoredIsSent, Sending, At, NoCall
<1>2. Spec => []SmsInv
  BY SmsInit, SmsInvStep, AccountsHold, PTL DEF Spec
<1> QED
  BY <1>1, <1>2, PTL
-----------------------------------------------------------------------------
(* The calls the counter has let through and that have not compared their code yet: with
   the comparisons made since it was cleared they are no more than it has counted. *)
Counted == {"expire", "get"}
Pending == {c \in Slots : call[c].pc \in Counted}

TriesInv ==
    /\ tries.behind => tries.made = 0
    /\ ~tries.behind => Cardinality(Pending) + tries.made <= attempts
                     /\ Cardinality(Pending) + tries.made <= 3

LEMMA PendingCounted ==
    ASSUME NEW S \in SUBSET Slots
    PROVE  IsFiniteSet(S) /\ Cardinality(S) \in Nat
BY FS_Subset, FS_CardinalityType, AccountsAssumption

LEMMA TriesInit == Init => TriesInv
<1> SUFFICES ASSUME Init PROVE TriesInv
  OBVIOUS
<1>1. Pending = {} /\ tries.made = 0 /\ attempts = 0 /\ ~tries.behind
  BY DEF Init, Pending, Counted, NoCall
<1> QED
  BY <1>1, FS_EmptySet DEF TriesInv

(* Steps after which no more calls are pending, and the counter and the comparisons made
   are as before. *)
LEMMA NoMorePending ==
    ASSUME AccountInv, TriesInv, Pending' \subseteq Pending, tries' = tries,
           attempts' \in Nat, attempts' >= attempts
    PROVE  TriesInv'
<1>1. Pending \in SUBSET Slots /\ Pending' \in SUBSET Pending
  BY DEF Pending
<1>2. /\ Cardinality(Pending') <= Cardinality(Pending)
      /\ Cardinality(Pending') \in Nat /\ Cardinality(Pending) \in Nat
  BY <1>1, PendingCounted, FS_Subset
<1>3. tries.made \in Nat /\ attempts \in Nat
  BY DEF AccountInv, TypeOK
<1> QED
  BY <1>2, <1>3 DEF TriesInv

(* A call that moves to a step where it does not wait to compare, unless it did before. *)
LEMMA MovesOn ==
    ASSUME AccountInv, TriesInv, NEW c \in Slots, NEW h \in CallType,
           call' = [call EXCEPT ![c] = h], h.pc \in Counted => call[c].pc \in Counted,
           UNCHANGED <<tries, attempts>>
    PROVE  TriesInv'
<1>1. call'[c] = h /\ \A d \in Slots : d # c => call'[d] = call[d]
  BY CallMoves
<1>2. Pending' \subseteq Pending
  BY <1>1 DEF Pending
<1>3. attempts \in Nat
  BY DEF AccountInv, TypeOK
<1> QED
  BY <1>2, <1>3, NoMorePending

LEMMA CountAttemptTries ==
    ASSUME AccountInv, TriesInv, NEW c \in Slots, CountAttempt(c) PROVE TriesInv'
<1>1. /\ attempts \in 0..4 /\ tries.made \in Nat /\ tries' = tries
      /\ attempts' = IF attempts > 3 THEN attempts ELSE attempts + 1
  BY DEF CountAttempt, AccountInv, TypeOK
<1>2. CASE attempts < 3
  <2> DEFINE step == IF attempts = 0 THEN "expire" ELSE "get"
             h == [NoCall EXCEPT !.op = "verify", !.pc = step]
  <2>0. step \in {"expire", "get"}
    OBVIOUS
  <2>1. /\ h \in CallType
        /\ call' = [call EXCEPT ![c] = h] /\ call[c].pc = "idle"
    <3>1. call' = [call EXCEPT ![c] = h] /\ call[c] = NoCall
      BY <1>2 DEF CountAttempt, Begin
    <3> HIDE DEF step
    <3>2. h \in CallType
      BY <2>0 DEF NoCall, CallType, Progress
    <3> QED
      BY <3>1, <3>2 DEF NoCall
  <2> HIDE DEF step, h
  <2>2. call'[c] = h /\ \A d \in Slots : d # c => call'[d] = call[d]
    BY <2>1, CallMoves
  <2>3. Pending' \subseteq Pending \cup {c} /\ c \notin Pending
    BY <2>1, <2>2 DEF Pending, Counted
  <2>4. Pending \in SUBSET Slots /\ Pending \cup {c} \in SUBSET Slots
    BY DEF Pending
  <2>5. Cardinality(Pending \cup {c}) = Cardinality(Pending) + 1
    BY <2>3, <2>4, PendingCounted, FS_AddElement
  <2>6. /\ Cardinality(Pending') <= Cardinality(Pending \cup {c})
        /\ Cardinality(Pending') \in Nat /\ Cardinality(Pending) \in Nat
    BY <2>3, <2>4, PendingCounted, FS_Subset
  <2> QED
    BY <1>1, <1>2, <2>5, <2>6 DEF TriesInv
<1>3. CASE ~(attempts < 3)
  <2>1. call' = call
    BY <1>3 DEF CountAttempt
  <2>2. Pending' = Pending
    BY <2>1 DEF Pending
  <2> QED
    BY <1>1, <2>2, NoMorePending
<1> QED
  BY <1>2, <1>3

LEMMA CompareOtpTries ==
    ASSUME AccountInv, TriesInv, NEW c \in Slots, CompareOtp(c) PROVE TriesInv'
<1>1. /\ call[c].pc = "get" /\ attempts' = attempts /\ attempts \in Nat
      /\ tries \in [made : Nat, behind : BOOLEAN]
      /\ tries' = IF otp = None \/ tries.behind THEN tries ELSE [tries EXCEPT !.made = @ + 1]
  <2>1. tries \in [made : Nat, behind : BOOLEAN] /\ attempts \in 0..4
    BY DEF AccountInv, TypeOK
  <2>2. /\ call[c].pc = "get" /\ attempts' = attempts
        /\ tries' = IF otp = None \/ tries.behind THEN tries ELSE [tries EXCEPT !.made = @ + 1]
    BY DEF CompareOtp, At, counter
  <2> QED
    BY <2>1, <2>2
<1>2. /\ call'[c].pc \notin Counted
      /\ \A d \in Slots : d # c => call'[d] = call[d]
  <2>1. CASE GoTo(c, "delete otp")
    <3> DEFINE h == [call[c] EXCEPT !.pc = "delete otp"]
    <3>1. h \in CallType /\ call' = [call EXCEPT ![c] = h]
      BY <2>1, Becomes DEF Progress
    <3>2. h.pc \notin Counted
      BY Becomes DEF CallType, Counted
    <3> HIDE DEF h
    <3> QED
      BY <3>1, <3>2, CallMoves
  <2>2. CASE Return(c)
    <3>1. call' = [call EXCEPT ![c] = NoCall] /\ NoCall \in CallType /\ NoCall.pc \notin Counted
      BY <2>2, Becomes DEF NoCall, Counted
    <3> QED
      BY <3>1, CallMoves
  <2> QED
    BY <2>1, <2>2 DEF CompareOtp
<1>3. c \in Pending /\ Pending' = Pending \ {c} /\ Pending \in SUBSET Slots
  BY <1>1, <1>2 DEF Pending, Counted
<1>4. /\ Cardinality(Pending') = Cardinality(Pending) - 1
      /\ Cardinality(Pending) \in Nat
  BY <1>3, PendingCounted, FS_RemoveElement
<1>5. tries'.behind = tries.behind /\ tries.made \in Nat
  BY <1>1
<1>6. tries'.made = tries.made \/ (~tries.behind /\ tries'.made = tries.made + 1)
  BY <1>1
<1> QED
  BY <1>1, <1>4, <1>5, <1>6 DEF TriesInv

(* The counter is cleared. *)
LEMMA ClearedTries ==
    ASSUME AccountInv, TriesInv, attempts' = 0, tries' = Cleared, Pending' \subseteq Pending
    PROVE  TriesInv'
<1>1. tries'.made = 0 /\ (~tries'.behind => Pending = {})
  BY DEF Cleared, Pending, Counted, At
<1> QED
  BY <1>1, FS_EmptySet DEF TriesInv

(* The calls that neither count an attempt nor compare a code nor clear the counter. *)
LEMMA OtherCallTries ==
    ASSUME AccountInv, TriesInv, NEW c \in Slots,
           \/ TakeLock(c) \/ LoadForResend(c) \/ FindPhone(c) \/ CreateUser(c) \/ StoreOtp(c)
           \/ SendOtp(c) \/ ReleaseLock(c) \/ ExpireAttempts(c) \/ DeleteOtp(c) \/ Activate(c)
           \/ FindWallet(c) \/ SaveWallet(c) \/ SetAddress(c) \/ CallFails(c)
    PROVE  TriesInv'
<1>1. UNCHANGED <<tries, attempts>>
  BY DEF TakeLock, LoadForResend, FindPhone, CreateUser, StoreOtp, SendOtp, ReleaseLock,
     ExpireAttempts, DeleteOtp, Activate, FindWallet, SaveWallet, SetAddress, CallFails, counter
<1>2. ASSUME NEW pc \in Progress, GoTo(c, pc), pc \in Counted => call[c].pc \in Counted
      PROVE  TriesInv'
  <2> DEFINE h == [call[c] EXCEPT !.pc = pc]
  <2>1. h \in CallType /\ call' = [call EXCEPT ![c] = h]
    BY <1>2, Becomes
  <2>2. h.pc = pc
    BY Becomes DEF CallType
  <2> HIDE DEF h
  <2> QED
    BY <1>1, <1>2, <2>1, <2>2, MovesOn
<1>3. ASSUME Return(c) PROVE TriesInv'
  <2>1. call' = [call EXCEPT ![c] = NoCall] /\ NoCall \in CallType /\ NoCall.pc \notin Counted
    BY <1>3, Becomes DEF NoCall, Counted
  <2> QED
    BY <1>1, <2>1, MovesOn
<1>4. CASE TakeLock(c) \/ LoadForResend(c)
  <2>1. PICK op \in {"register", "resend"}, pc \in {"find", "otp"} : Begin(c, op, pc)
    BY <1>4 DEF TakeLock, LoadForResend
  <2> DEFINE h == [NoCall EXCEPT !.op = op, !.pc = pc]
  <2>2. h \in CallType /\ h.pc \notin Counted /\ call' = [call EXCEPT ![c] = h]
    BY <2>1 DEF Begin, NoCall, CallType, Progress, Counted
  <2> HIDE DEF h
  <2> QED
    BY <1>1, <2>2, MovesOn
<1>5. CASE StoreOtp(c)
  <2>1. PICK k \in Codes : call' = [call EXCEPT ![c].pc = "sms", ![c].code = k]
    BY <1>5 DEF StoreOtp
  <2> DEFINE h == [call[c] EXCEPT !.pc = "sms", !.code = k]
  <2>2. h \in CallType /\ h.pc \notin Counted
    <3>1. call[c] \in CallType /\ "sms" \in Progress
      BY Becomes DEF Progress
    <3> QED
      BY <3>1 DEF CallType, Counted
  <2>3. call' = [call EXCEPT ![c] = h]
    BY <2>1 DEF AccountInv, TypeOK
  <2> HIDE DEF h
  <2> QED
    BY <1>1, <2>2, <2>3, MovesOn
<1>6. CASE FindWallet(c) /\ wallet = None
  <2>1. PICK a \in FreshAddress :
               call' = [call EXCEPT ![c].pc = "save wallet", ![c].address = a]
    BY <1>6 DEF FindWallet
  <2>2. a \in Addresses
    BY DEF FreshAddress
  <2> DEFINE h == [call[c] EXCEPT !.pc = "save wallet", !.address = a]
  <2>3. h \in CallType /\ h.pc \notin Counted
    <3>1. call[c] \in CallType /\ "save wallet" \in Progress
      BY Becomes DEF Progress
    <3> QED
      BY <2>2, <3>1 DEF CallType, Counted
  <2>4. call' = [call EXCEPT ![c] = h]
    BY <2>1 DEF AccountInv, TypeOK
  <2> HIDE DEF h
  <2> QED
    BY <1>1, <2>3, <2>4, MovesOn
<1>7. CASE ExpireAttempts(c)
  <2>1. call[c].pc \in Counted /\ GoTo(c, "get") /\ "get" \in Progress
    BY <1>7 DEF ExpireAttempts, At, Counted, Progress
  <2> QED
    BY <1>2, <2>1
<1>8. CASE \/ FindPhone(c) \/ CreateUser(c) \/ SendOtp(c) \/ ReleaseLock(c) \/ DeleteOtp(c)
           \/ Activate(c) \/ (FindWallet(c) /\ wallet # None) \/ SaveWallet(c)
           \/ SetAddress(c) \/ CallFails(c)
  <2>1. Return(c) \/ \E pc \in Progress \ Counted : GoTo(c, pc)
    BY <1>8 DEF FindPhone, CreateUser, SendOtp, ReleaseLock, DeleteOtp, Activate, FindWallet,
       SaveWallet, SetAddress, CallFails, Leave, Progress, Counted
  <2> QED
    BY <1>2, <1>3, <2>1
<1> QED
  BY <1>4, <1>5, <1>6, <1>7, <1>8

LEMMA TriesStep == AccountInv /\ TriesInv /\ [Next]_vars => TriesInv'
<1> SUFFICES ASSUME AccountInv, TriesInv, [Next]_vars PROVE TriesInv'
  OBVIOUS
<1>1. ASSUME NEW c \in Slots, CallBegins(c) \/ CallFails(c) PROVE TriesInv'
  BY <1>1, CountAttemptTries, OtherCallTries DEF CallBegins
<1>2. ASSUME NEW c \in Slots, DeleteAttempts(c) PROVE TriesInv'
  <2> DEFINE h == [call[c] EXCEPT !.pc = "activate"]
  <2>1. h \in CallType /\ call' = [call EXCEPT ![c] = h]
    BY <1>2, Becomes DEF DeleteAttempts, Progress
  <2>2. h.pc \notin Counted
    BY Becomes DEF CallType, Counted
  <2> HIDE DEF h
  <2>3. Pending' \subseteq Pending
    BY <2>1, <2>2, CallMoves DEF Pending
  <2> QED
    BY <1>2, <2>3, ClearedTries DEF DeleteAttempts
<1>3. ASSUME NEW c \in Slots, CallStep(c) PROVE TriesInv'
  BY <1>2, <1>3, CompareOtpTries, OtherCallTries DEF CallStep
<1>4. attempts \in Nat
  BY DEF AccountInv, TypeOK
<1>5. CASE \/ \E k \in Codes : HandleSendSms(k) \/ SendSmsFails(k)
           \/ BlockUser \/ LockLapses \/ OtpLapses
  <2>1. UNCHANGED <<call, tries, attempts>>
    BY <1>5 DEF HandleSendSms, SendSmsFails, BlockUser, LockLapses, OtpLapses, counter
  <2>2. Pending' = Pending
    BY <2>1 DEF Pending
  <2> QED
    BY <1>4, <2>1, <2>2, NoMorePending
<1>6. CASE AttemptsLapse
  <2>1. Pending' = Pending
    BY <1>6 DEF AttemptsLapse, Pending
  <2> QED
    BY <1>6, <2>1, ClearedTries DEF AttemptsLapse
<1>7. CASE Crash
  <2>1. UNCHANGED <<tries, attempts>> /\ \A d \in Slots : call'[d].pc = "idle"
    BY <1>7 DEF Crash, NoCall, counter
  <2>2. Pending' = {}
    BY <2>1 DEF Pending, Counted
  <2> QED
    BY <1>4, <2>1, <2>2, NoMorePending
<1>8. CASE UNCHANGED vars
  <2>1. UNCHANGED <<call, tries, attempts>>
    BY <1>8 DEF vars, counter
  <2>2. Pending' = Pending
    BY <2>1 DEF Pending
  <2> QED
    BY <1>4, <2>1, <2>2, NoMorePending
<1> QED
  BY <1>1, <1>3, <1>5, <1>6, <1>7, <1>8 DEF Next

(* For any number of verifications at once, at most three codes are compared between two
   clearings of the counter, calls left over from before a clearing aside. *)
THEOREM ThreeAttemptsCorrect == Spec => []ThreeAttempts
<1>1. AccountInv /\ TriesInv => ThreeAttempts
  <2> SUFFICES ASSUME AccountInv, TriesInv PROVE tries.made <= 3
    BY DEF ThreeAttempts
  <2>1. tries.made \in Nat /\ tries.behind \in BOOLEAN
    BY DEF AccountInv, TypeOK
  <2>2. Cardinality(Pending) \in Nat
    BY PendingCounted DEF Pending
  <2> QED
    BY <2>1, <2>2 DEF TriesInv
<1>2. Spec => []TriesInv
  BY TriesInit, TriesStep, AccountsHold, PTL DEF Spec
<1> QED
  BY <1>1, <1>2, AccountsHold, PTL
=============================================================================
