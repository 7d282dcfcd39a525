------------------------------ MODULE Accounts ------------------------------
(***************************************************************************)
(* AuthService (src/src/modules/auth/auth.service.ts), but for sessions,   *)
(* and the creation of custodial wallets                                   *)
(* (src/src/modules/wallets/wallets.service.ts), for one phone number:     *)
(* registration under a lock in Redis, codes sent by sms, their            *)
(* verification with a counter of attempts, and the wallet created behind  *)
(* the answer; and NotificationsProcessor, which sends the sms.  One action *)
(* is the code from one await to the next.  Twilio is configured.  Every   *)
(* key of Redis but the counter is written with its time to live in one    *)
(* command; the counter gets its own in a second one.                      *)
(***************************************************************************)
EXTENDS Naturals, FiniteSets

CONSTANTS
    Slots,       \* slots for calls in progress
    Codes,       \* one-time codes: generateOtp may draw the same one again
    Addresses,   \* addresses of new wallets
    None,        \* no code, no wallet
    MaxSms,      \* bound on the sms jobs that wait with one code
    MaxFaults    \* bound on failed awaits, failed jobs and restarts

ASSUME AccountsAssumption ==
    /\ None \notin Codes \cup Addresses
    /\ IsFiniteSet(Slots)
    /\ {MaxSms, MaxFaults} \subseteq Nat

VARIABLES
    user,       \* the row of the phone: "ABSENT", or is_active ("ACTIVE") or not
    address,    \* its wallet_address
    wallet,     \* the address of its row in wallets (user_id is unique there)
    lock,       \* lock:register:<phone> is set
    otp,        \* the code stored in otp:<phone>
    outbox,     \* the send-sms jobs in the queue: how many with each code
    sms,        \* the code of the last sms sent
    attempts,   \* otp_attempts:<phone>, 0 when there is no key, 4 for more than 3
    ttl,        \* that key has a time to live
    call,       \* the calls in progress
    faults,
    lapsed,     \* the lock has expired under a registration (history)
    crossed,    \* two calls have stored and sent codes across each other, or two sms
                \* were in the queue at once (history)
    tries       \* comparisons since the counter was cleared, and whether a call
                \* already counted was still to make its own then (history)

code == <<otp, outbox, sms, crossed>>
counter == <<attempts, ttl>>
account == <<user, address, wallet>>
registration == <<lock, lapsed>>
vars == <<account, registration, code, counter, tries, call, faults>>

NoCall == [op |-> "none", pc |-> "idle", code |-> None, address |-> None]

Begin(c, op, pc) ==
    /\ call[c] = NoCall
    /\ call' = [call EXCEPT ![c] = [NoCall EXCEPT !.op = op, !.pc = pc]]

At(c, pc) == call[c].pc = pc
GoTo(c, pc) == call' = [call EXCEPT ![c].pc = pc]
Return(c) == call' = [call EXCEPT ![c] = NoCall]

(* register's finally: whatever happens after the lock is taken, it is given back. *)
Leave(c) == IF call[c].op = "register" THEN GoTo(c, "unlock") ELSE Return(c)

Init ==
    /\ user = "ABSENT" /\ address = None /\ wallet = None
    /\ lock = FALSE /\ lapsed = FALSE
    /\ otp = None /\ sms = None /\ crossed = FALSE
    /\ outbox = [k \in Codes |-> 0]
    /\ attempts = 0 /\ ttl = FALSE
    /\ tries = [made |-> 0, behind |-> FALSE]
    /\ call = [c \in Slots |-> NoCall]
    /\ faults = 0

-----------------------------------------------------------------------------
(* Mutant: SET without NX. *)
TakeLockPlain(c) ==
    /\ Begin(c, "register", "find")
    /\ lock' = TRUE
    /\ UNCHANGED <<account, lapsed, code, counter, tries, faults>>

(* register: SET lock NX; a call that does not get the lock is refused. *)
TakeLock(c) ==
    /\ ~lock
    /\ Begin(c, "register", "find")
    /\ lock' = TRUE
    /\ UNCHANGED <<account, lapsed, code, counter, tries, faults>>

(* The phone is looked up; the password is hashed before the row is written. *)
FindPhone(c) ==
    /\ At(c, "find")
    /\ IF user = "ABSENT" THEN GoTo(c, "create") ELSE Leave(c)
    /\ UNCHANGED <<account, registration, code, counter, tries, faults>>

(* users.phone is unique: a second insert throws. *)
CreateUser(c) ==
    /\ At(c, "create")
    /\ IF user = "ABSENT" THEN user' = "PENDING" /\ GoTo(c, "otp")
                          ELSE user' = user /\ Leave(c)
    /\ UNCHANGED <<address, wallet, registration, code, counter, tries, faults>>

(* resendOtp: for an account that exists and is not active. *)
LoadForResend(c) ==
    /\ user = "PENDING"
    /\ Begin(c, "resend", "otp")
    /\ UNCHANGED <<account, registration, code, counter, tries, faults>>

(* A code is drawn and stored, in the place of any other. *)
StoreOtp(c) ==
    /\ At(c, "otp")
    /\ \E k \in Codes :
          /\ otp' = k
          /\ call' = [call EXCEPT ![c].pc = "sms", ![c].code = k]
    /\ crossed' = (crossed \/ \E d \in Slots : At(d, "sms"))
    /\ UNCHANGED <<account, registration, outbox, sms, counter, tries, faults>>

Waiting == \E k \in Codes : outbox[k] > 0

(* Mutant: the sms draws a code of its own. *)
SendOtpRedrawn(c) ==
    /\ At(c, "sms")
    /\ \E k \in Codes : outbox[k] < MaxSms /\ outbox' = [outbox EXCEPT ![k] = @ + 1]
    /\ crossed' = (crossed \/ Waiting)
    /\ Leave(c)
    /\ UNCHANGED <<account, registration, otp, sms, counter, tries, faults>>

(* notificationsQueue.add('send-sms'). *)
SendOtp(c) ==
    /\ At(c, "sms")
    /\ outbox[call[c].code] < MaxSms
    /\ outbox' = [outbox EXCEPT ![call[c].code] = @ + 1]
    /\ crossed' = (crossed \/ Waiting)
    /\ Leave(c)
    /\ UNCHANGED <<account, registration, otp, sms, counter, tries, faults>>

ReleaseLock(c) ==
    /\ At(c, "unlock")
    /\ lock' = FALSE
    /\ Return(c)
    /\ UNCHANGED <<account, lapsed, code, counter, tries, faults>>

-----------------------------------------------------------------------------
(* NotificationsProcessor.handleSendSms.  Bull runs as many jobs of a queue at once as
   its processor has named handlers, two here: an sms may overtake another. *)
HandleSendSms(k) ==
    /\ outbox[k] > 0
    /\ outbox' = [outbox EXCEPT ![k] = @ - 1]
    /\ sms' = k
    /\ UNCHANGED <<account, registration, otp, crossed, counter, tries, call, faults>>

(* Twilio refuses, and the job, which has one attempt, fails: the sms is lost. *)
SendSmsFails(k) ==
    /\ outbox[k] > 0
    /\ faults < MaxFaults
    /\ faults' = faults + 1
    /\ outbox' = [outbox EXCEPT ![k] = @ - 1]
    /\ UNCHANGED <<account, registration, otp, sms, crossed, counter, tries, call>>

-----------------------------------------------------------------------------
(* Mutant: the time to live is set by the call that is refused. *)
CountAttemptLate(c) ==
    /\ Begin(c, "verify", IF attempts >= 3 THEN "expire" ELSE "get")
    /\ attempts' = IF attempts > 3 THEN attempts ELSE attempts + 1
    /\ UNCHANGED <<account, registration, code, ttl, tries, faults>>

(* Mutant: four attempts are let through. *)
CountAttemptFour(c) ==
    /\ attempts <= 3
    /\ Begin(c, "verify", IF attempts = 0 THEN "expire" ELSE "get")
    /\ attempts' = attempts + 1
    /\ UNCHANGED <<account, registration, code, ttl, tries, faults>>

(* verifyOtp: INCR first.  The first attempt goes on to set the time to live; past
   the third, the call is refused. *)
CountAttempt(c) ==
    /\ IF attempts < 3
       THEN Begin(c, "verify", IF attempts = 0 THEN "expire" ELSE "get")
       ELSE call[c] = NoCall /\ call' = call
    /\ attempts' = IF attempts > 3 THEN attempts ELSE attempts + 1
    /\ UNCHANGED <<account, registration, code, ttl, tries, faults>>

(* EXPIRE, of a key that a success may have deleted meanwhile. *)
ExpireAttempts(c) ==
    /\ At(c, "expire")
    /\ ttl' = (attempts > 0)
    /\ GoTo(c, "get")
    /\ UNCHANGED <<account, registration, code, attempts, tries, faults>>

(* The code is read and compared: it is the right one or not. *)
CompareOtp(c) ==
    /\ At(c, "get")
    /\ \/ otp # None /\ GoTo(c, "delete otp")
       \/ Return(c)
    /\ tries' = IF otp = None \/ tries.behind THEN tries ELSE [tries EXCEPT !.made = @ + 1]
    /\ UNCHANGED <<account, registration, code, counter, faults>>

DeleteOtp(c) ==
    /\ At(c, "delete otp")
    /\ otp' = None
    /\ GoTo(c, "delete attempts")
    /\ UNCHANGED <<account, registration, outbox, sms, crossed, counter, tries, faults>>

Cleared == [made |-> 0, behind |-> \E c \in Slots : At(c, "expire") \/ At(c, "get")]

DeleteAttempts(c) ==
    /\ At(c, "delete attempts")
    /\ attempts' = 0 /\ ttl' = FALSE
    /\ tries' = Cleared
    /\ GoTo(c, "activate")
    /\ UNCHANGED <<account, registration, code, faults>>

(* Mutant: the status of another column. *)
ActivateVerified(c) ==
    /\ At(c, "activate")
    /\ user' = "VERIFIED"
    /\ GoTo(c, "find wallet")
    /\ UNCHANGED <<address, wallet, registration, code, counter, tries, faults>>

(* The user is looked up (none is ever deleted) and activated; the creation of the
   wallet goes on behind the answer. *)
Activate(c) ==
    /\ At(c, "activate")
    /\ user' = "ACTIVE"
    /\ GoTo(c, "find wallet")
    /\ UNCHANGED <<address, wallet, registration, code, counter, tries, faults>>

-----------------------------------------------------------------------------
(* createWalletForUser: unless there is one, a new key pair.  An address that is
   nowhere else is as good as a new one. *)
FreshAddress == Addresses \ ({wallet, address} \cup {call[c].address : c \in Slots})

FindWallet(c) ==
    /\ At(c, "find wallet")
    /\ IF wallet # None
       THEN Return(c)
       ELSE \E a \in FreshAddress :
               call' = [call EXCEPT ![c].pc = "save wallet", ![c].address = a]
    /\ UNCHANGED <<account, registration, code, counter, tries, faults>>

(* Mutant: the row in place is overwritten. *)
SaveWalletOver(c) ==
    /\ At(c, "save wallet")
    /\ wallet' = call[c].address
    /\ GoTo(c, "set address")
    /\ UNCHANGED <<user, address, registration, code, counter, tries, faults>>

(* wallets.user_id is unique: a second insert throws, and the error is logged. *)
SaveWallet(c) ==
    /\ At(c, "save wallet")
    /\ IF wallet = None THEN wallet' = call[c].address /\ GoTo(c, "set address")
                        ELSE wallet' = wallet /\ Return(c)
    /\ UNCHANGED <<user, address, registration, code, counter, tries, faults>>

SetAddress(c) ==
    /\ At(c, "set address")
    /\ address' = call[c].address
    /\ Return(c)
    /\ UNCHANGED <<user, wallet, registration, code, counter, tries, faults>>

-----------------------------------------------------------------------------
(* AdminService.blockUser. *)
BlockUser ==
    /\ user = "ACTIVE"
    /\ user' = "PENDING"
    /\ UNCHANGED <<address, wallet, registration, code, counter, tries, call, faults>>

-----------------------------------------------------------------------------
(* Redis removes a key whose time is over. *)
LockLapses ==
    /\ lock
    /\ lock' = FALSE
    /\ lapsed' = (lapsed \/ \E c \in Slots : call[c].op = "register")
    /\ UNCHANGED <<account, code, counter, tries, call, faults>>

OtpLapses ==
    /\ otp # None
    /\ otp' = None
    /\ UNCHANGED <<account, registration, outbox, sms, crossed, counter, tries, call, faults>>

AttemptsLapse ==
    /\ ttl
    /\ attempts' = 0 /\ ttl' = FALSE
    /\ tries' = Cleared
    /\ UNCHANGED <<account, registration, code, call, faults>>

(* An await throws (the database or Redis is away): register still gives its lock
   back; any other call ends where it is. *)
CallFails(c) ==
    /\ call[c] # NoCall
    /\ faults < MaxFaults
    /\ faults' = faults + 1
    /\ IF At(c, "unlock") THEN Return(c) ELSE Leave(c)
    /\ UNCHANGED <<account, registration, code, counter, tries>>

(* The process is restarted: every call ends where it is.  Bull runs the sms jobs again
   that were in progress, also the one whose sms Twilio had taken. *)
Crash ==
    /\ faults < MaxFaults
    /\ faults' = faults + 1
    /\ call' = [c \in Slots |-> NoCall]
    /\ sms' \in {sms} \cup {k \in Codes : outbox[k] > 0}
    /\ UNCHANGED <<account, registration, otp, outbox, crossed, counter, tries>>

CallStep(c) ==
    \/ FindPhone(c) \/ CreateUser(c) \/ StoreOtp(c) \/ SendOtp(c) \/ ReleaseLock(c)
    \/ ExpireAttempts(c) \/ CompareOtp(c) \/ DeleteOtp(c) \/ DeleteAttempts(c)
    \/ Activate(c) \/ FindWallet(c) \/ SaveWallet(c) \/ SetAddress(c)

CallBegins(c) == TakeLock(c) \/ LoadForResend(c) \/ CountAttempt(c)

Next ==
    \/ \E c \in Slots : CallBegins(c) \/ CallStep(c) \/ CallFails(c)
    \/ \E k \in Codes : HandleSendSms(k) \/ SendSmsFails(k)
    \/ BlockUser \/ Crash \/ LockLapses \/ OtpLapses \/ AttemptsLapse

Spec == Init /\ [][Next]_vars

-----------------------------------------------------------------------------
Progress == {"idle", "find", "create", "otp", "sms", "unlock", "expire", "get",
             "delete otp", "delete attempts", "activate", "find wallet", "save wallet",
             "set address"}

(* Types. *)
TypeOK ==
    /\ user \in {"ABSENT", "PENDING", "ACTIVE"}
    /\ {address, wallet} \subseteq Addresses \cup {None}
    /\ {lock, lapsed, crossed, ttl} \subseteq BOOLEAN
    /\ {otp, sms} \subseteq Codes \cup {None}
    /\ outbox \in [Codes -> Nat]
    /\ attempts \in 0..4
    /\ tries \in [made : Nat, behind : BOOLEAN]
    /\ call \in [Slots -> [op : {"none", "register", "resend", "verify"},
                           pc : Progress, code : Codes \cup {None},
                           address : Addresses \cup {None}]]
    /\ faults \in 0..MaxFaults

(* A registration that has found the phone free, and then hashes the password, still
   finds it free when it writes the row, as long as no lock has expired under one:
   the phone never meets the unique index (an error 500 where a 409 is meant). *)
LockGuardsPhone == ~lapsed => \A c \in Slots : At(c, "create") => user = "ABSENT"

(* The code of the last sms to arrive is the one that verify-otp compares with, once
   nothing is in progress, unless two calls crossed, two sms were on their way at once, or
   something failed (resendOtp, handleSendSms). *)
LastSmsWorks ==
    otp # None /\ ~crossed /\ faults = 0 /\ ~Waiting /\ (\A c \in Slots : call[c] = NoCall)
        => sms = otp

(* A counter of attempts has a time to live, or a call that is about to set it, unless
   one was cut off in between: it does not lock the phone for good. *)
AttemptsExpire ==
    attempts > 0 /\ faults = 0 => ttl \/ \E c \in Slots : At(c, "expire")

(* Between two clearings of the counter at most three codes are compared, unless a call
   it had let through was still to compare its own when it was cleared. *)
ThreeAttempts == tries.made <= 3

(* The address the user's row shows is that of the wallet whose key is kept, whatever
   number of verifications succeed at once. *)
AddressMatches == address # None => address = wallet
=============================================================================
