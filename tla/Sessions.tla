------------------------------ MODULE Sessions ------------------------------
(***************************************************************************)
(* The sessions of one user: login, refreshTokens and logout of            *)
(* AuthService (src/src/modules/auth/auth.service.ts) and                  *)
(* JwtStrategy.validate.  A token is written as the second it is signed    *)
(* in: it holds the user's id, phone and role and that second, so that two *)
(* tokens signed in one second are the same string.  One number stands for *)
(* the access token and the refresh token that are signed together.        *)
(* There is one key refresh_token:<user>, whatever number of devices.      *)
(*                                                                         *)
(* A token's date is a whole second; the clock, and with it the time at    *)
(* which Redis handles a command, is finer (Parts to the second).  The     *)
(* service and Redis read the same clock.                                  *)
(***************************************************************************)
EXTENDS Naturals, FiniteSets

CONSTANTS
    Slots,       \* slots for requests in progress
    MaxSecond,   \* bound on the seconds that pass
    Parts,       \* instants told apart in a second
    AccessLife,  \* seconds an access token is good for
    MaxFaults    \* bound on failed awaits, restarts and restored snapshots

ASSUME SessionsAssumption ==
    /\ {MaxSecond, Parts, AccessLife} \subseteq Nat \ {0}
    /\ MaxFaults \in Nat

VARIABLES
    active,      \* the user's is_active
    refresh,     \* the token in refresh_token:<user>, 0 when there is no key
    black,       \* for a token, the instant its key blacklist:<token> lapses, or Never
    issued,      \* tokens stored so far, which clients may have
    now,         \* the second of the clock
    part,        \* and the part of it
    call,        \* requests in progress
    faults,
    ended,       \* a logout deleted the key or returned, and no login since (history)
    outlived,    \* what may have left a refresh token behind since (history)
    revoked,     \* access tokens whose logout has returned (history)
    unlisted,    \* those whose key failed to be set, or was lost (history)
    overlapped   \* two requests that issue tokens were once in progress (history)

history == <<ended, outlived, revoked, unlisted, overlapped>>
tokens == <<refresh, black, issued>>
clock == <<now, part>>
vars == <<active, tokens, clock, call, faults, history>>

Token == 1..MaxSecond
Instant == [second : 0..MaxSecond + AccessLife, part : 0..Parts - 1]
Never == [second |-> 0, part |-> 0]
NoCall == [op |-> "none", pc |-> "idle", old |-> 0, token |-> 0, left |-> 0]

At(c, pc) == call[c].pc = pc
Return(c) == call' = [call EXCEPT ![c] = NoCall]

Begin(c, op, pc, t) ==
    /\ call[c] = NoCall
    /\ call' = [call EXCEPT ![c] = [op |-> op, pc |-> pc, old |-> t, token |-> 0,
                                    left |-> 0]]

Issuing(c) == call[c].op \in {"login", "refresh"}

(* Of an access token: past its date, which jsonwebtoken takes in whole seconds. *)
Dated(t) == now >= t + AccessLife

(* Its key is in the blacklist. *)
Listed(t) ==
    \/ now < black[t].second
    \/ now = black[t].second /\ part < black[t].part

Init ==
    /\ active = TRUE
    /\ refresh = 0 /\ black = [t \in Token |-> Never] /\ issued = {}
    /\ now = 1 /\ part = 0
    /\ call = [c \in Slots |-> NoCall]
    /\ faults = 0
    /\ ended = FALSE /\ outlived = {} /\ revoked = {} /\ unlisted = {} /\ overlapped = FALSE

-----------------------------------------------------------------------------
(* validateUser: an active account; the right password. *)
LoadForLogin(c) ==
    /\ active
    /\ Begin(c, "login", "sign", 0)
    /\ overlapped' = (overlapped \/ \E d \in Slots : Issuing(d))
    /\ UNCHANGED <<active, tokens, clock, faults, ended, outlived, revoked, unlisted>>

(* Mutant: any token that was signed is taken. *)
LoadForRefreshSigned(c, t) ==
    /\ Begin(c, "refresh", "sign", 0)
    /\ overlapped' = (overlapped \/ \E d \in Slots : Issuing(d))
    /\ UNCHANGED <<active, tokens, clock, faults, ended, outlived, revoked, unlisted>>

(* refreshTokens: the token presented must be the one stored.  The await that follows
   examines its signature and its date; the date is that of the key. *)
LoadForRefresh(c, t) ==
    /\ refresh = t
    /\ Begin(c, "refresh", "sign", 0)
    /\ overlapped' = (overlapped \/ \E d \in Slots : Issuing(d))
    /\ UNCHANGED <<active, tokens, clock, faults, ended, outlived, revoked, unlisted>>

(* Mutant: the date is rounded up. *)
SignTokensCeil(c) ==
    /\ At(c, "sign")
    /\ call' = [call EXCEPT ![c].pc = "store", ![c].token = now + 1]
    /\ UNCHANGED <<active, tokens, clock, faults, history>>

(* login goes on to sign at once; refreshTokens first reads the user, who exists. *)
SignTokens(c) ==
    /\ At(c, "sign")
    /\ call' = [call EXCEPT ![c].pc = "store", ![c].token = now]
    /\ UNCHANGED <<active, tokens, clock, faults, history>>

(* Mutant: a refresh signs new tokens and leaves the one stored. *)
StoreTokenOfLogin(c) ==
    /\ At(c, "store")
    /\ refresh' = IF call[c].op = "login" THEN call[c].token ELSE refresh
    /\ issued' = issued \cup {call[c].token}
    /\ ended' = (ended /\ call[c].op # "login")
    /\ outlived' = IF call[c].op = "login" THEN {} ELSE outlived
    /\ Return(c)
    /\ UNCHANGED <<active, black, clock, faults, revoked, unlisted, overlapped>>

(* SET refresh_token, whatever is stored now; then the answer. *)
StoreToken(c) ==
    /\ At(c, "store")
    /\ refresh' = call[c].token
    /\ issued' = issued \cup {call[c].token}
    /\ ended' = (ended /\ call[c].op # "login")
    /\ outlived' = IF call[c].op = "login" THEN {} ELSE outlived
    /\ Return(c)
    /\ UNCHANGED <<active, black, clock, faults, revoked, unlisted, overlapped>>

(* The guard of a logout, which runs twice with the same outcome but for what passes in
   between: a token not past its date, then (a second await) not in the blacklist, then
   (a third) an active user. *)
VerifyToken(c, t) ==
    /\ ~Dated(t)
    /\ Begin(c, "logout", "validate", t)
    /\ UNCHANGED <<active, tokens, clock, faults, history>>

(* JwtStrategy.validate. *)
ReadBlacklist(c) ==
    /\ At(c, "validate")
    /\ IF Listed(call[c].old) THEN Return(c) ELSE call' = [call EXCEPT ![c].pc = "user"]
    /\ UNCHANGED <<active, tokens, clock, faults, history>>

FindUser(c) ==
    /\ At(c, "user")
    /\ IF active THEN call' = [call EXCEPT ![c].pc = "delete"] ELSE Return(c)
    /\ UNCHANGED <<active, tokens, clock, faults, history>>

(* logout: Redis handles the DEL. *)
DeleteRefresh(c) ==
    /\ At(c, "delete")
    /\ refresh' = 0
    /\ call' = [call EXCEPT ![c].pc = "date"]
    /\ ended' = TRUE
    /\ outlived' = {r \in {"refresh"} : \E d \in Slots : call[d].op = "refresh"}
    /\ UNCHANGED <<active, black, issued, clock, faults, revoked, unlisted, overlapped>>

(* The logout goes on, or returns, with left seconds of its token to come. *)
GoOnWith(c, left) ==
    /\ At(c, "date")
    /\ IF left > 0
       THEN call' = [call EXCEPT ![c].pc = "blacklist", ![c].left = left] /\ UNCHANGED revoked
       ELSE Return(c) /\ revoked' = revoked \cup {call[c].old}
    /\ UNCHANGED <<active, tokens, clock, faults, ended, outlived, unlisted, overlapped>>

SecondsTo(t, second) == IF second < t + AccessLife THEN t + AccessLife - second ELSE 0

(* Mutant: the clock is rounded up. *)
ComputeLifeCeil(c) == GoOnWith(c, SecondsTo(call[c].old, IF part = 0 THEN now ELSE now + 1))

(* decoded.exp - Math.floor(Date.now() / 1000), when the DEL has been answered: no key for
   a token already past its date. *)
ComputeLife(c) == GoOnWith(c, SecondsTo(call[c].old, now))

(* Redis handles the SET ... EX, some time later: the key lives so many seconds from there,
   to the part of a second. *)
Blacklist(c) ==
    LET t == call[c].old IN
    /\ At(c, "blacklist")
    /\ black' = [black EXCEPT ![t] = [second |-> now + call[c].left, part |-> part]]
    /\ revoked' = revoked \cup {t}
    /\ unlisted' = unlisted \ {t}
    /\ Return(c)
    /\ UNCHANGED <<active, refresh, issued, clock, faults, ended, outlived, overlapped>>

(* The catch of logout: its DEL fails, before Redis handles it ("delete") or after
   ("date"), or its SET does.  What was to follow is left out, and the logout answers
   LOGGED_OUT_SUCCESSFULLY all the same. *)
LogoutErrorSwallowed(c) ==
    LET t == call[c].old IN
    /\ call[c].pc \in {"delete", "date", "blacklist"}
    /\ faults < MaxFaults
    /\ faults' = faults + 1
    /\ ended' = (ended \/ At(c, "delete"))
    /\ outlived' = outlived \cup {r \in {"failed"} : At(c, "delete")}
    /\ revoked' = revoked \cup {t}
    /\ unlisted' = unlisted \cup {u \in {t} : ~Listed(u)}
    /\ Return(c)
    /\ UNCHANGED <<active, tokens, clock, overlapped>>

-----------------------------------------------------------------------------
(* AdminService.blockUser, and the activation that verify-otp makes. *)
SetActive ==
    /\ active' = ~active
    /\ UNCHANGED <<tokens, clock, call, faults, history>>

Tick ==
    /\ now < MaxSecond
    /\ \/ part + 1 < Parts /\ part' = part + 1 /\ now' = now
       \/ part + 1 = Parts /\ part' = 0 /\ now' = now + 1
    /\ UNCHANGED <<active, tokens, call, faults, history>>

(* Seven days after it was stored, when the access token signed with it is long past its
   own date. *)
RefreshExpires ==
    /\ refresh # 0 /\ Dated(refresh)
    /\ refresh' = 0
    /\ UNCHANGED <<active, black, issued, clock, call, faults, history>>

(* Another await fails, and the request answers an error. *)
CallFails(c) ==
    /\ call[c].pc \in {"sign", "store", "validate", "user"}
    /\ faults < MaxFaults
    /\ faults' = faults + 1
    /\ Return(c)
    /\ UNCHANGED <<active, tokens, clock, history>>

(* The process restarts: no request in progress is answered. *)
Restart ==
    /\ faults < MaxFaults
    /\ faults' = faults + 1
    /\ call' = [c \in Slots |-> NoCall]
    /\ UNCHANGED <<active, tokens, clock, history>>

(* Redis starts again from its last snapshot: what was set since is gone, and what it held
   then is back, a refresh token stored earlier or none. *)
RedisRestored(t, lost) ==
    /\ t # refresh \/ lost # {}
    /\ faults < MaxFaults
    /\ faults' = faults + 1
    /\ refresh' = t
    /\ black' = [u \in Token |-> IF u \in lost THEN Never ELSE black[u]]
    /\ outlived' = outlived \cup {r \in {"restored"} : t # refresh}
    /\ unlisted' = unlisted \cup lost
    /\ UNCHANGED <<active, issued, clock, call, ended, revoked, overlapped>>

Next ==
    \/ \E c \in Slots :
          \/ LoadForLogin(c) \/ SignTokens(c) \/ StoreToken(c)
          \/ ReadBlacklist(c) \/ FindUser(c)
          \/ DeleteRefresh(c) \/ ComputeLife(c) \/ Blacklist(c) \/ LogoutErrorSwallowed(c)
          \/ CallFails(c)
          \/ \E t \in issued : LoadForRefresh(c, t) \/ VerifyToken(c, t)
    \/ SetActive \/ Tick \/ RefreshExpires \/ Restart
    \/ \E t \in issued \cup {0} : \E lost \in SUBSET {u \in revoked : Listed(u)} :
          RedisRestored(t, lost)

Spec == Init /\ [][Next]_vars

-----------------------------------------------------------------------------
(* Types. *)
TypeOK ==
    /\ {active, ended, overlapped} \subseteq BOOLEAN
    /\ outlived \subseteq {"refresh", "failed", "restored"}
    /\ refresh \in Token \cup {0}
    /\ black \in [Token -> Instant]
    /\ issued \subseteq Token
    /\ revoked \cup unlisted \subseteq issued
    /\ now \in Token /\ part \in 0..Parts - 1
    /\ call \in [Slots -> [op : {"none", "login", "refresh", "logout"},
                           pc : {"idle", "sign", "store", "validate", "user", "delete",
                                 "date", "blacklist"},
                           old : Token \cup {0}, token : Token \cup {0},
                           left : 0..AccessLife]]
    /\ faults \in 0..MaxFaults

(* After a logout no refresh token is stored until the next login, but in three cases: a
   refresh was in progress when the stored one was deleted (it then stores its own), the
   deletion failed and nobody was told, or Redis went back to an earlier snapshot. *)
SessionEnds == ended /\ outlived = {} => refresh = 0

(* An access token whose logout has returned is refused for the rest of its life, unless
   the logout swallowed an error or Redis lost the key: the key in the blacklist, whose
   time is counted in whole seconds from when it is set, is not gone before the token is
   past its date. *)
RevokedIsRefused == \A t \in revoked \ unlisted : Listed(t) \/ Dated(t)

(* The refresh token stored is the last one signed, so that one that was exchanged for
   another is not taken again, unless two requests that issue tokens overlapped or Redis
   went back to an earlier snapshot. *)
LatestIsStored ==
    ~overlapped /\ "restored" \notin outlived /\ refresh # 0 =>
        \A t \in issued : t <= refresh
=============================================================================
