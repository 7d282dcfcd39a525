--------------------------- MODULE Sessions_proofs ---------------------------
(* Proofs about Sessions, for any number of requests in progress and of seconds. *)
EXTENDS Sessions, TLAPS

CallType == [op : {"none", "login", "refresh", "logout"},
             pc : {"idle", "sign", "store", "validate", "user", "delete", "date", "blacklist"},
             old : Token \cup {0}, token : Token \cup {0}, left : 0..AccessLife]

LogoutPc == {"validate", "user", "delete", "date", "blacklist"}

(* What a request carries: a logout the token it came with, and, once computed, a time that
   reaches that token's date from now on; a request about to store a token the one it
   signed, no later than now; and only those that issue tokens store any. *)
CallKnows(c) ==
    /\ call[c].op = "logout" => call[c].old \in issued
    /\ call[c].pc = "store" => call[c].token \in 1..now
    /\ call[c].pc \in {"sign", "store"} <=> Issuing(c)
    /\ call[c].pc \in LogoutPc => call[c].op = "logout"
    /\ call[c].pc = "blacklist" => now + call[c].left >= call[c].old + AccessLife

(* The tokens in clients' hands were signed by now. *)
IssuedByNow == issued \subseteq 1..now

(* A key in the blacklist lapses in the second of its token's date, or later. *)
KeyReachesDate == \A t \in Token : black[t] = Never \/ black[t].second >= t + AccessLife

(* A token whose logout has returned, and whose key neither failed to be set nor was lost,
   has had its key, or needs none. *)
KeyWasSet == \A t \in revoked \ unlisted : black[t] # Never \/ Dated(t)

(* Once a session has ended, with none of the three excuses, no refresh that could bring it
   back is in progress. *)
EndedForGood ==
    ended /\ outlived = {} => refresh = 0 /\ \A c \in Slots : call[c].op # "refresh"

(* As long as no two requests that issue tokens overlapped there is one at a time, and the
   token it has signed is later than any that was issued. *)
OneIssuer ==
    ~overlapped =>
        /\ \A c, d \in Slots : Issuing(c) /\ Issuing(d) => c = d
        /\ \A c \in Slots : call[c].pc = "store" => \A t \in issued : t <= call[c].token

SessionInv ==
    /\ TypeOK
    /\ IssuedByNow
    /\ \A c \in Slots : CallKnows(c)
    /\ KeyReachesDate
    /\ KeyWasSet
    /\ EndedForGood
    /\ OneIssuer
    /\ LatestIsStored

LEMMA SessionInit == Init => SessionInv
<1> SUFFICES ASSUME Init PROVE SessionInv
  OBVIOUS
<1> USE SessionsAssumption DEF Init, Token, NoCall
<1>1. TypeOK
  <2>1. call \in [Slots -> CallType] /\ now \in Token /\ part \in 0..Parts - 1
    BY DEF CallType
  <2>2. active \in BOOLEAN /\ ended \in BOOLEAN /\ overlapped \in BOOLEAN
    OBVIOUS
  <2>3. faults \in 0..MaxFaults
    OBVIOUS
  <2>4. Never \in Instant
    BY DEF Never, Instant
  <2>5. black \in [Token -> Instant]
    BY <2>4
  <2> QED
    BY <2>1, <2>2, <2>3, <2>5 DEF TypeOK, CallType
<1>2. \A c \in Slots : CallKnows(c)
  BY DEF CallKnows, Issuing, LogoutPc
<1>3. IssuedByNow /\ EndedForGood /\ KeyReachesDate /\ KeyWasSet
  BY DEF IssuedByNow, EndedForGood, KeyReachesDate, KeyWasSet
<1>4. OneIssuer /\ LatestIsStored
  BY DEF OneIssuer, LatestIsStored, Issuing
<1> QED
  BY <1>1, <1>2, <1>3, <1>4 DEF SessionInv

(* A request moves and everything else stays: only what it knows is to be shown. *)
LEMMA RequestMoves ==
    ASSUME SessionInv, NEW c \in Slots, NEW h \in CallType,
           call' = [call EXCEPT ![c] = h], UNCHANGED <<active, tokens, clock, unlisted>>,
           \/ revoked' = revoked
           \/ /\ revoked' = revoked \cup {call[c].old} /\ Dated(call[c].old)
              /\ call[c].op = "logout",
           faults' \in 0..MaxFaults, ended' = ended, outlived' = outlived,
           overlapped' \in BOOLEAN,
           h.op = "logout" => h.old \in issued,
           h.pc = "store" => h.token \in 1..now,
           h.pc \in {"sign", "store"} <=> h.op \in {"login", "refresh"},
           h.pc \in LogoutPc => h.op = "logout",
           h.pc = "blacklist" => now + h.left >= h.old + AccessLife,
           h.op = "refresh" => refresh # 0 \/ call[c].op = "refresh",
           ~overlapped' => /\ ~overlapped
                           /\ h.op \in {"login", "refresh"} =>
                                 Issuing(c) \/ \A d \in Slots : ~Issuing(d)
                           /\ h.pc = "store" => \A t \in issued : t <= h.token
    PROVE  SessionInv'
<1>1. /\ TypeOK /\ IssuedByNow /\ EndedForGood /\ KeyReachesDate /\ KeyWasSet /\ OneIssuer
      /\ LatestIsStored
  BY DEF SessionInv
<1>2. call \in [Slots -> CallType]
  BY <1>1 DEF TypeOK, CallType
<1>3. /\ call' \in [Slots -> CallType] /\ call'[c] = h
      /\ \A d \in Slots : d # c => call'[d] = call[d]
  BY <1>2
<1>4. revoked' \subseteq issued
  <2>1. call[c].op = "logout" => call[c].old \in issued
    BY DEF SessionInv, CallKnows
  <2> QED
    BY <1>1, <2>1 DEF TypeOK
<1>5. TypeOK'
  BY <1>1, <1>3, <1>4 DEF TypeOK, CallType, tokens, clock
<1>6. ASSUME NEW d \in Slots PROVE CallKnows(d)'
  <2>1. CASE d = c
    BY <1>3, <2>1 DEF CallKnows, Issuing, tokens, clock
  <2>2. CASE d # c
    <3>1. CallKnows(d)
      BY DEF SessionInv
    <3> QED
      BY <1>3, <2>2, <3>1 DEF CallKnows, Issuing, tokens, clock
  <2> QED
    BY <2>1, <2>2
<1>7. IssuedByNow' /\ KeyReachesDate'
  BY <1>1 DEF IssuedByNow, KeyReachesDate, tokens, clock
<1>8. KeyWasSet'
  BY <1>1 DEF KeyWasSet, Dated, tokens, clock
<1>9. EndedForGood'
  BY <1>1, <1>3 DEF EndedForGood, tokens
<1>10. OneIssuer'
  <2>1. SUFFICES ASSUME ~overlapped' PROVE OneIssuer'
    BY DEF OneIssuer
  <2>2. \A d, e \in Slots : Issuing(d)' /\ Issuing(e)' => d = e
    BY <1>1, <1>3, <2>1 DEF OneIssuer, Issuing
  <2>3. \A d \in Slots : call'[d].pc = "store" => \A t \in issued' : t <= call'[d].token
    BY <1>1, <1>3, <2>1 DEF OneIssuer, tokens
  <2> QED
    BY <2>2, <2>3 DEF OneIssuer
<1>11. LatestIsStored'
  BY <1>1 DEF LatestIsStored, tokens
<1> QED
  BY <1>5, <1>6, <1>7, <1>8, <1>9, <1>10, <1>11 DEF SessionInv

LEMMA SessionStep == SessionInv /\ [Next]_vars => SessionInv'
<1> SUFFICES ASSUME SessionInv, [Next]_vars PROVE SessionInv'
  OBVIOUS
<1> USE SessionsAssumption DEF Token
<1>1. /\ TypeOK /\ IssuedByNow /\ EndedForGood /\ KeyReachesDate /\ KeyWasSet /\ OneIssuer
      /\ LatestIsStored
  BY DEF SessionInv
<1>2. call \in [Slots -> CallType] /\ NoCall \in CallType
  BY <1>1 DEF TypeOK, CallType, NoCall
<1>3. \A c \in Slots : CallKnows(c)
  BY DEF SessionInv
<1>4. /\ issued \subseteq Token /\ now \in Token /\ part \in 0..Parts - 1
      /\ faults \in 0..MaxFaults /\ overlapped \in BOOLEAN
      /\ black \in [Token -> Instant] /\ Never \in Instant
  BY <1>1 DEF TypeOK, Never, Instant
<1>5. ASSUME NEW c \in Slots, LoadForLogin(c) PROVE SessionInv'
  <2> DEFINE h == [op |-> "login", pc |-> "sign", old |-> 0, token |-> 0, left |-> 0]
  <2>1. h \in CallType
    BY DEF CallType
  <2>2. /\ call' = [call EXCEPT ![c] = h] /\ overlapped' = (overlapped \/ \E d \in Slots : Issuing(d))
        /\ UNCHANGED <<active, tokens, clock, faults, ended, outlived, revoked, unlisted>>
    BY <1>5 DEF LoadForLogin, Begin
  <2> QED
    BY <1>4, <2>1, <2>2, RequestMoves DEF LogoutPc
<1>6. ASSUME NEW c \in Slots, NEW t \in issued, LoadForRefresh(c, t) PROVE SessionInv'
  <2> DEFINE h == [op |-> "refresh", pc |-> "sign", old |-> 0, token |-> 0, left |-> 0]
  <2>1. h \in CallType /\ refresh # 0
    BY <1>4, <1>6 DEF CallType, LoadForRefresh
  <2>2. /\ call' = [call EXCEPT ![c] = h] /\ overlapped' = (overlapped \/ \E d \in Slots : Issuing(d))
        /\ UNCHANGED <<active, tokens, clock, faults, ended, outlived, revoked, unlisted>>
    BY <1>6 DEF LoadForRefresh, Begin
  <2> QED
    BY <1>4, <2>1, <2>2, RequestMoves DEF LogoutPc
<1>7. ASSUME NEW c \in Slots, SignTokens(c) PROVE SessionInv'
  <2> DEFINE h == [call[c] EXCEPT !.pc = "store", !.token = now]
  <2>1. call[c] \in CallType /\ call[c].pc = "sign" /\ Issuing(c) /\ CallKnows(c)
    BY <1>2, <1>3, <1>7 DEF SignTokens, At, CallKnows
  <2>2. h \in CallType /\ h.op = call[c].op /\ h.old = call[c].old /\ h.pc = "store" /\ h.token = now
    BY <1>4, <2>1 DEF CallType
  <2>3. call' = [call EXCEPT ![c] = h] /\ UNCHANGED <<active, tokens, clock, history, faults>>
    BY <1>7 DEF SignTokens
  <2>4. now \in 1..now /\ \A t \in issued : t <= now
    BY <1>1, <1>4 DEF IssuedByNow
  <2> HIDE DEF h
  <2> QED
    BY <1>4, <2>1, <2>2, <2>3, <2>4, RequestMoves DEF history, CallKnows, Issuing, LogoutPc
<1>8. ASSUME NEW c \in Slots, StoreToken(c) PROVE SessionInv'
  <2> DEFINE t == call[c].token
  <2>1. /\ call[c] \in CallType /\ call[c].pc = "store" /\ Issuing(c) /\ t \in 1..now
    BY <1>2, <1>3, <1>8 DEF StoreToken, At, CallKnows
  <2>2. /\ refresh' = t /\ issued' = issued \cup {t} /\ ended' = (ended /\ call[c].op # "login")
        /\ call' = [call EXCEPT ![c] = NoCall]
        /\ outlived' = IF call[c].op = "login" THEN {} ELSE outlived
        /\ UNCHANGED <<active, black, clock, faults, revoked, unlisted, overlapped>>
    BY <1>8 DEF StoreToken, Return
  <2>3. /\ call' \in [Slots -> CallType] /\ call'[c] = NoCall
        /\ \A d \in Slots : d # c => call'[d] = call[d]
    BY <1>2, <2>2
  <2>4. ~ended' \/ outlived' # {}
    BY <1>1, <2>1, <2>2 DEF EndedForGood, Issuing
  <2>5. t \in Token
    BY <1>4, <2>1
  <2>6. TypeOK'
    <3>1. ended' \in BOOLEAN
      BY <1>1, <2>2 DEF TypeOK
    <3> QED
      BY <1>1, <2>2, <2>3, <2>5, <3>1 DEF TypeOK, CallType, clock
  <2>7. \A d \in Slots : CallKnows(d)'
    BY <1>3, <2>2, <2>3 DEF CallKnows, Issuing, NoCall, LogoutPc, clock
  <2>8. IssuedByNow' /\ EndedForGood'
    BY <1>1, <2>1, <2>2, <2>4 DEF IssuedByNow, EndedForGood, clock
  <2>11. KeyReachesDate' /\ KeyWasSet'
    BY <1>1, <2>2 DEF KeyReachesDate, KeyWasSet, Dated, clock
  <2>9. OneIssuer'
    <3>1. ~overlapped => \A d \in Slots : ~Issuing(d)'
      BY <1>1, <2>1, <2>3 DEF OneIssuer, Issuing, NoCall
    <3>2. ~overlapped => \A d \in Slots : call'[d].pc # "store"
      BY <2>7, <3>1 DEF CallKnows
    <3> QED
      BY <2>2, <3>1, <3>2 DEF OneIssuer
  <2>10. LatestIsStored'
    BY <1>1, <1>4, <2>1, <2>2 DEF OneIssuer, LatestIsStored
  <2> QED
    BY <2>6, <2>7, <2>8, <2>9, <2>10, <2>11 DEF SessionInv
<1>9. ASSUME NEW c \in Slots, NEW t \in issued, VerifyToken(c, t) PROVE SessionInv'
  <2> DEFINE h == [op |-> "logout", pc |-> "validate", old |-> t, token |-> 0, left |-> 0]
  <2>1. h \in CallType
    BY <1>4 DEF CallType
  <2>2. call' = [call EXCEPT ![c] = h] /\ UNCHANGED <<active, tokens, clock, history, faults>>
    BY <1>9 DEF VerifyToken, Begin
  <2> QED
    BY <1>4, <2>1, <2>2, RequestMoves DEF history, LogoutPc
<1>10. ASSUME NEW c \in Slots, call' = [call EXCEPT ![c] = NoCall], faults' \in 0..MaxFaults,
              UNCHANGED <<active, tokens, clock, history>>
       PROVE  SessionInv'
  BY <1>2, <1>4, <1>10, RequestMoves DEF history, NoCall, LogoutPc
(* A logout goes on to its next await. *)
<1>11. ASSUME NEW c \in Slots, At(c, "validate") \/ At(c, "user"), NEW pc \in {"user", "delete"},
              call' = [call EXCEPT ![c].pc = pc],
              UNCHANGED <<active, tokens, clock, faults, history>>
       PROVE  SessionInv'
  <2> DEFINE h == [call[c] EXCEPT !.pc = pc]
  <2>1. call[c] \in CallType /\ call[c].op = "logout" /\ call[c].old \in issued
    BY <1>2, <1>3, <1>11 DEF At, CallKnows, LogoutPc
  <2>2. h \in CallType /\ h.op = "logout" /\ h.old \in issued /\ h.pc = pc
    BY <2>1 DEF CallType
  <2>3. call' = [call EXCEPT ![c] = h]
    BY <1>11
  <2> HIDE DEF h
  <2> QED
    BY <1>4, <1>11, <2>2, <2>3, RequestMoves DEF history, LogoutPc
<1>12. ASSUME NEW c \in Slots, ReadBlacklist(c) \/ FindUser(c) PROVE SessionInv'
  <2>1. CASE ReadBlacklist(c)
    BY <1>4, <1>10, <1>11, <2>1 DEF ReadBlacklist, Return
  <2>2. CASE FindUser(c)
    BY <1>4, <1>10, <1>11, <2>2 DEF FindUser, Return
  <2> QED
    BY <1>12, <2>1, <2>2
<1>13. ASSUME NEW c \in Slots, DeleteRefresh(c) PROVE SessionInv'
  <2> DEFINE h == [call[c] EXCEPT !.pc = "date"]
  <2>1. call[c] \in CallType /\ call[c].op = "logout" /\ call[c].old \in issued
    BY <1>2, <1>3, <1>13 DEF DeleteRefresh, At, CallKnows, LogoutPc
  <2>2. h \in CallType /\ h.op = "logout" /\ h.old \in issued /\ h.pc = "date"
    BY <2>1 DEF CallType
  <2>3. /\ refresh' = 0 /\ call' = [call EXCEPT ![c] = h] /\ ended' = TRUE
        /\ outlived' = {r \in {"refresh"} : \E d \in Slots : call[d].op = "refresh"}
        /\ UNCHANGED <<active, black, issued, clock, faults, revoked, unlisted, overlapped>>
    BY <1>13 DEF DeleteRefresh
  <2> HIDE DEF h
  <2>4. /\ call' \in [Slots -> CallType] /\ call'[c] = h
        /\ \A d \in Slots : d # c => call'[d] = call[d]
    BY <1>2, <2>2, <2>3
  <2>5. TypeOK'
    <3>1. ended' \in BOOLEAN /\ outlived' \subseteq {"refresh"}
      BY <2>3
    <3> QED
      BY <1>1, <2>3, <2>4, <3>1 DEF TypeOK, CallType, clock
  <2>6. \A d \in Slots : CallKnows(d)'
    BY <1>3, <2>2, <2>3, <2>4 DEF CallKnows, Issuing, LogoutPc, clock
  <2>7. EndedForGood'
    <3>1. outlived' = {} => \A d \in Slots : call[d].op # "refresh"
      BY <2>3
    <3> QED
      BY <2>2, <2>3, <2>4, <3>1 DEF EndedForGood
  <2>8. IssuedByNow' /\ KeyReachesDate' /\ KeyWasSet' /\ LatestIsStored'
    BY <1>1, <2>3 DEF IssuedByNow, KeyReachesDate, KeyWasSet, Dated, LatestIsStored, clock
  <2>9. OneIssuer'
    BY <1>1, <2>2, <2>3, <2>4 DEF OneIssuer, Issuing
  <2> QED
    BY <2>5, <2>6, <2>7, <2>8, <2>9 DEF SessionInv
(* The time computed in whole seconds reaches the token's date, as now is rounded down. *)
<1>14. ASSUME NEW c \in Slots, ComputeLife(c) PROVE SessionInv'
  <2>1. PICK left : left = SecondsTo(call[c].old, now) /\ GoOnWith(c, left)
    BY <1>14 DEF ComputeLife
  <2>2. /\ call[c] \in CallType /\ call[c].op = "logout" /\ call[c].old \in issued
        /\ call[c].old \in 1..now
    BY <1>1, <1>2, <1>3, <2>1 DEF GoOnWith, At, CallKnows, LogoutPc, IssuedByNow
  <2>3. left \in 0..AccessLife /\ now + left >= call[c].old + AccessLife
    BY <1>4, <2>1, <2>2 DEF SecondsTo
  <2>4. CASE left > 0
    <3> DEFINE h == [call[c] EXCEPT !.pc = "blacklist", !.left = left]
    <3>1. /\ h \in CallType /\ h.op = "logout" /\ h.old = call[c].old /\ h.pc = "blacklist"
          /\ h.left = left
      BY <2>2, <2>3 DEF CallType
    <3>2. /\ call' = [call EXCEPT ![c] = h] /\ UNCHANGED revoked
          /\ UNCHANGED <<active, tokens, clock, faults, ended, outlived, unlisted, overlapped>>
      BY <2>1, <2>4 DEF GoOnWith
    <3> HIDE DEF h
    <3> QED
      BY <1>4, <2>2, <2>3, <3>1, <3>2, RequestMoves DEF LogoutPc
  <2>5. CASE ~(left > 0)
    <3>1. Dated(call[c].old)
      BY <1>4, <2>2, <2>3, <2>5 DEF Dated
    <3>2. /\ call' = [call EXCEPT ![c] = NoCall] /\ revoked' = revoked \cup {call[c].old}
          /\ UNCHANGED <<active, tokens, clock, faults, ended, outlived, unlisted, overlapped>>
      BY <2>1, <2>5 DEF GoOnWith, Return
    <3> QED
      BY <1>2, <1>4, <2>2, <3>1, <3>2, RequestMoves DEF LogoutPc, NoCall
  <2> QED
    BY <2>4, <2>5
(* The key lives that long from when it is set, which is later still. *)
<1>15. ASSUME NEW c \in Slots, Blacklist(c) PROVE SessionInv'
  <2> DEFINE t == call[c].old
             k == [second |-> now + call[c].left, part |-> part]
  <2>1. /\ call[c] \in CallType /\ t \in issued /\ t \in Token
        /\ now + call[c].left >= t + AccessLife
    BY <1>2, <1>3, <1>4, <1>15 DEF Blacklist, At, CallKnows, LogoutPc
  <2>2. /\ black' = [black EXCEPT ![t] = k]
        /\ revoked' = revoked \cup {t} /\ unlisted' = unlisted \ {t}
        /\ call' = [call EXCEPT ![c] = NoCall]
        /\ UNCHANGED <<active, refresh, issued, clock, faults, ended, outlived, overlapped>>
    BY <1>15 DEF Blacklist, Return
  <2>3. /\ call' \in [Slots -> CallType] /\ call'[c] = NoCall
        /\ \A d \in Slots : d # c => call'[d] = call[d]
    BY <1>2, <2>2
  <2>4. k \in Instant /\ k.second >= t + AccessLife /\ k # Never
    <3>1. call[c].left \in 0..AccessLife
      BY <2>1 DEF CallType
    <3> QED
      BY <1>4, <2>1, <3>1 DEF Instant, Never
  <2> HIDE DEF k
  <2>5. /\ black' \in [Token -> Instant] /\ black'[t] = k
        /\ \A u \in Token : u # t => black'[u] = black[u]
    BY <1>4, <2>1, <2>2, <2>4
  <2> HIDE DEF t
  <2>6. TypeOK'
    BY <1>1, <2>1, <2>2, <2>3, <2>5 DEF TypeOK, CallType, clock
  <2>7. \A d \in Slots : CallKnows(d)'
    BY <1>3, <2>2, <2>3 DEF CallKnows, Issuing, NoCall, LogoutPc, clock
  <2>8. EndedForGood' /\ OneIssuer'
    BY <1>1, <2>2, <2>3 DEF EndedForGood, OneIssuer, Issuing, NoCall
  <2>9. IssuedByNow' /\ LatestIsStored'
    BY <1>1, <2>2 DEF IssuedByNow, LatestIsStored, clock
  <2>10. KeyReachesDate'
    BY <1>1, <2>4, <2>5 DEF KeyReachesDate
  <2>11. KeyWasSet'
    <3> SUFFICES ASSUME NEW u \in revoked' \ unlisted' PROVE (black[u] # Never \/ Dated(u))'
      BY DEF KeyWasSet
    <3>1. CASE u = t
      BY <2>4, <2>5, <3>1
    <3>2. CASE u # t
      <4>1. u \in revoked \ unlisted /\ u \in Token
        BY <1>1, <1>4, <2>2, <3>2 DEF TypeOK
      <4> QED
        BY <1>1, <2>2, <2>5, <3>2, <4>1 DEF KeyWasSet, Dated, clock
    <3> QED
      BY <3>1, <3>2
  <2> QED
    BY <2>6, <2>7, <2>8, <2>9, <2>10, <2>11 DEF SessionInv
<1>16. ASSUME NEW c \in Slots, LogoutErrorSwallowed(c) PROVE SessionInv'
  <2> DEFINE t == call[c].old
  <2>1. t \in issued /\ t \in Token /\ call[c].op = "logout"
    BY <1>3, <1>4, <1>16 DEF LogoutErrorSwallowed, CallKnows, LogoutPc
  <2>2. /\ faults' \in 0..MaxFaults /\ ended' = (ended \/ At(c, "delete"))
        /\ outlived' = outlived \cup {r \in {"failed"} : At(c, "delete")}
        /\ revoked' = revoked \cup {t}
        /\ unlisted' = unlisted \cup {u \in {t} : ~Listed(u)}
        /\ call' = [call EXCEPT ![c] = NoCall]
        /\ UNCHANGED <<active, tokens, clock, overlapped>>
    BY <1>4, <1>16 DEF LogoutErrorSwallowed, Return
  <2>3. /\ call' \in [Slots -> CallType] /\ call'[c] = NoCall
        /\ \A d \in Slots : d # c => call'[d] = call[d]
    BY <1>2, <2>2
  <2> HIDE DEF t
  <2>4. TypeOK'
    <3>1. ended' \in BOOLEAN
      BY <1>1, <2>2 DEF TypeOK, At
    <3>2. outlived' \subseteq {"refresh", "failed", "restored"}
      BY <1>1, <2>2 DEF TypeOK
    <3> QED
      BY <1>1, <2>1, <2>2, <2>3, <3>1, <3>2 DEF TypeOK, CallType, clock, tokens
  <2>5. \A d \in Slots : CallKnows(d)'
    BY <1>3, <2>2, <2>3 DEF CallKnows, Issuing, NoCall, LogoutPc, clock, tokens
  <2>6. EndedForGood'
    <3>1. ended' /\ outlived' = {} => ended /\ outlived = {}
      BY <2>2
    <3> QED
      BY <1>1, <2>2, <2>3, <3>1 DEF EndedForGood, NoCall, tokens
  <2>7. OneIssuer'
    BY <1>1, <2>2, <2>3 DEF OneIssuer, Issuing, NoCall, tokens
  <2>8. IssuedByNow' /\ KeyReachesDate' /\ LatestIsStored'
    BY <1>1, <2>2 DEF IssuedByNow, KeyReachesDate, LatestIsStored, clock, tokens
  <2>9. KeyWasSet'
    <3>1. Listed(t) => black[t] # Never
      BY <1>4 DEF Listed, Never
    <3>2. UNCHANGED <<black, now>>
      BY <2>2 DEF tokens, clock
    <3> QED
      BY <1>1, <2>2, <3>1, <3>2 DEF KeyWasSet, Dated
  <2> QED
    BY <2>4, <2>5, <2>6, <2>7, <2>8, <2>9 DEF SessionInv
<1>17. ASSUME NEW c \in Slots, CallFails(c) PROVE SessionInv'
  <2>1. call' = [call EXCEPT ![c] = NoCall] /\ UNCHANGED <<active, tokens, clock, history>>
    BY <1>17 DEF CallFails, Return
  <2>2. faults' \in 0..MaxFaults
    BY <1>4, <1>17 DEF CallFails
  <2> QED
    BY <1>10, <2>1, <2>2
<1>18. CASE Restart
  <2>1. /\ faults' \in 0..MaxFaults /\ call' = [c \in Slots |-> NoCall]
        /\ UNCHANGED <<active, tokens, clock, history>>
    BY <1>4, <1>18 DEF Restart
  <2>2. call' \in [Slots -> CallType] /\ \A c \in Slots : call'[c] = NoCall
    BY <1>2, <2>1
  <2>3. TypeOK'
    BY <1>1, <2>1, <2>2 DEF TypeOK, CallType, tokens, clock, history
  <2>4. \A c \in Slots : CallKnows(c)'
    BY <2>2 DEF CallKnows, Issuing, NoCall, LogoutPc
  <2>5. EndedForGood' /\ OneIssuer'
    BY <1>1, <2>1, <2>2 DEF EndedForGood, OneIssuer, Issuing, NoCall, tokens, history
  <2>6. IssuedByNow' /\ KeyReachesDate' /\ KeyWasSet' /\ LatestIsStored'
    BY <1>1, <2>1 DEF IssuedByNow, KeyReachesDate, KeyWasSet, Dated, LatestIsStored, tokens,
       clock, history
  <2> QED
    BY <2>3, <2>4, <2>5, <2>6 DEF SessionInv
<1>19. ASSUME NEW t \in issued \cup {0}, NEW lost \in SUBSET {u \in revoked : Listed(u)},
              RedisRestored(t, lost)
       PROVE  SessionInv'
  <2>1. /\ faults' \in 0..MaxFaults
        /\ refresh' = t /\ outlived' = outlived \cup {r \in {"restored"} : t # refresh}
        /\ unlisted' = unlisted \cup lost
        /\ UNCHANGED <<active, issued, clock, call, ended, revoked, overlapped>>
    BY <1>4, <1>19 DEF RedisRestored
  <2>2. black' = [u \in Token |-> IF u \in lost THEN Never ELSE black[u]]
    BY <1>19 DEF RedisRestored
  <2>3. /\ black' \in [Token -> Instant]
        /\ \A u \in Token : u \in lost => black'[u] = Never
        /\ \A u \in Token : u \notin lost => black'[u] = black[u]
    BY <1>4, <2>2
  <2>4. TypeOK'
    <3>1. outlived' \subseteq {"refresh", "failed", "restored"}
      BY <1>1, <2>1 DEF TypeOK
    <3>2. refresh' \in Token \cup {0} /\ revoked' \cup unlisted' \subseteq issued'
      BY <1>1, <2>1 DEF TypeOK
    <3> QED
      BY <1>1, <2>1, <2>3, <3>1, <3>2 DEF TypeOK, clock
  <2>5. \A d \in Slots : CallKnows(d)'
    BY <1>3, <2>1 DEF CallKnows, Issuing, clock
  <2>6. EndedForGood' /\ LatestIsStored'
    <3>1. t # refresh => "restored" \in outlived'
      BY <2>1
    <3>2. t = refresh => UNCHANGED <<refresh, outlived>>
      BY <2>1
    <3> QED
      BY <1>1, <2>1, <3>1, <3>2 DEF EndedForGood, LatestIsStored
  <2>7. IssuedByNow' /\ OneIssuer'
    BY <1>1, <2>1 DEF IssuedByNow, OneIssuer, Issuing, clock
  <2>8. KeyReachesDate'
    BY <1>1, <2>3 DEF KeyReachesDate
  <2>9. KeyWasSet'
    <3>1. revoked' \ unlisted' \subseteq Token
      BY <1>1, <2>1 DEF TypeOK
    <3> QED
      BY <1>1, <2>1, <2>3, <3>1 DEF KeyWasSet, Dated, clock
  <2> QED
    BY <2>4, <2>5, <2>6, <2>7, <2>8, <2>9 DEF SessionInv
(* The other steps leave the requests and the blacklist alone. *)
<1>20. ASSUME UNCHANGED <<call, history, issued, black, faults>>,
              active' \in BOOLEAN, now' \in Token, now <= now', part' \in 0..Parts - 1,
              refresh' \in {refresh, 0}
       PROVE  SessionInv'
  <2>1. TypeOK'
    <3>1. refresh' \in Token \cup {0}
      BY <1>1, <1>20 DEF TypeOK
    <3> QED
      BY <1>1, <1>20, <3>1 DEF TypeOK, history
  <2>2. \A d \in Slots : CallKnows(d)'
    <3> SUFFICES ASSUME NEW d \in Slots PROVE CallKnows(d)'
      OBVIOUS
    <3>1. call[d] \in CallType /\ CallKnows(d) /\ call'[d] = call[d]
      BY <1>2, <1>3, <1>20
    <3>2. call[d].old \in Nat /\ call[d].left \in Nat /\ now \in Nat /\ now' \in Nat
      BY <1>4, <1>20, <3>1 DEF CallType
    <3>3. now + call[d].left >= call[d].old + AccessLife =>
            now' + call'[d].left >= call'[d].old + AccessLife
      BY <1>20, <3>1, <3>2
    <3>4. call[d].token \in 1..now => call'[d].token \in 1..now'
      BY <1>20, <3>1, <3>2
    <3>5. issued' = issued
      BY <1>20
    <3> HIDE <1>20
    <3> QED
      BY <3>1, <3>3, <3>4, <3>5 DEF CallKnows, Issuing
  <2>3. IssuedByNow' /\ EndedForGood' /\ KeyReachesDate'
    BY <1>1, <1>4, <1>20 DEF IssuedByNow, EndedForGood, KeyReachesDate, history
  <2>4. KeyWasSet'
    <3>1. revoked \subseteq Token
      BY <1>1 DEF TypeOK
    <3>2. ASSUME NEW t \in Token PROVE Dated(t) => Dated(t)'
      BY <1>4, <1>20 DEF Dated
    <3>3. UNCHANGED <<revoked, unlisted, black>>
      BY <1>20 DEF history
    <3> QED
      BY <1>1, <3>1, <3>2, <3>3 DEF KeyWasSet
  <2>5. OneIssuer'
    BY <1>1, <1>20 DEF OneIssuer, Issuing, history
  <2>6. LatestIsStored'
    BY <1>1, <1>20 DEF LatestIsStored, history
  <2> QED
    BY <2>1, <2>2, <2>3, <2>4, <2>5, <2>6 DEF SessionInv
<1>21. CASE SetActive
  <2>1. active' \in BOOLEAN
    BY <1>21 DEF SetActive
  <2> QED
    BY <1>1, <1>4, <1>20, <1>21, <2>1 DEF SetActive, TypeOK, tokens, clock
<1>22. CASE Tick
  <2>1. now' \in Token /\ now <= now' /\ part' \in 0..Parts - 1
    BY <1>4, <1>22 DEF Tick
  <2> QED
    BY <1>1, <1>20, <1>22, <2>1 DEF Tick, TypeOK, tokens
<1>23. CASE RefreshExpires
  BY <1>1, <1>4, <1>20, <1>23 DEF RefreshExpires, TypeOK, clock
<1>24. CASE UNCHANGED vars
  BY <1>1, <1>4, <1>20, <1>24 DEF vars, tokens, clock, TypeOK
<1> QED
  BY <1>5, <1>6, <1>7, <1>8, <1>9, <1>12, <1>13, <1>14, <1>15, <1>16, <1>17, <1>18, <1>19,
     <1>21, <1>22, <1>23, <1>24 DEF Next

THEOREM SessionsHold == Spec => []SessionInv
  BY SessionInit, SessionStep, PTL DEF Spec

(* Types, for any number of requests in progress. *)
THEOREM SessionsTypeCorrect == Spec => []TypeOK
<1>1. SessionInv => TypeOK
  BY DEF SessionInv
<1> QED
  BY <1>1, SessionsHold, PTL

(* A session that was logged out has no refresh token until the next login, but for a
   refresh in progress then, a deletion that failed unnoticed, and a restored snapshot. *)
THEOREM SessionEndsCorrect == Spec => []SessionEnds
<1>1. SessionInv => SessionEnds
  BY DEF SessionInv, EndedForGood, SessionEnds
<1> QED
  BY <1>1, SessionsHold, PTL

(* An access token whose logout has returned is refused until its date, unless its key
   failed to be set unnoticed or was lost by Redis: the key, its time to live rounded to
   whole seconds and counted from when it is set, does not lapse before that date. *)
THEOREM RevokedIsRefusedCorrect == Spec => []RevokedIsRefused
<1>1. SessionInv => RevokedIsRefused
  <2> SUFFICES ASSUME SessionInv, NEW t \in revoked \ unlisted, ~Dated(t) PROVE Listed(t)
    BY DEF RevokedIsRefused
  <2>1. t \in Token /\ now \in Token /\ black \in [Token -> Instant]
    BY DEF SessionInv, TypeOK
  <2>2. black[t] # Never
    BY DEF SessionInv, KeyWasSet
  <2>3. black[t].second >= t + AccessLife /\ black[t].second \in Nat
    BY SessionsAssumption, <2>1, <2>2 DEF SessionInv, KeyReachesDate, Instant
  <2> QED
    BY SessionsAssumption, <2>1, <2>3 DEF Listed, Dated, Token
<1> QED
  BY <1>1, SessionsHold, PTL

(* The refresh token stored is the last one signed, unless requests overlapped or Redis
   went back to an earlier snapshot. *)
THEOREM LatestIsStoredCorrect == Spec => []LatestIsStored
<1>1. SessionInv => LatestIsStored
  BY DEF SessionInv
<1> QED
  BY <1>1, SessionsHold, PTL
=============================================================================
