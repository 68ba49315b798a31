---------------------------- MODULE PeopleProofs ----------------------------
(***************************************************************************)
(* What holds of accounts, permissions and limits whatever the numbers of  *)
(* visitors, requests, tokens, links, members and keys: the run people.    *)
(*                                                                         *)
(* Every component has an inductive invariant of its own (AccountsInv,     *)
(* MembershipsInv, AccessInv, LockoutInv, MagicLinksInv, LimiterInv) that  *)
(* says what its requests are owed between two of their statements.  A     *)
(* behaviour takes the steps of one component and leaves the others alone, *)
(* so each invariant is kept by every step.                                *)
(***************************************************************************)
EXTENDS MCPeople, FiniteSetTheorems, SequenceTheorems, TLAPS

-----------------------------------------------------------------------------
(* Credentials: module Accounts. *)

\* The sign-ins that have inserted their session and not yet cut the list.
Enforcing == {v \in Visitors : At(v, "enforce")}

\* A token that was not spent was never exchanged.
SpentAreSpent ==
    \A t \in Tokens : /\ token[t].state # "ended" => token[t].exchanged = 0
                      /\ token[t].exchanged <= 1

\* A refresh holds a token.
SpendersHold == \A v \in Visitors : At(v, "spend") => visit[v].uses \in Tokens

\* What is issued, and what is about to be, is under the password of now or
\* late, unless a change has still to revoke.
PasswordIsFollowed ==
    failures = 0 =>
        \/ \E v \in Visitors : At(v, "revoke")
        \/ /\ \A t \in Tokens :
                 token[t].state = "live" => token[t].under = password \/ token[t].late
           /\ \A v \in Visitors :
                 At(v, "issue") => visit[v].under = password \/ visit[v].late

AccountsInv ==
    /\ AccountsTypeOK
    /\ SpentAreSpent
    /\ SpendersHold
    /\ PasswordIsFollowed
    /\ IsFiniteSet(Enforcing)
    /\ SessionLimitHolds

\* What is left of a sequence without one of its elements.
LEMMA Removed ==
    ASSUME NEW S, NEW s \in Seq(S), NEW n \in 1 .. Len(s)
    PROVE  /\ RemoveAt(s, n) \in Seq(S)
           /\ Len(RemoveAt(s, n)) = Len(s) - 1
           /\ \A i \in 1 .. Len(s) - 1 :
                 RemoveAt(s, n)[i] = IF i < n THEN s[i] ELSE s[i + 1]
<1> DEFINE before == SubSeq(s, 1, n - 1)
           after  == SubSeq(s, n + 1, Len(s))
<1>1. /\ before \in Seq(S) /\ Len(before) = n - 1
      /\ \A i \in 1 .. n - 1 : before[i] = s[i]
  <2>1. Len(s) \in Nat /\ \A i \in 1 .. n - 1 : s[i] \in S
    OBVIOUS
  <2>2. QED
    BY <2>1, SubSeqProperties
<1>2. /\ after \in Seq(S) /\ Len(after) = Len(s) - n
      /\ \A i \in 1 .. Len(s) - n : after[i] = s[n + i]
  <2>1. Len(s) \in Nat /\ \A i \in n + 1 .. Len(s) : s[i] \in S
    OBVIOUS
  <2>2. /\ after \in Seq(S)
        /\ Len(after) = IF n + 1 <= Len(s) THEN Len(s) - (n + 1) + 1 ELSE 0
        /\ \A i \in 1 .. Len(s) - (n + 1) + 1 : after[i] = s[n + 1 + i - 1]
    BY <2>1, SubSeqProperties
  <2>3. QED
    BY <2>1, <2>2
<1> HIDE DEF before, after
<1>3. /\ before \o after \in Seq(S)
      /\ Len(before \o after) = Len(before) + Len(after)
      /\ \A i \in 1 .. Len(before) + Len(after) :
            (before \o after)[i] = IF i <= Len(before) THEN before[i]
                                   ELSE after[i - Len(before)]
  BY <1>1, <1>2, ConcatProperties
<1>4. RemoveAt(s, n) = before \o after
  BY DEF RemoveAt, before, after
<1>5. Len(s) \in Nat
  OBVIOUS
<1>6. ASSUME NEW i \in 1 .. Len(s) - 1
      PROVE  RemoveAt(s, n)[i] = IF i < n THEN s[i] ELSE s[i + 1]
  <2>1. CASE i < n
    BY <1>1, <1>2, <1>3, <1>4, <1>5, <2>1
  <2>2. CASE ~(i < n)
    <3>1. i - (n - 1) \in 1 .. Len(s) - n
      BY <1>5, <2>2
    <3>2. (before \o after)[i] = after[i - (n - 1)]
      <4>1. Len(before) = n - 1 /\ i \in 1 .. Len(before) + Len(after) /\ ~(i <= Len(before))
        BY <1>1, <1>2, <1>5, <2>2
      <4>2. (before \o after)[i] = after[i - Len(before)]
        BY <1>3, <4>1
      <4>3. QED
        BY <4>1, <4>2
    <3>3. after[i - (n - 1)] = s[n + (i - (n - 1))]
      BY <1>2, <3>1
    <3>4. n + (i - (n - 1)) = i + 1
      OBVIOUS
    <3>5. QED
      BY <1>4, <2>2, <3>2, <3>3, <3>4
  <2>3. QED
    BY <2>1, <2>2
<1>7. Len(before) + Len(after) = Len(s) - 1
  BY <1>1, <1>2, <1>5
<1>8. RemoveAt(s, n) \in Seq(S) /\ Len(RemoveAt(s, n)) = Len(s) - 1
  BY <1>3, <1>4, <1>7
<1>9. QED
  BY <1>6, <1>8

\* The live sessions with one fewer, ...
LEMMA OneSessionFewer ==
    ASSUME NEW S, NEW s \in Seq(S), NEW n \in 1 .. Len(s)
    PROVE  /\ RemoveAt(s, n) \in Seq(S)
           /\ Len(RemoveAt(s, n)) = Len(s) - 1
           /\ ToSet(RemoveAt(s, n)) \subseteq ToSet(s)
<1>1. Len(s) \in Nat /\ DOMAIN s = 1 .. Len(s)
  OBVIOUS
<1>2. RemoveAt(s, n) \in Seq(S) /\ Len(RemoveAt(s, n)) = Len(s) - 1
  BY Removed
<1>3. DOMAIN RemoveAt(s, n) = 1 .. Len(s) - 1
  BY <1>2
<1>4. \A i \in 1 .. Len(s) - 1 : \E j \in 1 .. Len(s) : RemoveAt(s, n)[i] = s[j]
  <2>1. \A i \in 1 .. Len(s) - 1 : i \in 1 .. Len(s) /\ i + 1 \in 1 .. Len(s)
    BY <1>1
  <2>2. QED
    BY <2>1, Removed
<1>5. QED
  BY <1>1, <1>2, <1>3, <1>4 DEF ToSet

\* ... in another order, ...
LEMMA SessionsReordered ==
    ASSUME NEW S, NEW s \in Seq(S), NEW n \in 1 .. Len(s)
    PROVE  /\ <<s[n]>> \o RemoveAt(s, n) \in Seq(S)
           /\ Len(<<s[n]>> \o RemoveAt(s, n)) = Len(s)
           /\ ToSet(<<s[n]>> \o RemoveAt(s, n)) = ToSet(s)
<1> DEFINE t == <<s[n]>> \o RemoveAt(s, n)
<1>1. Len(s) \in Nat /\ s[n] \in S /\ <<s[n]>> \in Seq(S) /\ Len(<<s[n]>>) = 1
  OBVIOUS
<1>2. /\ t \in Seq(S) /\ Len(t) = Len(s)
      /\ \A i \in 1 .. Len(s) : t[i] = IF i = 1 THEN s[n] ELSE RemoveAt(s, n)[i - 1]
  <2>1. /\ t \in Seq(S) /\ Len(t) = 1 + Len(RemoveAt(s, n))
        /\ \A i \in 1 .. 1 + Len(RemoveAt(s, n)) :
              t[i] = IF i <= 1 THEN <<s[n]>>[i] ELSE RemoveAt(s, n)[i - 1]
    BY <1>1, Removed, ConcatProperties
  <2>2. Len(RemoveAt(s, n)) = Len(s) - 1
    BY Removed
  <2>3. QED
    BY <1>1, <2>1, <2>2
<1> HIDE DEF t
<1>3. \A i \in 2 .. Len(s) : t[i] = IF i - 1 < n THEN s[i - 1] ELSE s[i]
  <2>1. ASSUME NEW i \in 2 .. Len(s)
        PROVE  t[i] = IF i - 1 < n THEN s[i - 1] ELSE s[i]
    <3>1. t[i] = RemoveAt(s, n)[i - 1]
      BY <1>1, <1>2
    <3>2. i - 1 \in 1 .. Len(s) - 1 /\ i - 1 + 1 = i
      BY <1>1
    <3>3. QED
      BY <3>1, <3>2, Removed
  <2>2. QED
    BY <2>1
<1>4. DOMAIN t = 1 .. Len(s) /\ DOMAIN s = 1 .. Len(s)
  BY <1>2
<1>5. ToSet(t) \subseteq ToSet(s)
  <2>1. ASSUME NEW i \in 1 .. Len(s)
        PROVE  t[i] \in ToSet(s)
    <3>1. CASE i = 1
      BY <1>2, <1>4, <3>1 DEF ToSet
    <3>2. CASE i # 1
      <4>1. \E j \in 1 .. Len(s) : t[i] = s[j]
        BY <1>1, <1>3, <3>2
      <4>2. QED
        BY <1>4, <4>1 DEF ToSet
    <3>3. QED
      BY <3>1, <3>2
  <2>2. \A x \in ToSet(t) : \E i \in 1 .. Len(s) : x = t[i]
    BY <1>4 DEF ToSet
  <2>3. QED
    BY <2>1, <2>2
<1>6. ToSet(s) \subseteq ToSet(t)
  <2>1. ASSUME NEW j \in 1 .. Len(s)
        PROVE  \E i \in 1 .. Len(s) : s[j] = t[i]
    <3>1. CASE j = n
      BY <1>1, <1>2, <3>1
    <3>2. CASE j < n
      <4>1. j + 1 \in 2 .. Len(s) /\ j + 1 - 1 = j
        BY <1>1, <3>2
      <4>2. t[j + 1] = s[j]
        BY <1>3, <3>2, <4>1
      <4>3. QED
        BY <1>1, <4>1, <4>2
    <3>3. CASE j > n
      <4>1. j \in 2 .. Len(s) /\ ~(j - 1 < n)
        BY <1>1, <3>3
      <4>2. QED
        BY <1>3, <4>1
    <3>4. QED
      BY <1>1, <3>1, <3>2, <3>3
  <2>2. \A i \in 1 .. Len(s) : t[i] \in ToSet(t)
    BY <1>4 DEF ToSet
  <2>3. \A x \in ToSet(s) : \E j \in 1 .. Len(s) : x = s[j]
    BY <1>4 DEF ToSet
  <2>4. ASSUME NEW x \in ToSet(s)
        PROVE  x \in ToSet(t)
    <3>1. PICK j \in 1 .. Len(s) : x = s[j]
      BY <2>3
    <3>2. PICK i \in 1 .. Len(s) : s[j] = t[i]
      BY <2>1
    <3>3. QED
      BY <2>2, <3>1, <3>2
  <2>5. QED
    BY <2>4
<1>7. QED
  BY <1>2, <1>5, <1>6 DEF t

\* ... with a new one in front, ...
LEMMA OneSessionMore ==
    ASSUME NEW S, NEW s \in Seq(S), NEW e \in S
    PROVE  /\ <<e>> \o s \in Seq(S)
           /\ Len(<<e>> \o s) = Len(s) + 1
           /\ ToSet(<<e>> \o s) = ToSet(s) \cup {e}
<1>1. Len(s) \in Nat /\ <<e>> \in Seq(S) /\ Len(<<e>>) = 1
  OBVIOUS
<1>2. /\ <<e>> \o s \in Seq(S) /\ Len(<<e>> \o s) = 1 + Len(s)
      /\ \A i \in 1 .. 1 + Len(s) : (<<e>> \o s)[i] = IF i <= 1 THEN <<e>>[i] ELSE s[i - 1]
  BY <1>1, ConcatProperties
<1>3. ToSet(<<e>> \o s) \subseteq ToSet(s) \cup {e}
  BY <1>1, <1>2 DEF ToSet
<1>4. e \in ToSet(<<e>> \o s)
  BY <1>1, <1>2 DEF ToSet
<1>5. ASSUME NEW j \in 1 .. Len(s)
      PROVE  s[j] \in ToSet(<<e>> \o s)
  <2>1. j + 1 \in 1 .. 1 + Len(s) /\ ~(j + 1 <= 1) /\ j + 1 - 1 = j
    BY <1>1
  <2>2. (<<e>> \o s)[j + 1] = s[j]
    BY <1>2, <2>1
  <2>3. DOMAIN (<<e>> \o s) = 1 .. 1 + Len(s)
    BY <1>1, <1>2
  <2>4. QED
    BY <2>1, <2>2, <2>3 DEF ToSet
<1>6. ToSet(s) \subseteq ToSet(<<e>> \o s)
  BY <1>5 DEF ToSet
<1>7. QED
  BY <1>1, <1>2, <1>3, <1>4, <1>6

\* ... or cut at the limit (EnforceLimit).
LEMMA SessionsKept ==
    ASSUME seen \in Seq(Sessions), SessionLimit \in Nat
    PROVE  /\ Kept \in Seq(Sessions)
           /\ Len(Kept) <= SessionLimit
           /\ ToSet(Kept) \subseteq ToSet(seen)
<1>1. CASE Len(seen) > SessionLimit
  <2>1. \A i \in 1 .. SessionLimit : seen[i] \in Sessions
    BY <1>1
  <2>2. /\ SubSeq(seen, 1, SessionLimit) \in Seq(Sessions)
        /\ Len(SubSeq(seen, 1, SessionLimit)) = SessionLimit
        /\ \A i \in 1 .. SessionLimit : SubSeq(seen, 1, SessionLimit)[i] = seen[i]
    BY <2>1, SubSeqProperties
  <2>3. QED
    BY <1>1, <2>2 DEF Kept, ToSet
<1>2. CASE ~(Len(seen) > SessionLimit)
  BY <1>2 DEF Kept
<1>3. QED
  BY <1>1, <1>2

LEMMA AccountsStart == AccountsInit => AccountsInv
<1> SUFFICES ASSUME AccountsInit
             PROVE  AccountsInv
  OBVIOUS
<1> USE AccountsAssumption DEF AccountsInit
<1>1. AccountsTypeOK
  <2>1. ToSet(seen) = {s \in Sessions : session[s].state = "live"}
    BY DEF ToSet, Unissued
  <2>2. QED
    BY <2>1 DEF AccountsTypeOK, Credential, Unissued, Idle, Passwords, Request
<1>2. SpentAreSpent /\ SpendersHold
  BY DEF SpentAreSpent, SpendersHold, Unissued, Idle, At
<1>3. PasswordIsFollowed
  BY DEF PasswordIsFollowed, Unissued, Idle, At
<1>4. Enforcing = {}
  BY DEF Enforcing, At, Idle
<1>5. IsFiniteSet(Enforcing) /\ Cardinality(Enforcing) = 0
  BY <1>4, FS_EmptySet
<1>6. SessionLimitHolds
  BY <1>5 DEF SessionLimitHolds, Enforcing
<1>7. QED
  BY <1>1, <1>2, <1>3, <1>5, <1>6 DEF AccountsInv

\* The one exchange: what Spend makes of the token it finds live.
LEMMA SpentToken ==
    ASSUME AccountsInv, NEW v \in Visitors, Spend(v), Spendable(visit[v].uses)
    PROVE  /\ visit[v].uses \in Tokens
           /\ token'[visit[v].uses].state = "ended"
           /\ token'[visit[v].uses].exchanged = 1
           /\ token' \in [Tokens -> Credential]
           /\ \A t \in Tokens \ {visit[v].uses} : token'[t] = token[t]
           /\ visit' = [visit EXCEPT ![v] =
                 [op |-> "refresh", at |-> "issue", uses |-> visit[v].uses,
                  under |-> token[visit[v].uses].under,
                  late |-> token[visit[v].uses].late]]
<1> DEFINE t == visit[v].uses
<1>1. t \in Tokens /\ token \in [Tokens -> Credential]
  BY DEF AccountsInv, AccountsTypeOK, SpendersHold, Spend
<1>2. token[t].exchanged = 0
  BY <1>1 DEF AccountsInv, SpentAreSpent, Spendable
<1> HIDE DEF t
<1>3. /\ token' = [token EXCEPT ![t].state = "ended", ![t].exchanged = @ + 1]
      /\ Begins(v, "refresh", "issue", t, token[t].under, token[t].late)
  BY DEF Spend, t
<1>4. token[t] \in Credential
  BY <1>1
<1>5. PICK q : q = [state |-> "ended", under |-> token[t].under,
                    late |-> token[t].late, exchanged |-> 1]
  OBVIOUS
<1>6. token' = [token EXCEPT ![t] = q]
  BY <1>1, <1>2, <1>3, <1>4, <1>5 DEF Credential
<1>7. q \in Credential /\ q.state = "ended" /\ q.exchanged = 1
  <2>1. token[t].under \in Passwords /\ token[t].late \in BOOLEAN
    BY <1>4 DEF Credential
  <2>2. QED
    BY <1>5, <2>1 DEF Credential
<1>8. /\ token' \in [Tokens -> Credential] /\ token'[t] = q
      /\ \A r \in Tokens \ {t} : token'[r] = token[r]
  BY <1>1, <1>6, <1>7
<1>9. QED
  BY <1>1, <1>3, <1>7, <1>8 DEF Begins, t

\* A request that ends, or goes on to its next statement, is one still.
LEMMA RequestsMove ==
    ASSUME AccountsTypeOK, NEW v \in Visitors
    PROVE  /\ Leaves(v) => visit' \in [Visitors -> Request]
           /\ \A step \in {"enforce", "revoke"} :
                 [visit EXCEPT ![v].at = step] \in [Visitors -> Request]
           /\ Overtaken("issue") \in [Visitors -> Request]
           /\ [Overtaken("issue") EXCEPT ![v] = Idle] \in [Visitors -> Request]
<1>1. Idle \in Request
  BY AccountsAssumption DEF Idle, Request, Passwords
<1>2. visit \in [Visitors -> Request]
  BY DEF AccountsTypeOK
<1>3. \A u \in Visitors : [visit[u] EXCEPT !.late = TRUE] \in Request
  BY <1>2 DEF Request
<1>4. \A step \in {"enforce", "revoke"} : [visit[v] EXCEPT !.at = step] \in Request
  BY <1>2 DEF Request
<1>5. Overtaken("issue") \in [Visitors -> Request]
  BY <1>2, <1>3 DEF Overtaken
<1>6. ASSUME NEW step \in {"enforce", "revoke"}
      PROVE  [visit EXCEPT ![v].at = step] \in [Visitors -> Request]
  BY <1>2, <1>4
<1>7. QED
  BY <1>1, <1>2, <1>5, <1>6 DEF Leaves

\* A credential that ends is one still.
LEMMA CredentialsEnd ==
    \A c \in Credential : /\ [c EXCEPT !.state = "ended"] \in Credential
                          /\ [c EXCEPT !.state = "ended"].state = "ended"
  BY DEF Credential

LEMMA AccountsKeepsType ==
    ASSUME AccountsInv, [AccountsNext]_accountsVars
    PROVE  AccountsTypeOK'
<1> USE DEF AccountsInv, AccountsTypeOK
<1> MaxChanges \in Nat /\ MaxFailures \in Nat
  BY AccountsAssumption
<1>1. ASSUME NEW v \in Visitors, CheckPassword(v)
      PROVE  AccountsTypeOK'
  BY <1>1 DEF CheckPassword, Begins, Request
<1>2. ASSUME NEW v \in Visitors, Issue(v)
      PROVE  AccountsTypeOK'
  <2>1. visit[v] \in Request
    OBVIOUS
  <2>2. Issued(v) \in Credential
    BY <2>1 DEF Issued, Credential, Request
  <2>3. QED
    BY <1>2, <2>2, RequestsMove DEF Issue
<1>3. ASSUME NEW v \in Visitors, Open(v)
      PROVE  AccountsTypeOK'
  <2>1. PICK s \in Sessions : /\ session[s].state = "none"
                              /\ session' = [session EXCEPT ![s] = Issued(v)]
                              /\ seen' = <<s>> \o seen
    BY <1>3 DEF Open
  <2>2. seen' \in Seq(Sessions) /\ ToSet(seen') = ToSet(seen) \cup {s}
    BY <2>1, OneSessionMore
  <2>3. session' \in [Sessions -> Credential]
    BY <2>1 DEF Issued, Credential, Request
  <2>4. session'[s].state = "live" /\ \A r \in Sessions \ {s} : session'[r] = session[r]
    BY <2>1 DEF Issued
  <2>5. ToSet(seen') = {r \in Sessions : session'[r].state = "live"}
    BY <2>2, <2>4
  <2>6. visit' \in [Visitors -> Request]
    BY <1>3, RequestsMove DEF Open
  <2>7. UNCHANGED <<password, token, failures>>
    BY <1>3 DEF Open
  <2>8. QED
    BY <2>2, <2>3, <2>5, <2>6, <2>7
<1>4. ASSUME NEW order \in Seq(Sessions), ToSet(order) \subseteq ToSet(seen),
             EndSessionsBut(order),
             visit' \in [Visitors -> Request],
             UNCHANGED <<password, token, failures>>
      PROVE  AccountsTypeOK'
  <2>1. session' \in [Sessions -> Credential]
    BY <1>4, CredentialsEnd DEF EndSessionsBut
  <2>2. \A s \in Sessions :
           session'[s].state = IF s \in ToSet(seen) \ ToSet(order) THEN "ended"
                               ELSE session[s].state
    BY <1>4 DEF EndSessionsBut, Credential
  <2>3. ToSet(order) = {s \in Sessions : session'[s].state = "live"}
    BY <1>4, <2>2
  <2>4. seen' = order
    BY <1>4 DEF EndSessionsBut
  <2>5. QED
    BY <1>4, <2>1, <2>3, <2>4
<1>5. ASSUME NEW v \in Visitors, Enforce(v)
      PROVE  AccountsTypeOK'
  <2>1. Kept \in Seq(Sessions) /\ ToSet(Kept) \subseteq ToSet(seen)
    BY SessionsKept, AccountsAssumption
  <2>2. QED
    BY <1>4, <1>5, <2>1, RequestsMove DEF Enforce
<1>6. ASSUME NEW v \in Visitors, FindToken(v)
      PROVE  AccountsTypeOK'
  BY <1>6 DEF FindToken, Begins, Passwords, Request
<1>7. ASSUME NEW v \in Visitors, Spend(v)
      PROVE  AccountsTypeOK'
  <2>1. CASE Spendable(visit[v].uses)
    <3>1. /\ visit[v].uses \in Tokens /\ token' \in [Tokens -> Credential]
          /\ visit' = [visit EXCEPT ![v] =
                 [op |-> "refresh", at |-> "issue", uses |-> visit[v].uses,
                  under |-> token[visit[v].uses].under,
                  late |-> token[visit[v].uses].late]]
      BY <1>7, <2>1, SpentToken
    <3>2. token[visit[v].uses] \in Credential
      BY <3>1
    <3>3. QED
      BY <1>7, <3>1, <3>2 DEF Spend, Credential, Request
  <2>2. CASE ~Spendable(visit[v].uses)
    BY <1>7, <2>2, RequestsMove DEF Spend
  <2>3. QED
    BY <2>1, <2>2
<1>8. ASSUME NEW v \in Visitors, StartChange(v)
      PROVE  AccountsTypeOK'
  BY <1>8 DEF StartChange, Begins, Passwords, Request
<1>9. ASSUME NEW v \in Visitors, WritePassword(v)
      PROVE  AccountsTypeOK'
  <2>1. visit' \in [Visitors -> Request]
    BY <1>9, RequestsMove DEF WritePassword
  <2>2. password' \in Passwords
    BY <1>9 DEF WritePassword, Passwords
  <2>3. QED
    BY <1>9, <2>1, <2>2 DEF WritePassword
<1>10. ASSUME NEW v \in Visitors, RevokeTokens(v)
       PROVE  AccountsTypeOK'
  <2>1. token' \in [Tokens -> Credential]
    BY <1>10, CredentialsEnd DEF RevokeTokens
  <2>2. QED
    BY <1>10, <2>1, RequestsMove DEF RevokeTokens
<1>11. CASE TouchLastSeen
  <2>1. PICK n \in 2 .. Len(seen) : seen' = <<seen[n]>> \o RemoveAt(seen, n)
    BY <1>11 DEF TouchLastSeen
  <2>2. n \in 1 .. Len(seen)
    BY <2>1
  <2>3. seen' \in Seq(Sessions) /\ ToSet(seen') = ToSet(seen)
    BY <2>1, <2>2, SessionsReordered
  <2>4. QED
    BY <1>11, <2>3 DEF TouchLastSeen
<1>12. CASE SessionEnds
  <2>1. PICK n \in DOMAIN seen : EndSessionsBut(RemoveAt(seen, n))
    BY <1>12 DEF SessionEnds
  <2>2. n \in 1 .. Len(seen)
    BY <2>1
  <2>3. RemoveAt(seen, n) \in Seq(Sessions) /\ ToSet(RemoveAt(seen, n)) \subseteq ToSet(seen)
    BY <2>2, OneSessionFewer
  <2>4. QED
    BY <1>4, <1>12, <2>1, <2>3 DEF SessionEnds
<1>13. CASE TokenExpires
  BY <1>13, CredentialsEnd DEF TokenExpires
<1>14. CASE UNCHANGED accountsVars
  BY <1>14 DEF accountsVars
<1>15. ASSUME NEW v \in Visitors, RevokeFails(v) \/ Abort(v)
       PROVE  AccountsTypeOK'
  <2>1. visit' \in [Visitors -> Request]
    BY <1>15, RequestsMove DEF RevokeFails, Abort
  <2>2. failures < MaxFailures /\ failures' = failures + 1
    BY <1>15 DEF RevokeFails, Abort
  <2>3. failures' \in 0 .. MaxFailures
    BY <2>2
  <2>4. QED
    BY <1>15, <2>1, <2>3 DEF RevokeFails, Abort
<1>16. QED
  BY <1>1, <1>2, <1>3, <1>5, <1>6, <1>7, <1>8, <1>9, <1>10, <1>11, <1>12, <1>13, <1>14, <1>15
     DEF AccountsNext, Visit

LEMMA AccountsKeepsSpent ==
    ASSUME AccountsInv, [AccountsNext]_accountsVars
    PROVE  SpentAreSpent'
<1> USE DEF AccountsInv, AccountsTypeOK, SpentAreSpent
<1>1. ASSUME NEW v \in Visitors, Issue(v)
      PROVE  SpentAreSpent'
  BY <1>1 DEF Issue, Issued
<1>2. ASSUME NEW v \in Visitors, Spend(v)
      PROVE  SpentAreSpent'
  <2>1. CASE Spendable(visit[v].uses)
    <3>1. /\ token'[visit[v].uses].state = "ended"
          /\ token'[visit[v].uses].exchanged = 1
          /\ \A t \in Tokens \ {visit[v].uses} : token'[t] = token[t]
      BY <1>2, <2>1, SpentToken
    <3>2. QED
      BY <3>1
  <2>2. CASE ~Spendable(visit[v].uses)
    BY <1>2, <2>2 DEF Spend
  <2>3. QED
    BY <2>1, <2>2
<1>3. ASSUME NEW t \in Tokens, token'[t] # token[t],
             \/ \E v \in Visitors : RevokeTokens(v)
             \/ TokenExpires
      PROVE  token'[t] = [token[t] EXCEPT !.state = "ended"] /\ token[t].state = "live"
  BY <1>3 DEF RevokeTokens, TokenExpires
<1>4. ASSUME \/ \E v \in Visitors : RevokeTokens(v)
             \/ TokenExpires
      PROVE  SpentAreSpent'
  <2>1. ASSUME NEW t \in Tokens
        PROVE  /\ token'[t].state # "ended" => token'[t].exchanged = 0
               /\ token'[t].exchanged <= 1
    <3>1. token[t] \in Credential
      OBVIOUS
    <3>2. CASE token'[t] # token[t]
      <4>1. token'[t] = [token[t] EXCEPT !.state = "ended"]
        BY <1>3, <1>4, <3>2
      <4>2. token'[t].state = "ended" /\ token'[t].exchanged = token[t].exchanged
        BY <3>1, <4>1 DEF Credential
      <4>3. QED
        BY <4>2
    <3>3. CASE token'[t] = token[t]
      BY <3>3
    <3>4. QED
      BY <3>2, <3>3
  <2>2. QED
    BY <2>1
<1>5. CASE UNCHANGED token
  BY <1>5
<1>6. \/ UNCHANGED token
      \/ \E v \in Visitors : Issue(v) \/ Spend(v) \/ RevokeTokens(v)
      \/ TokenExpires
  BY DEF AccountsNext, Visit, accountsVars, CheckPassword, Open, Enforce, FindToken,
         StartChange, WritePassword, RevokeFails, Abort, TouchLastSeen, SessionEnds
<1>7. QED
  BY <1>1, <1>2, <1>4, <1>5, <1>6

LEMMA AccountsKeepsSpenders ==
    ASSUME AccountsInv, [AccountsNext]_accountsVars
    PROVE  SpendersHold'
<1> USE DEF AccountsInv, AccountsTypeOK, SpendersHold, At
<1>1. ASSUME NEW v \in Visitors, NEW t \in Tokens,
             Begins(v, "refresh", "spend", t, 0, FALSE)
      PROVE  SpendersHold'
  BY <1>1 DEF Begins
<1>2. ASSUME NEW v \in Visitors,
             \/ CheckPassword(v) \/ Issue(v) \/ Enforce(v) \/ StartChange(v)
             \/ RevokeFails(v) \/ Abort(v)
      PROVE  SpendersHold'
  <2>1. \A u \in Visitors \ {v} : visit'[u] = visit[u]
    BY <1>2 DEF CheckPassword, Issue, Enforce, StartChange, RevokeFails, Abort, Begins, Leaves
  <2>2. visit'[v].at # "spend"
    BY <1>2 DEF CheckPassword, Issue, Enforce, StartChange, RevokeFails, Abort, Begins,
                Leaves, Idle
  <2>3. QED
    BY <2>1, <2>2
<1>3. ASSUME NEW v \in Visitors, Open(v) \/ WritePassword(v)
      PROVE  SpendersHold'
  <2>1. visit[v] \in Request
    OBVIOUS
  <2>2. \A u \in Visitors \ {v} : visit'[u] = visit[u]
    BY <1>3 DEF Open, WritePassword
  <2>3. visit'[v].at # "spend"
    BY <1>3, <2>1 DEF Open, WritePassword, Request
  <2>4. QED
    BY <2>2, <2>3
<1>4. ASSUME NEW v \in Visitors, Spend(v)
      PROVE  SpendersHold'
  BY <1>4 DEF Spend, Begins, Leaves, Idle
<1>5. ASSUME NEW v \in Visitors, RevokeTokens(v)
      PROVE  SpendersHold'
  <2>1. visit'[v].at = "none"
    BY <1>5 DEF RevokeTokens, Idle, Overtaken
  <2>2. ASSUME NEW u \in Visitors \ {v}
        PROVE  visit'[u].at = visit[u].at /\ visit'[u].uses = visit[u].uses
    <3>1. visit[u] \in Request
      OBVIOUS
    <3>2. visit'[u] = IF visit[u].at = "issue" THEN [visit[u] EXCEPT !.late = TRUE]
                      ELSE visit[u]
      BY <1>5 DEF RevokeTokens, Overtaken
    <3>3. QED
      BY <3>1, <3>2 DEF Request
  <2>3. QED
    BY <2>1, <2>2
<1>6. CASE UNCHANGED visit
  BY <1>6
<1>7. ASSUME NEW v \in Visitors, FindToken(v)
      PROVE  SpendersHold'
  BY <1>1, <1>7 DEF FindToken
<1>8. QED
  BY <1>2, <1>3, <1>4, <1>5, <1>6, <1>7
     DEF AccountsNext, Visit, accountsVars, TouchLastSeen, SessionEnds, TokenExpires

\* Nothing that was issued under an old password is followed by the change that
\* should have ended it (ChangePassword writes first and revokes later).
LEMMA AccountsKeepsPasswordFollowed ==
    ASSUME AccountsInv, [AccountsNext]_accountsVars
    PROVE  PasswordIsFollowed'
<1> DEFINE Revoking == \E v \in Visitors : At(v, "revoke")
           IssuedFollow == \A t \in Tokens :
               token[t].state = "live" => token[t].under = password \/ token[t].late
           IssuersFollow == \A v \in Visitors :
               At(v, "issue") => visit[v].under = password \/ visit[v].late
<1> USE DEF AccountsInv, AccountsTypeOK, At
<1>1. failures = 0 => Revoking \/ (IssuedFollow /\ IssuersFollow)
  BY DEF PasswordIsFollowed
<1>2. (failures' = 0 => Revoking' \/ (IssuedFollow' /\ IssuersFollow')) => PasswordIsFollowed'
  BY DEF PasswordIsFollowed
<1> HIDE DEF Revoking
<1>3. ASSUME NEW v \in Visitors, visit[v].at # "revoke",
             \A u \in Visitors \ {v} : visit'[u].at = visit[u].at
      PROVE  Revoking => Revoking'
  BY <1>3 DEF Revoking
<1>4. ASSUME NEW v \in Visitors,
             \/ CheckPassword(v) \/ FindToken(v) \/ StartChange(v)
             \/ Open(v) \/ Enforce(v)
      PROVE  PasswordIsFollowed'
  <2>1. \A u \in Visitors \ {v} : visit'[u] = visit[u]
    BY <1>4 DEF CheckPassword, FindToken, StartChange, Open, Enforce, Begins, Leaves
  <2>2. visit[v].at # "revoke"
    <3>1. visit[v] = Idle \/ visit[v].at \in {"open", "enforce"}
      BY <1>4 DEF CheckPassword, FindToken, StartChange, Open, Enforce
    <3>2. QED
      BY <3>1 DEF Idle
  <2>3. UNCHANGED <<token, password, failures>>
    BY <1>4 DEF CheckPassword, FindToken, StartChange, Open, Enforce
  <2>4. visit[v] \in Request
    OBVIOUS
  <2>5. visit'[v].at = "issue" => visit'[v].under = password
    BY <1>4, <2>4 DEF CheckPassword, FindToken, StartChange, Open, Enforce, Begins, Leaves,
                      Idle, Request
  <2>6. Revoking => Revoking'
    BY <1>3, <2>1, <2>2
  <2>7. IssuersFollow => IssuersFollow'
    BY <2>1, <2>3, <2>5
  <2>8. IssuedFollow => IssuedFollow'
    BY <2>3
  <2>9. QED
    BY <1>1, <1>2, <2>3, <2>6, <2>7, <2>8
<1>5. ASSUME NEW v \in Visitors, Issue(v)
      PROVE  PasswordIsFollowed'
  <2>1. /\ \A u \in Visitors \ {v} : visit'[u] = visit[u]
        /\ visit'[v] = Idle /\ visit[v].at = "issue"
    BY <1>5 DEF Issue, Leaves
  <2>2. PICK t \in Tokens : token' = [token EXCEPT ![t] = Issued(v)]
    BY <1>5 DEF Issue
  <2>3. UNCHANGED <<password, failures>>
    BY <1>5 DEF Issue
  <2>4. Revoking => Revoking'
    BY <1>3, <2>1
  <2>5. IssuersFollow => IssuersFollow'
    BY <2>1, <2>3 DEF Idle
  <2>6. IssuersFollow /\ IssuedFollow => IssuedFollow'
    BY <2>1, <2>2, <2>3 DEF Issued
  <2>7. QED
    BY <1>1, <1>2, <2>3, <2>4, <2>5, <2>6
<1>6. ASSUME NEW v \in Visitors, Spend(v)
      PROVE  PasswordIsFollowed'
  <2>1. UNCHANGED <<password, failures>> /\ visit[v].at = "spend"
    BY <1>6 DEF Spend
  <2>2. CASE Spendable(visit[v].uses)
    <3>1. /\ visit[v].uses \in Tokens
          /\ token'[visit[v].uses].state = "ended"
          /\ \A t \in Tokens \ {visit[v].uses} : token'[t] = token[t]
          /\ visit' = [visit EXCEPT ![v] =
                 [op |-> "refresh", at |-> "issue", uses |-> visit[v].uses,
                  under |-> token[visit[v].uses].under,
                  late |-> token[visit[v].uses].late]]
      BY <1>6, <2>2, SpentToken
    <3>2. /\ \A u \in Visitors \ {v} : visit'[u] = visit[u]
          /\ visit'[v].under = token[visit[v].uses].under
          /\ visit'[v].late = token[visit[v].uses].late
      BY <3>1
    <3>3. Revoking => Revoking'
      BY <1>3, <2>1, <3>2
    <3>4. IssuedFollow => IssuedFollow'
      BY <2>1, <3>1
    <3>5. IssuedFollow /\ IssuersFollow => IssuersFollow'
      BY <2>1, <2>2, <3>1, <3>2 DEF Spendable
    <3>6. QED
      BY <1>1, <1>2, <2>1, <3>3, <3>4, <3>5
  <2>3. CASE ~Spendable(visit[v].uses)
    <3>1. /\ \A u \in Visitors \ {v} : visit'[u] = visit[u]
          /\ visit'[v] = Idle /\ UNCHANGED token
      BY <1>6, <2>3 DEF Spend, Leaves
    <3>2. Revoking => Revoking'
      BY <1>3, <2>1, <3>1
    <3>3. IssuedFollow => IssuedFollow'
      BY <2>1, <3>1
    <3>4. IssuersFollow => IssuersFollow'
      BY <2>1, <3>1 DEF Idle
    <3>5. QED
      BY <1>1, <1>2, <2>1, <3>2, <3>3, <3>4
  <2>4. QED
    BY <2>2, <2>3
<1>7. ASSUME NEW v \in Visitors, WritePassword(v)
      PROVE  PasswordIsFollowed'
  <2>1. visit'[v].at = "revoke"
    BY <1>7 DEF WritePassword, Request
  <2>2. Revoking'
    BY <2>1 DEF Revoking
  <2>3. QED
    BY <1>2, <2>2
<1>8. ASSUME NEW v \in Visitors, RevokeTokens(v)
      PROVE  PasswordIsFollowed'
  <2>1. \A t \in Tokens : token'[t].state # "live"
    <3>1. ASSUME NEW t \in Tokens
          PROVE  token'[t].state # "live"
      <4>1. token[t] \in Credential
        OBVIOUS
      <4>2. token'[t] = IF token[t].state = "live" THEN [token[t] EXCEPT !.state = "ended"]
                        ELSE token[t]
        BY <1>8 DEF RevokeTokens
      <4>3. QED
        BY <4>1, <4>2 DEF Credential
    <3>2. QED
      BY <3>1
  <2>2. ASSUME NEW u \in Visitors, visit'[u].at = "issue"
        PROVE  visit'[u].late
    <3>1. visit[u] \in Request
      OBVIOUS
    <3>2. visit'[u] = IF u = v THEN Idle
                      ELSE IF visit[u].at = "issue" THEN [visit[u] EXCEPT !.late = TRUE]
                      ELSE visit[u]
      BY <1>8 DEF RevokeTokens, Overtaken
    <3>3. QED
      BY <2>2, <3>1, <3>2 DEF Request, Idle
  <2>3. QED
    BY <1>2, <2>1, <2>2
<1>9. ASSUME NEW v \in Visitors, RevokeFails(v) \/ Abort(v)
      PROVE  PasswordIsFollowed'
  <2>1. failures' = failures + 1 /\ failures \in Nat
    BY <1>9, AccountsAssumption DEF RevokeFails, Abort
  <2>2. QED
    BY <1>2, <2>1
<1>10. CASE TouchLastSeen \/ SessionEnds \/ UNCHANGED accountsVars
  <2>1. UNCHANGED <<password, token, visit, failures>>
    BY <1>10 DEF TouchLastSeen, SessionEnds, accountsVars
  <2>2. QED
    BY <1>1, <1>2, <2>1 DEF Revoking
<1>11. CASE TokenExpires
  <2>1. PICK t \in Tokens : token' = [token EXCEPT ![t].state = "ended"]
    BY <1>11 DEF TokenExpires
  <2>2. token'[t].state = "ended" /\ \A r \in Tokens \ {t} : token'[r] = token[r]
    BY <2>1, CredentialsEnd
  <2>3. UNCHANGED <<password, visit, failures>>
    BY <1>11 DEF TokenExpires
  <2>4. IssuedFollow => IssuedFollow'
    BY <2>2, <2>3
  <2>5. (Revoking => Revoking') /\ (IssuersFollow => IssuersFollow')
    BY <2>3 DEF Revoking
  <2>6. QED
    BY <1>1, <1>2, <2>3, <2>4, <2>5
<1>12. QED
  BY <1>4, <1>5, <1>6, <1>7, <1>8, <1>9, <1>10, <1>11 DEF AccountsNext, Visit

\* Only an insert lets one more sign-in owe its cut, and only a cut, or the end of
\* a request, pays it.
LEMMA EnforcingMoves ==
    ASSUME AccountsInv, [AccountsNext]_accountsVars
    PROVE  \/ /\ Enforcing' = Enforcing
              /\ UNCHANGED <<seen, failures>> \/ TouchLastSeen \/ SessionEnds
           \/ \E v \in Visitors : Open(v) /\ v \notin Enforcing
                                    /\ Enforcing' = Enforcing \cup {v}
           \/ \E v \in Visitors : Enforce(v) /\ Enforcing' = Enforcing \ {v}
           \/ Enforcing' \subseteq Enforcing /\ failures' = failures + 1
<1> USE DEF AccountsInv, AccountsTypeOK, At, Enforcing
<1>1. ASSUME NEW v \in Visitors, NEW z,
             z.at # "enforce", visit[v].at # "enforce",
             visit' = [visit EXCEPT ![v] = z]
      PROVE  Enforcing' = Enforcing
  BY <1>1
<1>2. ASSUME NEW v \in Visitors,
             CheckPassword(v) \/ FindToken(v) \/ StartChange(v) \/ Issue(v) \/ Spend(v)
      PROVE  Enforcing' = Enforcing /\ UNCHANGED <<seen, failures>>
  <2>1. visit[v].at # "enforce"
    <3>1. visit[v] = Idle \/ visit[v].at \in {"issue", "spend"}
      BY <1>2 DEF CheckPassword, FindToken, StartChange, Issue, Spend
    <3>2. QED
      BY <3>1 DEF Idle
  <2>2. \E z : z.at # "enforce" /\ visit' = [visit EXCEPT ![v] = z]
    <3>1. CASE CheckPassword(v)
      <4>1. PICK kind \in {<<"login", "issue">>, <<"weblogin", "open">>} :
               visit' = [visit EXCEPT ![v] = [op |-> kind[1], at |-> kind[2],
                            uses |-> Nothing, under |-> password, late |-> FALSE]]
        BY <3>1 DEF CheckPassword, Begins
      <4>2. kind[2] # "enforce"
        OBVIOUS
      <4>3. QED
        BY <4>1, <4>2
    <3>2. CASE FindToken(v)
      BY <3>2 DEF FindToken, Begins
    <3>3. CASE StartChange(v)
      BY <3>3 DEF StartChange, Begins
    <3>4. CASE Issue(v)
      BY <3>4 DEF Issue, Leaves, Idle
    <3>5. CASE Spend(v)
      BY <3>5 DEF Spend, Begins, Leaves, Idle
    <3>6. QED
      BY <1>2, <3>1, <3>2, <3>3, <3>4, <3>5
  <2>3. Enforcing' = Enforcing
    BY <1>1, <2>1, <2>2
  <2>4. QED
    BY <1>2, <2>3 DEF CheckPassword, FindToken, StartChange, Issue, Spend
<1>3. ASSUME NEW v \in Visitors, WritePassword(v)
      PROVE  Enforcing' = Enforcing /\ UNCHANGED <<seen, failures>>
  <2>1. visit[v] \in Request
    OBVIOUS
  <2>2. [visit[v] EXCEPT !.at = "revoke"].at = "revoke"
    BY <2>1 DEF Request
  <2>3. QED
    BY <1>1, <1>3, <2>2 DEF WritePassword
<1>4. ASSUME NEW v \in Visitors, RevokeTokens(v)
      PROVE  Enforcing' = Enforcing /\ UNCHANGED <<seen, failures>>
  <2>1. ASSUME NEW u \in Visitors
        PROVE  visit'[u].at = "enforce" <=> visit[u].at = "enforce"
    <3>1. visit[u] \in Request
      OBVIOUS
    <3>2. visit'[u] = IF u = v THEN Idle
                      ELSE IF visit[u].at = "issue" THEN [visit[u] EXCEPT !.late = TRUE]
                      ELSE visit[u]
      BY <1>4 DEF RevokeTokens, Overtaken
    <3>3. QED
      BY <1>4, <3>1, <3>2 DEF RevokeTokens, Request, Idle
  <2>2. QED
    BY <1>4, <2>1 DEF RevokeTokens
<1>5. ASSUME NEW v \in Visitors, Open(v)
      PROVE  v \notin Enforcing /\ Enforcing' = Enforcing \cup {v}
  <2>1. visit'[v].at = "enforce" /\ visit[v].at = "open"
    BY <1>5 DEF Open, Request
  <2>2. \A u \in Visitors \ {v} : visit'[u] = visit[u]
    BY <1>5 DEF Open
  <2>3. QED
    BY <2>1, <2>2
<1>6. ASSUME NEW v \in Visitors, Enforce(v)
      PROVE  Enforcing' = Enforcing \ {v}
  BY <1>6 DEF Enforce, Leaves, Idle
<1>7. ASSUME NEW v \in Visitors, RevokeFails(v) \/ Abort(v)
      PROVE  Enforcing' \subseteq Enforcing /\ failures' = failures + 1
  BY <1>7 DEF RevokeFails, Abort, Leaves, Idle
<1>8. CASE TouchLastSeen \/ SessionEnds \/ TokenExpires \/ UNCHANGED accountsVars
  <2>1. UNCHANGED visit
    BY <1>8 DEF TouchLastSeen, SessionEnds, TokenExpires, accountsVars
  <2>2. TokenExpires \/ UNCHANGED accountsVars => UNCHANGED <<seen, failures>>
    BY DEF TokenExpires, accountsVars
  <2>3. QED
    BY <1>8, <2>1, <2>2
<1> HIDE DEF AccountsInv, AccountsTypeOK, At, Enforcing
<1>9. QED
  BY <1>2, <1>3, <1>4, <1>5, <1>6, <1>7, <1>8, Zenon DEF AccountsNext, Visit

LEMMA AccountsKeepsSessionLimit ==
    ASSUME AccountsInv, [AccountsNext]_accountsVars
    PROVE  IsFiniteSet(Enforcing)' /\ SessionLimitHolds'
<1>1. /\ IsFiniteSet(Enforcing) /\ seen \in Seq(Sessions)
      /\ failures = 0 => Len(seen) <= SessionLimit + Cardinality(Enforcing)
      /\ SessionLimit \in Nat /\ Len(seen) \in Nat /\ failures \in Nat
      /\ Cardinality(Enforcing) \in Nat
  BY AccountsAssumption, FS_CardinalityType
     DEF AccountsInv, AccountsTypeOK, SessionLimitHolds, Enforcing
<1>2. ASSUME IsFiniteSet(Enforcing'),
             failures' = 0 => Len(seen') <= SessionLimit + Cardinality(Enforcing')
      PROVE  IsFiniteSet(Enforcing)' /\ SessionLimitHolds'
  BY <1>2 DEF SessionLimitHolds, Enforcing
<1>3. CASE /\ Enforcing' = Enforcing
           /\ UNCHANGED <<seen, failures>> \/ TouchLastSeen \/ SessionEnds
  <2>1. CASE UNCHANGED <<seen, failures>>
    BY <1>1, <1>2, <1>3, <2>1
  <2>2. CASE TouchLastSeen
    <3>1. PICK n \in 2 .. Len(seen) : seen' = <<seen[n]>> \o RemoveAt(seen, n)
      BY <2>2 DEF TouchLastSeen
    <3>2. n \in 1 .. Len(seen)
      BY <1>1, <3>1
    <3>3. Len(seen') = Len(seen)
      BY <1>1, <3>1, <3>2, SessionsReordered
    <3>4. QED
      BY <1>1, <1>2, <1>3, <2>2, <3>3 DEF TouchLastSeen
  <2>3. CASE SessionEnds
    <3>1. PICK n \in DOMAIN seen : seen' = RemoveAt(seen, n)
      BY <2>3 DEF SessionEnds, EndSessionsBut
    <3>2. n \in 1 .. Len(seen)
      BY <1>1, <3>1
    <3>3. Len(seen') = Len(seen) - 1
      BY <1>1, <3>1, <3>2, OneSessionFewer
    <3>4. failures' = failures
      BY <2>3 DEF SessionEnds
    <3>5. QED
      BY <1>1, <1>2, <1>3, <3>3, <3>4
  <2>4. QED
    BY <1>3, <2>1, <2>2, <2>3
<1>4. ASSUME NEW v \in Visitors, Open(v), v \notin Enforcing,
             Enforcing' = Enforcing \cup {v}
      PROVE  IsFiniteSet(Enforcing)' /\ SessionLimitHolds'
  <2>1. IsFiniteSet(Enforcing') /\ Cardinality(Enforcing') = Cardinality(Enforcing) + 1
    BY <1>1, <1>4, FS_AddElement
  <2>2. PICK s \in Sessions : seen' = <<s>> \o seen
    BY <1>4 DEF Open
  <2>3. Len(seen') = Len(seen) + 1
    BY <1>1, <2>2, OneSessionMore
  <2>4. failures' = failures
    BY <1>4 DEF Open
  <2>5. QED
    BY <1>1, <1>2, <2>1, <2>3, <2>4
<1>5. ASSUME NEW v \in Visitors, Enforce(v), Enforcing' = Enforcing \ {v}
      PROVE  IsFiniteSet(Enforcing)' /\ SessionLimitHolds'
  <2>1. IsFiniteSet(Enforcing')
    BY <1>1, <1>5, FS_RemoveElement
  <2>2. seen' = Kept
    BY <1>5 DEF Enforce, EndSessionsBut
  <2>3. Len(seen') <= SessionLimit /\ Kept \in Seq(Sessions)
    BY <1>1, <2>2, SessionsKept
  <2>4. Cardinality(Enforcing') \in Nat /\ Len(seen') \in Nat
    BY <2>1, <2>2, <2>3, FS_CardinalityType
  <2>5. QED
    BY <1>1, <1>2, <2>1, <2>3, <2>4
<1>6. CASE Enforcing' \subseteq Enforcing /\ failures' = failures + 1
  <2>1. IsFiniteSet(Enforcing')
    BY <1>1, <1>6, FS_Subset
  <2>2. QED
    BY <1>1, <1>2, <1>6, <2>1
<1>7. QED
  BY <1>3, <1>4, <1>5, <1>6, EnforcingMoves

LEMMA AccountsKeepsInv ==
    ASSUME AccountsInv, [AccountsNext]_accountsVars
    PROVE  AccountsInv'
<1>1. AccountsTypeOK' /\ SpentAreSpent' /\ SpendersHold' /\ PasswordIsFollowed'
  BY AccountsKeepsType, AccountsKeepsSpent, AccountsKeepsSpenders,
     AccountsKeepsPasswordFollowed
<1>2. IsFiniteSet(Enforcing)' /\ SessionLimitHolds'
  BY AccountsKeepsSessionLimit
<1>3. QED
  BY <1>1, <1>2 DEF AccountsInv

LEMMA AccountsInvHolds ==
    AccountsInv => /\ AccountsTypeOK /\ TokenIsSpentOnce
                   /\ TokensFollowPassword /\ SessionLimitHolds
  BY DEF AccountsInv, SpentAreSpent, TokenIsSpentOnce, PasswordIsFollowed,
         TokensFollowPassword

(* Roles: modules Memberships and Access. *)

\* The highest of some ranks, and the lowest of two.
LEMMA HighestRank ==
    ASSUME NEW S \in SUBSET (0 .. 5), S # {}
    PROVE  Max(S) \in S /\ \A r \in S : r <= Max(S)
<1>1. \E x \in S : \A y \in S : x >= y
  <2>1. CASE 5 \in S
    BY <2>1
  <2>2. CASE 5 \notin S /\ 4 \in S
    BY <2>2
  <2>3. CASE 5 \notin S /\ 4 \notin S /\ 3 \in S
    BY <2>3
  <2>4. CASE 5 \notin S /\ 4 \notin S /\ 3 \notin S /\ 2 \in S
    BY <2>4
  <2>5. CASE 5 \notin S /\ 4 \notin S /\ 3 \notin S /\ 2 \notin S
    <3>1. \A y \in S : y \in {0, 1}
      BY <2>5
    <3>2. CASE 1 \in S
      BY <3>1, <3>2
    <3>3. CASE 1 \notin S
      <4>1. 0 \in S /\ \A y \in S : y = 0
        BY <3>1, <3>3
      <4>2. QED
        BY <4>1
    <3>4. QED
      BY <3>2, <3>3
  <2>6. QED
    BY <2>1, <2>2, <2>3, <2>4, <2>5
<1>2. Max(S) \in S /\ \A y \in S : Max(S) >= y
  BY <1>1 DEF Max
<1>3. QED
  BY <1>2

\* The founder keeps the membership the set-up gave, an administrator's, and
\* whoever is about to change it leaves the role.
FounderKeeps ==
    ~rescued =>
        /\ rows # <<>> /\ rows[1].live /\ rows[1].role = OrgAdmin
        /\ \A u \in Users :
              desk[u].op # "none" /\ desk[u].row = 1 =>
                 desk[u].op = "change" /\ desk[u].role = OrgAdmin

\* What is on a desk is a change of a row there is.
DesksHold ==
    \A u \in Users : /\ desk[u].op # "none" => desk[u].row \in DOMAIN rows
                     /\ desk[u].op = "change" => desk[u].role \in Roles

MembershipsInv == MembershipsTypeOK /\ DesksHold /\ FounderKeeps

\* No role is above the administrator's.
LEMMA OrgRoleIsARank ==
    ASSUME MembershipsTypeOK, NEW u
    PROVE  OrgRole(u) \in 0 .. OrgAdmin
<1> DEFINE S == {0} \cup {rows[n].role : n \in LiveRows(u)}
<1>1. \A n \in LiveRows(u) : rows[n] \in Row
  BY DEF MembershipsTypeOK, LiveRows
<1>2. S \in SUBSET (0 .. 5) /\ S # {}
  BY <1>1 DEF Row, Roles, Climber, OrgAdmin
<1>3. Max(S) \in S
  BY <1>2, HighestRank
<1>4. QED
  BY <1>2, <1>3 DEF OrgRole, OrgAdmin

\* A membership that is changed or removed is one still.
LEMMA RowsChange ==
    \A r \in Row :
       /\ [r EXCEPT !.live = FALSE] \in Row
       /\ [r EXCEPT !.live = FALSE].role = r.role
       /\ \A rank \in Roles : /\ [r EXCEPT !.role = rank] \in Row
                              /\ [r EXCEPT !.role = rank].live = r.live
                              /\ [r EXCEPT !.role = rank].role = rank
  BY DEF Row

LEMMA MembershipsStart == MembershipsInit => MembershipsInv
<1> SUFFICES ASSUME MembershipsInit
             PROVE  MembershipsInv
  OBVIOUS
<1>1. MaxRows \in Nat \ {0} /\ MaxAsked \in Nat /\ Founder \in Users
  BY MembershipsAssumption
<1>2. rows \in Seq(Row) /\ Len(rows) = 1 /\ rows[1].live /\ rows[1].role = OrgAdmin
  BY <1>1 DEF MembershipsInit, Row, Roles, Climber, OrgAdmin
<1>3. MembershipsTypeOK
  <2>1. gyms \subseteq Gyms
    BY DEF MembershipsInit
  <2>2. desk \in [Users -> [op : {"none", "change", "remove"},
                           row : 0 .. MaxRows, role : {0} \cup Roles]]
    BY <1>1 DEF MembershipsInit, Free
  <2>3. rescued = FALSE /\ turnedAway = {} /\ asked = 0
    BY DEF MembershipsInit
  <2>4. Len(rows) <= MaxRows
    BY <1>1, <1>2
  <2>5. rescued \in BOOLEAN /\ turnedAway \subseteq Users
    BY <2>3
  <2>6. asked \in 0 .. MaxAsked
    BY <1>1, <2>3
  <2>7. QED
    BY <1>2, <2>1, <2>2, <2>4, <2>5, <2>6 DEF MembershipsTypeOK
<1>4. QED
  BY <1>2, <1>3 DEF MembershipsInv, FounderKeeps, DesksHold, MembershipsInit, Free

\* Rows are added at the end, ...
LEMMA MembersAreAdded ==
    ASSUME MembershipsInv, NEW u \in Users, NEW at \in Gyms \cup {OrgWide},
           NEW rank \in Roles, InsertMember(u, at, rank),
           UNCHANGED <<gyms, desk, rescued, asked>>, turnedAway' = turnedAway
    PROVE  MembershipsInv'
<1> DEFINE new == [user |-> u, at |-> at, role |-> rank, live |-> TRUE]
<1>1. rows \in Seq(Row) /\ Len(rows) < MaxRows /\ rows' = Append(rows, new)
  BY DEF MembershipsInv, MembershipsTypeOK, InsertMember
<1>2. new \in Row /\ MaxRows \in Nat
  BY MembershipsAssumption DEF Row
<1> HIDE DEF new
<1>3. /\ rows' \in Seq(Row) /\ Len(rows') <= MaxRows
      /\ \A n \in 1 .. Len(rows) : rows'[n] = rows[n]
      /\ Len(rows') = Len(rows) + 1
  BY <1>1, <1>2, AppendProperties
<1>4. MembershipsTypeOK'
  BY <1>3 DEF MembershipsInv, MembershipsTypeOK
<1>5. DOMAIN rows = 1 .. Len(rows) /\ DOMAIN rows' = 1 .. Len(rows) + 1
  BY <1>1, <1>3
<1>6. DesksHold'
  BY <1>1, <1>5 DEF MembershipsInv, DesksHold
<1>7. FounderKeeps'
  <2>1. CASE rescued
    BY <2>1 DEF FounderKeeps
  <2>2. CASE ~rescued
    <3>1. 1 \in 1 .. Len(rows) /\ rows' # <<>>
      BY <1>1, <1>3, <2>2 DEF MembershipsInv, FounderKeeps
    <3>2. rows'[1] = rows[1]
      BY <1>3, <3>1
    <3>3. QED
      BY <3>1, <3>2 DEF MembershipsInv, FounderKeeps
  <2>3. QED
    BY <2>1, <2>2
<1>8. QED
  BY <1>4, <1>6, <1>7 DEF MembershipsInv

\* ... changed or removed in place.
LEMMA MembersAreChanged ==
    ASSUME MembershipsInv, NEW z, z \in [DOMAIN rows -> Row], rows' = z,
           desk' \in [Users -> [op : {"none", "change", "remove"},
                                row : 0 .. MaxRows, role : {0} \cup Roles]],
           \A u \in Users : desk'[u] \in {desk[u], Free},
           rescued' \in BOOLEAN, rescued => rescued',
           ~rescued' /\ 1 \in DOMAIN rows => z[1].live /\ z[1].role = OrgAdmin,
           UNCHANGED <<gyms, turnedAway, asked>>
    PROVE  MembershipsInv'
<1>1. rows \in Seq(Row) /\ Len(rows) <= MaxRows
  BY DEF MembershipsInv, MembershipsTypeOK
<1>2. rows' \in Seq(Row) /\ Len(rows') = Len(rows) /\ DOMAIN rows' = DOMAIN rows
  BY <1>1
<1>3. MembershipsTypeOK'
  BY <1>1, <1>2 DEF MembershipsInv, MembershipsTypeOK
<1>4. DesksHold'
  BY <1>2 DEF MembershipsInv, DesksHold, Free
<1>5. FounderKeeps'
  <2>1. CASE rescued'
    BY <2>1 DEF FounderKeeps
  <2>2. CASE ~rescued'
    <3>1. rows # <<>>
      BY <2>2 DEF MembershipsInv, FounderKeeps
    <3>2. 1 \in DOMAIN rows /\ rows' # <<>>
      BY <1>1, <1>2, <3>1
    <3>3. \A u \in Users : desk'[u].op # "none" => desk'[u] = desk[u]
      BY DEF Free
    <3>4. QED
      BY <2>2, <3>2, <3>3 DEF MembershipsInv, FounderKeeps
  <2>3. QED
    BY <2>1, <2>2
<1>6. QED
  BY <1>3, <1>4, <1>5 DEF MembershipsInv

LEMMA MembershipsKeepsInv ==
    ASSUME MembershipsInv, [MembershipsNext]_membershipVars
    PROVE  MembershipsInv'
<1>1. /\ rows \in Seq(Row) /\ Len(rows) \in Nat /\ DOMAIN rows = 1 .. Len(rows)
      /\ rows \in [DOMAIN rows -> Row]
      /\ Len(rows) <= MaxRows /\ MaxRows \in Nat
      /\ desk \in [Users -> [op : {"none", "change", "remove"},
                             row : 0 .. MaxRows, role : {0} \cup Roles]]
      /\ Free \in [op : {"none", "change", "remove"}, row : 0 .. MaxRows,
                   role : {0} \cup Roles]
  BY MembershipsAssumption DEF MembershipsInv, MembershipsTypeOK, Free
<1>2. ASSUME NEW u \in Users, NEW g \in Gyms, OpenGym(u, g)
      PROVE  MembershipsInv'
  BY <1>2 DEF OpenGym, MembershipsInv, MembershipsTypeOK, DesksHold, FounderKeeps
<1>3. ASSUME NEW u \in Users, NEW g \in Gyms, JoinGym(u, g)
      PROVE  MembershipsInv'
  <2>1. CASE InsertMember(u, g, Climber) /\ UNCHANGED turnedAway
    <3>1. Climber \in Roles
      BY DEF Climber, Roles, OrgAdmin
    <3>2. QED
      BY <1>3, <2>1, <3>1, MembersAreAdded DEF JoinGym
  <2>2. CASE UNCHANGED rows /\ turnedAway' = turnedAway \cup {u}
    BY <1>3, <2>2 DEF JoinGym, MembershipsInv, MembershipsTypeOK, DesksHold, FounderKeeps
  <2>3. QED
    BY <1>3, <2>1, <2>2 DEF JoinGym
<1>4. ASSUME NEW u \in Users, NEW op \in {"change", "remove"}, NEW n \in DOMAIN rows,
             NEW rank \in {0} \cup Roles, Asks(u, op, n, rank),
             op = "change" => rank \in Roles,
             n = 1 /\ ~rescued => op = "change" /\ rank = OrgAdmin
      PROVE  MembershipsInv'
  <2>1. /\ desk' = [desk EXCEPT ![u] = [op |-> op, row |-> n, role |-> rank]]
        /\ asked' = asked + 1 /\ asked < MaxAsked
        /\ UNCHANGED <<rows, gyms, rescued, turnedAway>>
    BY <1>4 DEF Asks
  <2>2. n \in 0 .. MaxRows
    BY <1>1
  <2>3. asked' \in 0 .. MaxAsked
    BY <2>1, MembershipsAssumption DEF MembershipsInv, MembershipsTypeOK
  <2>4. MembershipsTypeOK'
    BY <1>1, <2>1, <2>2, <2>3 DEF MembershipsInv, MembershipsTypeOK
  <2>5. /\ desk'[u] = [op |-> op, row |-> n, role |-> rank]
        /\ \A v \in Users \ {u} : desk'[v] = desk[v]
    BY <1>1, <2>1
  <2>6. DesksHold'
    BY <1>4, <2>1, <2>5 DEF MembershipsInv, DesksHold
  <2>7. FounderKeeps'
    BY <1>4, <2>1, <2>5 DEF MembershipsInv, FounderKeeps
  <2>8. QED
    BY <2>4, <2>6, <2>7 DEF MembershipsInv
<1>5. ASSUME NEW u \in Users, NEW n \in DOMAIN rows, NEW rank \in Roles,
             UpdateMembership(u, n, rank)
      PROVE  MembershipsInv'
  <2>1. OrgRole(u) \in 0 .. OrgAdmin
    BY OrgRoleIsARank DEF MembershipsInv
  <2>2. ASSUME n = 1, ~rescued
        PROVE  rank = OrgAdmin
    <3>1. rows[n].role = OrgAdmin
      BY <2>2 DEF MembershipsInv, FounderKeeps
    <3>2. rows[n].user = u
      BY <1>5, <2>1, <3>1 DEF UpdateMembership, Outranks, OrgAdmin
    <3>3. QED
      BY <1>5, <3>1, <3>2 DEF UpdateMembership, KeepsOwnRank, Roles, Climber, OrgAdmin
  <2>3. Asks(u, "change", n, rank)
    BY <1>5 DEF UpdateMembership
  <2>4. QED
    BY <1>4, <2>2, <2>3
<1>6. ASSUME NEW u \in Users, NEW n \in DOMAIN rows, RemoveMembership(u, n)
      PROVE  MembershipsInv'
  <2>1. OrgRole(u) \in 0 .. OrgAdmin
    BY OrgRoleIsARank DEF MembershipsInv
  <2>2. ~(n = 1 /\ ~rescued)
    <3>1. n = 1 /\ ~rescued => rows[n].role = OrgAdmin
      BY DEF MembershipsInv, FounderKeeps
    <3>2. OrgRole(u) > rows[n].role
      BY <1>6 DEF RemoveMembership, Outranks
    <3>3. QED
      BY <2>1, <3>1, <3>2 DEF OrgAdmin
  <2>3. Asks(u, "remove", n, 0)
    BY <1>6 DEF RemoveMembership
  <2>4. QED
    BY <1>4, <2>2, <2>3
<1>7. ASSUME NEW u \in Users, UpdateMemberRole(u)
      PROVE  MembershipsInv'
  <2> DEFINE n == desk[u].row
             rank == desk[u].role
             z == IF rows[n].live /\ UniqueAdmits(rows[n].user, rows[n].at, rank, {n})
                  THEN [rows EXCEPT ![n].role = rank] ELSE rows
  <2>1. n \in DOMAIN rows /\ rank \in Roles /\ desk[u].op = "change"
    BY <1>7 DEF UpdateMemberRole, MembershipsInv, DesksHold
  <2>2. z \in [DOMAIN rows -> Row]
    <3>1. [rows[n] EXCEPT !.role = rank] \in Row
      BY <1>1, <2>1, RowsChange
    <3>2. QED
      BY <1>1, <2>1, <3>1
  <2>3. ~rescued /\ 1 \in DOMAIN rows => z[1].live /\ z[1].role = OrgAdmin
    <3>1. ~rescued => rows[1].live /\ rows[1].role = OrgAdmin /\ (n = 1 => rank = OrgAdmin)
      BY <2>1 DEF MembershipsInv, FounderKeeps
    <3>2. 1 \in DOMAIN rows => rows[1] \in Row
      BY <1>1
    <3>3. QED
      BY <1>1, <2>1, <3>1, <3>2, RowsChange
  <2>4. /\ rows' = z /\ desk' = [desk EXCEPT ![u] = Free]
        /\ UNCHANGED <<gyms, rescued, turnedAway, asked>>
    BY <1>7 DEF UpdateMemberRole
  <2> HIDE DEF z
  <2>5. \A v \in Users : desk'[v] \in {desk[v], Free}
    BY <1>1, <2>4
  <2>6. desk' \in [Users -> [op : {"none", "change", "remove"},
                             row : 0 .. MaxRows, role : {0} \cup Roles]]
    BY <1>1, <2>4
  <2>7. rescued \in BOOLEAN
    BY DEF MembershipsInv, MembershipsTypeOK
  <2>8. QED
    BY <2>2, <2>3, <2>4, <2>5, <2>6, <2>7, MembersAreChanged
<1>8. ASSUME NEW u \in Users, SoftDelete(u)
      PROVE  MembershipsInv'
  <2> DEFINE n == desk[u].row
             z == [rows EXCEPT ![n].live = FALSE]
  <2>1. n \in DOMAIN rows /\ desk[u].op = "remove"
    BY <1>8 DEF SoftDelete, MembershipsInv, DesksHold
  <2>2. z \in [DOMAIN rows -> Row]
    BY <1>1, <2>1, RowsChange
  <2>3. ~rescued /\ 1 \in DOMAIN rows => z[1].live /\ z[1].role = OrgAdmin
    BY <1>1, <2>1 DEF MembershipsInv, FounderKeeps
  <2>4. /\ rows' = z /\ desk' = [desk EXCEPT ![u] = Free]
        /\ UNCHANGED <<gyms, rescued, turnedAway, asked>>
    BY <1>8 DEF SoftDelete
  <2> HIDE DEF z
  <2>5. \A v \in Users : desk'[v] \in {desk[v], Free}
    BY <1>1, <2>4
  <2>6. desk' \in [Users -> [op : {"none", "change", "remove"},
                             row : 0 .. MaxRows, role : {0} \cup Roles]]
    BY <1>1, <2>4
  <2>7. rescued \in BOOLEAN
    BY DEF MembershipsInv, MembershipsTypeOK
  <2>8. QED
    BY <2>2, <2>3, <2>4, <2>5, <2>6, <2>7, MembersAreChanged
<1>9. ASSUME NEW u \in Users, NEW at \in Gyms \cup {OrgWide}, NEW rank \in Roles,
             addMember(u, at, rank)
      PROVE  MembershipsInv'
  BY <1>9, MembersAreAdded DEF addMember
<1>10. ASSUME NEW u \in Users, removeMember(u)
       PROVE  MembershipsInv'
  <2> DEFINE z == [n \in DOMAIN rows |->
                     IF n \in LiveRows(u) THEN [rows[n] EXCEPT !.live = FALSE] ELSE rows[n]]
  <2>1. z \in [DOMAIN rows -> Row]
    BY <1>1, RowsChange
  <2>2. rows' = z /\ rescued' = TRUE /\ UNCHANGED <<gyms, desk, turnedAway, asked>>
    BY <1>10 DEF removeMember
  <2> HIDE DEF z
  <2>3. QED
    BY <1>1, <2>1, <2>2, MembersAreChanged
<1>11. ASSUME NEW u \in Users, NEW rank \in Roles, setRole(u, rank)
       PROVE  MembershipsInv'
  <2>1. PICK n \in DOMAIN rows :
           /\ rows' = [rows EXCEPT ![n].role = rank]
           /\ rescued' = (rescued \/ rank < rows[n].role)
    BY <1>11 DEF setRole
  <2> DEFINE z == [rows EXCEPT ![n].role = rank]
  <2>2. z \in [DOMAIN rows -> Row]
    BY <1>1, RowsChange
  <2>3. ~rescued' /\ 1 \in DOMAIN rows => z[1].live /\ z[1].role = OrgAdmin
    <3>1. ~rescued => rows[1].live /\ rows[1].role = OrgAdmin
      BY DEF MembershipsInv, FounderKeeps
    <3>2. 1 \in DOMAIN rows => rows[1] \in Row
      BY <1>1
    <3>3. rank \in Roles /\ ~(rank < OrgAdmin) => rank = OrgAdmin
      BY DEF Roles, Climber, OrgAdmin
    <3>4. CASE n = 1
      <4>1. ~rescued' => ~rescued /\ rank = OrgAdmin
        BY <2>1, <3>1, <3>3, <3>4
      <4>2. z[1].live = rows[1].live /\ z[1].role = rank
        BY <1>1, <3>4, RowsChange
      <4>3. QED
        BY <3>1, <4>1, <4>2
    <3>5. CASE n # 1
      <4>1. 1 \in DOMAIN rows => z[1] = rows[1]
        BY <1>1, <3>5
      <4>2. QED
        BY <2>1, <3>1, <4>1
    <3>6. QED
      BY <3>4, <3>5
  <2>4. rescued' \in BOOLEAN /\ (rescued => rescued')
    BY <2>1 DEF MembershipsInv, MembershipsTypeOK
  <2>5. UNCHANGED <<gyms, desk, turnedAway, asked>>
    BY <1>11 DEF setRole
  <2>6. rows' = z
    BY <2>1
  <2> HIDE DEF z
  <2>7. QED
    BY <1>1, <2>2, <2>3, <2>4, <2>5, <2>6, MembersAreChanged
<1>12. CASE UNCHANGED membershipVars
  BY <1>12 DEF membershipVars, MembershipsInv, MembershipsTypeOK, DesksHold, FounderKeeps
<1>13. QED
  BY <1>2, <1>3, <1>5, <1>6, <1>7, <1>8, <1>9, <1>10, <1>11, <1>12 DEF MembershipsNext

LEMMA MembershipsInvHolds ==
    MembershipsInv => MembershipsTypeOK /\ AdminRemains
<1> SUFFICES ASSUME MembershipsInv, ~rescued
             PROVE  \E n \in DOMAIN rows : rows[n].live /\ rows[n].role = OrgAdmin
  BY DEF MembershipsInv, AdminRemains
<1>1. rows \in Seq(Row) /\ rows # <<>> /\ rows[1].live /\ rows[1].role = OrgAdmin
  BY DEF MembershipsInv, MembershipsTypeOK, FounderKeeps
<1>2. 1 \in DOMAIN rows
  BY <1>1
<1>3. QED
  BY <1>1, <1>2

-----------------------------------------------------------------------------
(* Answers: module Access. *)

Ranks == 0 .. OrgAdmin
RoleGates == [gate : {"role", "staff", "owner"}, least : Roles]
PageGates == {[gate |-> "setter", least |-> Setter], [gate |-> "admin", least |-> 0]}
Calls == [pc : {"idle", "auth", "gates", "answered"},
          gates : Seq(RoleGates \cup PageGates),
          web : BOOLEAN, cookie : BOOLEAN, bearer : BOOLEAN, seen : Ranks,
          answer : {"none", "served", "401", "403", "404", "503", "login", "away"},
          least : Ranks, out : BOOLEAN, in : BOOLEAN, low : Ranks, best : Ranks]

\* What a request remembers is true of the moments it has seen.
RemembersTruly ==
    Underway =>
        /\ ~signed => call.out
        /\ signed \/ jwt => call.in
        /\ call.low <= RoleIn(role) /\ RoleIn(role) <= call.best

\* The highest rank asked for was held, or a gate still asks for it.
HighestIsAhead ==
    \/ call.least <= call.best
    \/ \E i \in DOMAIN call.gates : call.least <= call.gates[i].least

\* The gates ahead are of the kind of the request, and ask for no more than the
\* request is remembered to need; behind the first of them the caller was let in,
\* and a page was shown a rank the user held, or a climber's.
GatesAreAhead ==
    /\ call.gates \in IF call.web THEN Seq(PageGates) ELSE Seq(RoleGates)
    /\ Underway =>
          /\ \A i \in DOMAIN call.gates : call.gates[i].least <= call.least
          /\ HighestIsAhead
    /\ call.pc = "gates" =>
          /\ call.in
          /\ call.web => call.seen <= call.best \/ call.seen <= 1

AccessInv ==
    /\ AccessTypeOK
    /\ call \in Calls
    /\ spent \in [changes : Nat, faults : Nat]
    /\ call.pc # "answered" => call.answer = "none"
    /\ RemembersTruly
    /\ GatesAreAhead
    /\ SignedOutIsTrue
    /\ AnswersAreEarned

LEMMA LeastOfTwo ==
    ASSUME NEW m \in Int, NEW n \in Int
    PROVE  Min({m, n}) = IF m <= n THEN m ELSE n
<1>1. \E x \in {m, n} : \A y \in {m, n} : x =< y
  OBVIOUS
<1>2. Min({m, n}) \in {m, n} /\ \A y \in {m, n} : Min({m, n}) =< y
  BY <1>1 DEF Min
<1>3. QED
  BY <1>2

LEMMA LowerOfTwo ==
    ASSUME NEW m \in Int, NEW n \in Int
    PROVE  Lowest(m, n) = IF m <= n THEN m ELSE n
  BY LeastOfTwo DEF Lowest

LEMMA HigherOfTwo ==
    ASSUME NEW m \in Int, NEW n \in Int
    PROVE  Highest(m, n) = IF m <= n THEN n ELSE m
<1>1. \E x \in {m, n} : \A y \in {m, n} : x >= y
  OBVIOUS
<1>2. Max({m, n}) \in {m, n} /\ \A y \in {m, n} : Max({m, n}) >= y
  BY <1>1 DEF Max
<1>3. QED
  BY <1>2 DEF Highest

\* A role is a rank, and none of the user's memberships has a higher one.
LEMMA RoleIsARank ==
    ASSUME NEW held \in [Places -> Grants]
    PROVE  /\ RoleIn(held) \in Ranks
           /\ BestRole(held) \in Ranks
           /\ BestRole(held) <= RoleIn(held) \/ BestRole(held) <= 1
<1> DEFINE S == {held[p] : p \in Places}
           T == {held[Gym], held[Org], 1}
<1>1. Grants \subseteq 0 .. 5 /\ Org \in Places /\ Gym \in Places
  BY AccessAssumption DEF OrgAdmin, Places
<1>2. S \in SUBSET (0 .. 5) /\ S # {} /\ T \in SUBSET (0 .. 5) /\ T # {}
  <2>1. \A p \in Places : held[p] \in 0 .. 5
    BY <1>1
  <2>2. QED
    BY <1>1, <2>1
<1>3. /\ RoleIn(held) \in S /\ \A r \in S : r <= RoleIn(held)
      /\ BestRole(held) \in T
  <2>1. RoleIn(held) = Max(S) /\ BestRole(held) = Max(T)
    BY DEF RoleIn, BestRole
  <2>2. QED
    BY <1>2, <2>1, HighestRank
<1>4. held[Gym] \in S /\ held[Org] \in S
  BY <1>1
<1>5. QED
  BY <1>2, <1>3, <1>4 DEF Ranks, OrgAdmin

\* The gates the router puts before the operations.
LEMMA GatesOfTheApi == \A gates \in ApiGates : gates \in Seq(RoleGates)
<1>1. \A gs, ops : Behind(gs, ops).gates = gs
  BY DEF Behind
<1>2. \A r \in Roles : AtLeast(r) \in RoleGates /\ Staff(r) \in RoleGates
  BY DEF AtLeast, Staff, RoleGates
<1>3. {Climber, Setter, HeadSetter, GymManager, OrgAdmin} \subseteq Roles /\ Climber = 1
  BY DEF Roles, Climber, Setter, HeadSetter, GymManager, OrgAdmin
<1>4. Member \in RoleGates /\ HeadSetterAt \in RoleGates
  BY <1>2, <1>3 DEF Member, HeadSetterAt, RoleGates
<1> DEFINE all == Seq(RoleGates)
<1>5. /\ <<>> \in all /\ <<Member>> \in all /\ <<HeadSetterAt>> \in all
      /\ \A r \in Roles : <<Staff(r)>> \in all
      /\ \A r \in Roles : <<Member, AtLeast(r)>> \in all
      /\ \A r, s \in Roles : <<Member, AtLeast(r), AtLeast(s)>> \in all
  BY <1>2, <1>4
<1> HIDE DEF all
<1>6. /\ <<Member, AtLeast(OrgAdmin)>> \in all /\ <<Member, AtLeast(GymManager)>> \in all
      /\ <<Member, AtLeast(HeadSetter)>> \in all /\ <<Member, AtLeast(Setter)>> \in all
      /\ <<Member, AtLeast(Setter), AtLeast(HeadSetter)>> \in all
      /\ <<Staff(HeadSetter)>> \in all /\ <<Staff(GymManager)>> \in all
  BY <1>3, <1>5
<1>7. \A g \in Mine \cup Social : g.gates \in all
  BY <1>1, <1>5, SMT DEF Mine, Social
<1>8. \A g \in Orgs : g.gates \in all
  BY <1>1, <1>5, <1>6, SMT DEF Orgs
<1>9. \A g \in Walls : g.gates \in all
  BY <1>1, <1>5, <1>6, SMT DEF Walls
<1>10. \A g \in Climbs \cup Batches : g.gates \in all
  BY <1>1, <1>5, <1>6, SMT DEF Climbs, Batches
<1>11. \A g \in Sittings : g.gates \in all
  BY <1>1, <1>5, <1>6, SMT DEF Sittings
<1>12. \A g \in Crew : g.gates \in all
  BY <1>1, <1>5, <1>6, SMT DEF Crew
<1>13. \A g \in Boards : g.gates \in all
  BY <1>1, <1>5, <1>6, SMT DEF Boards
<1>14. \A g \in Settings : g.gates \in all
  BY <1>1, <1>5, <1>6, SMT DEF Settings
<1>15. \A g \in Progressions : g.gates \in all
  BY <1>1, <1>5, <1>6, SMT DEF Progressions
<1>16. \A g \in Comps : g.gates \in all
  BY <1>1, <1>5, <1>6, SMT DEF Comps
<1>17. \A g \in ApiGroups : g.gates \in all
  BY <1>7, <1>8, <1>9, <1>10, <1>11, <1>12, <1>13, <1>14, <1>15, <1>16, Zenon DEF ApiGroups
<1>18. QED
  BY <1>17, Zenon DEF ApiGates, all

LEMMA GatesOfThePages == \A gates \in WebGates : gates \in Seq(PageGates)
<1>1. \A gs, ops : Behind(gs, ops).gates = gs
  BY DEF Behind
<1> DEFINE all == {<<>>, <<[gate |-> "setter", least |-> Setter]>>,
                   <<[gate |-> "admin", least |-> 0]>>}
<1>2. all \subseteq Seq(PageGates)
  BY DEF PageGates
<1>3. \A g \in WebGroups : g.gates \in all
  BY <1>1, Zenon DEF WebGroups
<1>4. QED
  BY <1>2, <1>3, Zenon DEF WebGates

LEMMA AccessStart == AccessInit => AccessInv
<1> SUFFICES ASSUME AccessInit
             PROVE  AccessInv
  OBVIOUS
<1>1. /\ 0 \in Grants /\ Grants \subseteq 0 .. OrgAdmin
      /\ MaxRoleChanges \in Nat /\ MaxLookupFaults \in Nat
  BY AccessAssumption
<1>2. role \in [Places -> Grants]
  BY <1>1 DEF AccessInit
<1>3. call \in Calls /\ call.answer = "none" /\ call.pc = "idle" /\ call.gates = <<>>
      /\ {call.low, call.best, call.seen} \subseteq 0 .. OrgAdmin /\ call.web = FALSE
  BY DEF AccessInit, NoCall, Calls, Ranks, OrgAdmin
<1>4. /\ spent \in [changes : Nat, faults : Nat]
      /\ spent.changes <= MaxRoleChanges /\ spent.faults <= MaxLookupFaults
  BY <1>1 DEF AccessInit
<1>5. {signed, jwt, admin} \subseteq BOOLEAN /\ viewAs \in 0 .. GymManager
  BY DEF AccessInit, GymManager
<1>6. AccessTypeOK
  BY <1>2, <1>3, <1>4, <1>5 DEF AccessTypeOK
<1>7. RemembersTruly /\ GatesAreAhead
  BY <1>3 DEF RemembersTruly, GatesAreAhead, Underway
<1>8. SignedOutIsTrue /\ AnswersAreEarned
  BY <1>3 DEF SignedOutIsTrue, AnswersAreEarned
<1>9. QED
  BY <1>3, <1>4, <1>6, <1>7, <1>8 DEF AccessInv

\* An answer leaves what the request remembers.
LEMMA Answered ==
    ASSUME AccessInv, NEW code, Answer(code),
           code \in {"served", "401", "403", "404", "503", "login", "away"}
    PROVE  /\ call' \in Calls /\ call'.pc = "answered" /\ call'.answer = code
           /\ call'.cookie = call.cookie /\ call'.gates = call.gates
           /\ call'.web = call.web /\ call'.out = call.out /\ call'.in = call.in
           /\ call'.low = call.low /\ call'.best = call.best
           /\ call'.least = call.least /\ call'.seen = call.seen
<1>1. call \in Calls
  BY DEF AccessInv
<1>2. PICK c : c = [call EXCEPT !.pc = "answered"]
  OBVIOUS
<1>3. /\ c \in Calls /\ c.pc = "answered" /\ c.cookie = call.cookie
      /\ c.gates = call.gates /\ c.web = call.web /\ c.out = call.out /\ c.in = call.in
      /\ c.low = call.low /\ c.best = call.best /\ c.least = call.least
      /\ c.seen = call.seen
  BY <1>1, <1>2 DEF Calls
<1>4. call' = [c EXCEPT !.answer = code]
  BY <1>2 DEF Answer
<1>5. QED
  BY <1>3, <1>4 DEF Calls

\* What a step of a request has to show.
LEMMA AnsweredWell ==
    ASSUME AccessInv, NEW code, Answer(code),
           code \in {"served", "401", "403", "404", "503", "login", "away"},
           UNCHANGED <<signed, jwt, role, viewAs, admin>>,
           spent' \in [changes : Nat, faults : Nat],
           spent'.changes <= MaxRoleChanges, spent'.faults <= MaxLookupFaults,
           code = "401" /\ call.cookie => call.out,
           code = "served" => call.in /\ call.best >= call.least,
           code = "403" /\ spent'.faults = 0 => call.low < call.least
    PROVE  AccessInv'
<1>1. /\ call' \in Calls /\ call'.pc = "answered" /\ call'.answer = code
      /\ call'.cookie = call.cookie /\ call'.gates = call.gates
      /\ call'.web = call.web /\ call'.out = call.out /\ call'.in = call.in
      /\ call'.low = call.low /\ call'.best = call.best
      /\ call'.least = call.least /\ call'.seen = call.seen
  BY Answered
<1>2. AccessTypeOK'
  BY <1>1 DEF AccessInv, AccessTypeOK
<1>3. RemembersTruly' /\ GatesAreAhead'
  BY <1>1 DEF AccessInv, RemembersTruly, GatesAreAhead, Underway
<1>4. SignedOutIsTrue' /\ AnswersAreEarned'
  BY <1>1 DEF SignedOutIsTrue, AnswersAreEarned
<1>5. QED
  BY <1>1, <1>2, <1>3, <1>4 DEF AccessInv

\* A failed lookup is counted.
LEMMA FailsIsCounted ==
    ASSUME AccessInv, Fails
    PROVE  /\ spent' \in [changes : Nat, faults : Nat]
           /\ spent'.changes <= MaxRoleChanges /\ spent'.faults <= MaxLookupFaults
           /\ spent'.faults # 0
           /\ UNCHANGED <<signed, jwt, role, viewAs, admin>>
<1>1. /\ spent \in [changes : Nat, faults : Nat] /\ spent.changes <= MaxRoleChanges
      /\ MaxLookupFaults \in Nat
  BY AccessAssumption DEF AccessInv, AccessTypeOK
<1>2. QED
  BY <1>1 DEF Fails

\* Any rank the user holds now is between the lowest and the highest remembered.
LEMMA RanksAreRemembered ==
    ASSUME AccessInv, Underway
    PROVE  /\ RoleIn(role) \in Ranks
           /\ call.low <= RoleIn(role) /\ RoleIn(role) <= call.best
           /\ call.low \in Ranks /\ call.best \in Ranks /\ call.least \in Ranks
           /\ call.seen \in Ranks
<1>1. role \in [Places -> Grants] /\ call \in Calls
  BY DEF AccessInv, AccessTypeOK
<1>2. RoleIn(role) \in Ranks
  BY <1>1, RoleIsARank
<1>3. QED
  BY <1>1, <1>2 DEF AccessInv, RemembersTruly, Calls

\* A gate that lets the request pass leaves the ones behind it.
LEMMA GatePassed ==
    ASSUME AccessInv, call.pc = "gates", call.gates # <<>>, NextGate, CallSteps,
           Head(call.gates).least <= call.best
    PROVE  AccessInv'
<1> DEFINE S == IF call.web THEN PageGates ELSE RoleGates
           gates == call.gates
<1>1. call \in Calls /\ Underway /\ gates \in Seq(S)
  BY DEF AccessInv, GatesAreAhead, Underway
<1>2. /\ Tail(gates) \in Seq(S) /\ Len(Tail(gates)) = Len(gates) - 1
      /\ \A i \in 1 .. Len(Tail(gates)) : Tail(gates)[i] = gates[i + 1]
      /\ Head(gates) = gates[1] /\ Len(gates) \in Nat
  <2> HIDE DEF S, gates
  <2>1. gates # <<>>
    BY DEF gates
  <2>2. /\ Tail(gates) \in Seq(S) /\ Len(Tail(gates)) = Len(gates) - 1
        /\ \A i \in 1 .. Len(Tail(gates)) : Tail(gates)[i] = gates[i + 1]
    BY <1>1, <2>1, HeadTailProperties
  <2>3. Head(gates) = gates[1] /\ Len(gates) \in Nat
    BY <1>1
  <2>4. QED
    BY <2>2, <2>3
<1>3. S \subseteq RoleGates \cup PageGates
  OBVIOUS
<1>4. \A i \in DOMAIN gates : gates[i].least \in Ranks
  <2>1. \A i \in DOMAIN gates : gates[i] \in RoleGates \cup PageGates
    BY <1>1, <1>3
  <2>2. \A g \in RoleGates \cup PageGates : g.least \in Ranks
    BY DEF RoleGates, PageGates, Ranks, Roles, Climber, Setter, OrgAdmin
  <2>3. QED
    BY <2>1, <2>2
<1>5. /\ \A i \in DOMAIN gates : gates[i].least <= call.least
      /\ HighestIsAhead
  BY <1>1 DEF AccessInv, GatesAreAhead
<1> HIDE DEF gates
<1>6. Tail(gates) \in Seq(RoleGates \cup PageGates)
  BY <1>2, <1>3
<1>7. /\ call' \in Calls /\ call'.gates = Tail(gates) /\ call'.pc = "gates"
      /\ call'.answer = call.answer /\ call'.cookie = call.cookie
      /\ call'.web = call.web /\ call'.out = call.out /\ call'.in = call.in
      /\ call'.low = call.low /\ call'.best = call.best
      /\ call'.least = call.least /\ call'.seen = call.seen
  <2>1. call' = [call EXCEPT !.gates = Tail(gates)]
    BY DEF NextGate, gates
  <2>2. QED
    BY <1>1, <1>6, <2>1 DEF Calls
<1>8. \A i \in DOMAIN Tail(gates) : i + 1 \in DOMAIN gates /\ Tail(gates)[i] = gates[i + 1]
  BY <1>1, <1>2
<1>9. call.least \in Ranks /\ call.best \in Ranks
  BY <1>1 DEF Calls
<1>10. HighestIsAhead'
  <2>1. CASE call.least <= call.best
    BY <1>7, <2>1 DEF HighestIsAhead
  <2>2. CASE ~(call.least <= call.best)
    <3>1. PICK i \in DOMAIN gates : call.least <= gates[i].least
      BY <1>5, <2>2 DEF HighestIsAhead, gates
    <3>2. CASE i = 1
      <4>1. gates[1].least <= call.best /\ gates[1].least \in Ranks
        BY <1>2, <1>4, <3>1, <3>2 DEF gates
      <4>2. QED
        BY <1>9, <2>2, <3>1, <3>2, <4>1 DEF Ranks, OrgAdmin
    <3>3. CASE i # 1
      <4>1. i - 1 \in 1 .. Len(Tail(gates)) /\ (i - 1) + 1 = i
        BY <1>1, <1>2, <3>1, <3>3
      <4>2. Tail(gates)[i - 1] = gates[i] /\ i - 1 \in DOMAIN Tail(gates)
        BY <1>2, <4>1
      <4>3. QED
        BY <1>7, <3>1, <4>2 DEF HighestIsAhead
    <3>4. QED
      BY <3>2, <3>3
  <2>3. QED
    BY <2>1, <2>2
<1>11. GatesAreAhead'
  <2>1. call'.gates \in IF call'.web THEN Seq(PageGates) ELSE Seq(RoleGates)
    BY <1>2, <1>7
  <2>2. \A i \in DOMAIN call'.gates : call'.gates[i].least <= call'.least
    BY <1>5, <1>7, <1>8
  <2>3. call'.in /\ (call'.web => call'.seen <= call'.best \/ call'.seen <= 1)
    BY <1>7 DEF AccessInv, GatesAreAhead
  <2>4. QED
    BY <1>10, <2>1, <2>2, <2>3 DEF GatesAreAhead
<1>12. AccessTypeOK'
  BY <1>7 DEF CallSteps, AccessInv, AccessTypeOK
<1>13. RemembersTruly'
  BY <1>1, <1>7 DEF CallSteps, AccessInv, RemembersTruly, Underway
<1>14. call'.answer = "none"
  BY <1>7 DEF AccessInv
<1>15. SignedOutIsTrue' /\ AnswersAreEarned'
  BY <1>14 DEF SignedOutIsTrue, AnswersAreEarned
<1>16. QED
  BY <1>7, <1>11, <1>12, <1>13, <1>14, <1>15 DEF AccessInv, CallSteps

LEMMA AskKeeps ==
    ASSUME AccessInv, Ask
    PROVE  AccessInv'
<1>1. PICK web \in BOOLEAN, cookie \in BOOLEAN, bearer \in BOOLEAN :
        \E gates \in IF web THEN WebGates ELSE ApiGates :
          call' = Call(web, cookie, bearer, gates)
  BY DEF Ask
<1>21. PICK gates \in IF web THEN WebGates ELSE ApiGates :
          call' = Call(web, cookie, bearer, gates)
  BY <1>1
<1> DEFINE T == IF web THEN PageGates ELSE RoleGates
           S == {g.least : g \in Range(gates)} \cup {0}
<1>2. UNCHANGED <<signed, jwt, role, viewAs, admin, spent>>
  BY DEF Ask
<1>3. gates \in Seq(T)
  BY GatesOfTheApi, GatesOfThePages
<1>4. T \subseteq RoleGates \cup PageGates
  OBVIOUS
<1>5. \A g \in RoleGates \cup PageGates : g.least \in 0 .. 5
  BY DEF RoleGates, PageGates, Roles, Climber, Setter, OrgAdmin
<1>6. \A i \in DOMAIN gates : gates[i].least \in S
  BY DEF Range
<1>7. S \in SUBSET (0 .. 5) /\ S # {}
  <2>1. \A g \in Range(gates) : g \in T
    BY <1>3 DEF Range
  <2>2. QED
    BY <1>4, <1>5, <2>1
<1>8. Max(S) \in S /\ \A r \in S : r <= Max(S)
  BY <1>7, HighestRank
<1>9. gates \in Seq(RoleGates \cup PageGates)
  BY <1>3, <1>4
<1>10. RoleIn(role) \in Ranks
  BY RoleIsARank DEF AccessInv, AccessTypeOK
<1>11. /\ call'.pc = "auth" /\ call'.gates = gates /\ call'.web = web
       /\ call'.seen = 0 /\ call'.answer = "none" /\ call'.least = Max(S)
       /\ call'.out = ~signed /\ call'.in = (signed \/ jwt)
       /\ call'.low = RoleIn(role) /\ call'.best = RoleIn(role)
  BY <1>21 DEF Call
<1>12. signed \in BOOLEAN /\ jwt \in BOOLEAN
  BY DEF AccessInv, AccessTypeOK
<1>13. Max(S) \in Ranks
  BY <1>7, <1>8 DEF Ranks, OrgAdmin
<1>14. call' \in Calls
  BY <1>21, <1>9, <1>10, <1>12, <1>13 DEF Call, Calls, Ranks, OrgAdmin
<1> HIDE DEF T, S
<1>15. AccessTypeOK'
  <2>1. call'.answer = "none" /\ {call'.low, call'.best, call'.seen} \subseteq 0 .. OrgAdmin
    BY <1>10, <1>11 DEF Ranks, OrgAdmin
  <2>2. QED
    BY <1>2, <2>1 DEF AccessInv, AccessTypeOK
<1>16. RemembersTruly'
  <2>1. RoleIn(role)' = RoleIn(role)
    BY <1>2
  <2>2. call'.low <= RoleIn(role) /\ RoleIn(role) <= call'.best
    BY <1>10, <1>11 DEF Ranks, OrgAdmin
  <2>3. (~signed => call'.out) /\ (signed \/ jwt => call'.in)
    BY <1>11, <1>12
  <2>4. QED
    BY <1>2, <1>11, <2>1, <2>2, <2>3 DEF RemembersTruly
<1>17. HighestIsAhead'
  <2>1. Max(S) = 0 \/ \E g \in Range(gates) : Max(S) = g.least
    BY <1>8 DEF S
  <2>2. CASE Max(S) = 0
    BY <1>10, <1>11, <2>2 DEF HighestIsAhead, Ranks, OrgAdmin
  <2>3. CASE \E g \in Range(gates) : Max(S) = g.least
    <3>1. PICK i \in DOMAIN gates : Max(S) = gates[i].least
      BY <2>3 DEF Range
    <3>2. Max(S) <= gates[i].least
      BY <1>13, <3>1 DEF Ranks, OrgAdmin
    <3>3. QED
      BY <1>11, <3>2 DEF HighestIsAhead
  <2>4. QED
    BY <2>1, <2>2, <2>3
<1>18. GatesAreAhead'
  <2>1. \A i \in DOMAIN gates : gates[i].least <= Max(S)
    BY <1>6, <1>8
  <2>2. call'.gates \in IF call'.web THEN Seq(PageGates) ELSE Seq(RoleGates)
    BY <1>3, <1>11 DEF T
  <2>3. QED
    BY <1>11, <1>17, <2>1, <2>2 DEF GatesAreAhead
<1>19. SignedOutIsTrue' /\ AnswersAreEarned'
  BY <1>11 DEF SignedOutIsTrue, AnswersAreEarned
<1>20. QED
  BY <1>2, <1>11, <1>14, <1>15, <1>16, <1>18, <1>19 DEF AccessInv

\* A request that is let in, and the rank a page is shown, if any.
LEMMA LetIn ==
    ASSUME AccessInv, call.pc = "auth", signed \/ jwt, CallSteps,
           NEW seen0 \in Ranks, call' = [call EXCEPT !.pc = "gates", !.seen = seen0],
           call.web => seen0 <= RoleIn(role) \/ seen0 <= 1
    PROVE  AccessInv'
<1>1. call \in Calls /\ Underway
  BY DEF AccessInv, Underway
<1>2. PICK c : c = [call EXCEPT !.pc = "gates"]
  OBVIOUS
<1>3. /\ c \in Calls /\ c.pc = "gates" /\ c.cookie = call.cookie
      /\ c.gates = call.gates /\ c.web = call.web /\ c.out = call.out /\ c.in = call.in
      /\ c.low = call.low /\ c.best = call.best /\ c.least = call.least
      /\ c.answer = call.answer
  BY <1>1, <1>2 DEF Calls
<1>4. call' = [c EXCEPT !.seen = seen0]
  BY <1>2
<1>5. /\ call' \in Calls /\ call'.pc = "gates" /\ call'.gates = call.gates
      /\ call'.web = call.web /\ call'.out = call.out /\ call'.in = call.in
      /\ call'.low = call.low /\ call'.best = call.best /\ call'.least = call.least
      /\ call'.answer = call.answer /\ call'.seen = seen0
  BY <1>3, <1>4 DEF Calls
<1>6. call.answer = "none" /\ call.in
  BY <1>1 DEF AccessInv, RemembersTruly, Underway
<1>7. AccessTypeOK'
  BY <1>5 DEF AccessInv, AccessTypeOK, CallSteps, Ranks
<1>8. RemembersTruly'
  BY <1>1, <1>5 DEF AccessInv, RemembersTruly, CallSteps, Underway
<1>9. GatesAreAhead'
  <2>1. HighestIsAhead'
    BY <1>1, <1>5 DEF AccessInv, GatesAreAhead, HighestIsAhead
  <2>2. call.web => seen0 <= call.best \/ seen0 <= 1
    BY <1>1, RanksAreRemembered DEF Ranks, OrgAdmin
  <2>3. QED
    BY <1>1, <1>5, <1>6, <2>1, <2>2 DEF AccessInv, GatesAreAhead
<1>10. SignedOutIsTrue' /\ AnswersAreEarned'
  BY <1>5, <1>6 DEF SignedOutIsTrue, AnswersAreEarned
<1>11. QED
  BY <1>5, <1>6, <1>7, <1>8, <1>9, <1>10 DEF AccessInv, CallSteps

LEMMA WayInKeeps ==
    ASSUME AccessInv,
           LookupFails \/ Authenticate \/ RequireSession \/ SessionLookupFails
    PROVE  AccessInv'
<1> USE DEF CallSteps
<1>1. /\ spent \in [changes : Nat, faults : Nat]
      /\ spent.changes <= MaxRoleChanges /\ spent.faults <= MaxLookupFaults
      /\ call \in Calls /\ {signed, jwt} \subseteq BOOLEAN
      /\ role \in [Places -> Grants] /\ viewAs \in 0 .. GymManager
  BY DEF AccessInv, AccessTypeOK
<1>2. CASE LookupFails \/ SessionLookupFails
  <2>1. Fails /\ \E code \in {"503", "login"} : Answer(code)
    BY <1>2 DEF LookupFails, SessionLookupFails
  <2>2. PICK code \in {"503", "login"} : Answer(code)
    BY <2>1
  <2>3. QED
    BY <2>1, <2>2, FailsIsCounted, AnsweredWell
<1>3. CASE Authenticate
  <2>1. call.pc = "auth" /\ ~call.web /\ CallSteps
    BY <1>3 DEF Authenticate
  <2>2. CASE (call.cookie /\ signed) \/ (call.bearer /\ jwt)
    <3>1. call' = [call EXCEPT !.pc = "gates"]
      BY <1>3, <2>2 DEF Authenticate, Pass
    <3>2. call.seen \in Ranks /\ [call EXCEPT !.pc = "gates"] =
             [call EXCEPT !.pc = "gates", !.seen = call.seen]
      BY <1>1 DEF Calls
    <3>3. QED
      BY <2>1, <2>2, <3>1, <3>2, LetIn
  <2>3. CASE ~((call.cookie /\ signed) \/ (call.bearer /\ jwt))
    <3>1. Answer("401")
      BY <1>3, <2>3 DEF Authenticate
    <3>2. call.cookie => call.out
      BY <2>1, <2>3 DEF AccessInv, RemembersTruly, Underway
    <3>3. QED
      BY <1>1, <2>1, <3>1, <3>2, AnsweredWell
  <2>4. QED
    BY <2>2, <2>3
<1>4. CASE RequireSession
  <2>1. call.pc = "auth" /\ call.web /\ CallSteps
    BY <1>4 DEF RequireSession
  <2>2. CASE call.cookie /\ signed
    <3>1. call' = [call EXCEPT !.pc = "gates", !.seen = Viewed(BestRole(role))]
      BY <1>4, <2>2 DEF RequireSession
    <3>2. /\ RoleIn(role) \in Ranks /\ BestRole(role) \in Ranks
          /\ BestRole(role) <= RoleIn(role) \/ BestRole(role) <= 1
      BY <1>1, RoleIsARank
    <3>3. Viewed(BestRole(role)) \in Ranks /\ Viewed(BestRole(role)) <= BestRole(role)
      BY <1>1, <3>2 DEF Viewed, Ranks, OrgAdmin, GymManager
    <3>4. Viewed(BestRole(role)) <= RoleIn(role) \/ Viewed(BestRole(role)) <= 1
      BY <3>2, <3>3 DEF Ranks, OrgAdmin
    <3>5. QED
      BY <2>1, <2>2, <3>1, <3>3, <3>4, LetIn
  <2>3. CASE ~(call.cookie /\ signed)
    <3>1. Answer("login")
      BY <1>4, <2>3 DEF RequireSession
    <3>2. QED
      BY <1>1, <2>1, <3>1, AnsweredWell
  <2>4. QED
    BY <2>2, <2>3
<1>5. QED
  BY <1>2, <1>3, <1>4

LEMMA GatesKeep ==
    ASSUME AccessInv, RoleGate \/ RoleLookupFails \/ PageGate \/ ServeCall
    PROVE  AccessInv'
<1> DEFINE g == Head(call.gates)
<1>1. /\ spent \in [changes : Nat, faults : Nat]
      /\ spent.changes <= MaxRoleChanges /\ spent.faults <= MaxLookupFaults
  BY DEF AccessInv, AccessTypeOK
<1>2. call.pc = "gates" /\ Underway
  BY DEF RoleGate, RoleLookupFails, PageGate, ServeCall, Underway
<1>3. /\ RoleIn(role) \in Ranks /\ call.low <= RoleIn(role) /\ RoleIn(role) <= call.best
      /\ call.low \in Ranks /\ call.best \in Ranks /\ call.least \in Ranks
      /\ call.seen \in Ranks
  BY <1>2, RanksAreRemembered
<1>4. ASSUME call.gates # <<>>
      PROVE  /\ g \in IF call.web THEN PageGates ELSE RoleGates
             /\ g.least <= call.least
  <2>1. call.gates \in IF call.web THEN Seq(PageGates) ELSE Seq(RoleGates)
    BY DEF AccessInv, GatesAreAhead
  <2>2. 1 \in DOMAIN call.gates /\ g = call.gates[1]
    BY <1>4, <2>1
  <2>3. QED
    BY <1>2, <2>1, <2>2 DEF AccessInv, GatesAreAhead
<1> HIDE DEF g
<1>5. CASE RoleGate
  <2>1. call.gates # <<>> /\ ~call.web /\ CallSteps
    BY <1>5 DEF RoleGate
  <2>2. g.least \in 1 .. 5 /\ g.least <= call.least
    BY <1>4, <2>1 DEF RoleGates, Roles, Climber, OrgAdmin
  <2>3. CASE RoleIn(role) = 0
    <3>1. PICK code \in {"403", "404"} : Answer(code)
      BY <1>5, <2>3 DEF RoleGate, NoMembership
    <3>2. call.low < call.least
      BY <1>3, <2>2, <2>3 DEF Ranks, OrgAdmin
    <3>3. QED
      BY <1>1, <2>1, <3>1, <3>2, AnsweredWell DEF CallSteps
  <2>4. CASE RoleIn(role) # 0 /\ Suffices(RoleIn(role), g)
    <3>1. NextGate
      BY <1>5, <2>4 DEF RoleGate, g
    <3>2. Head(call.gates).least <= call.best
      BY <1>3, <2>2, <2>4 DEF Suffices, Ranks, OrgAdmin, g
    <3>3. QED
      BY <1>2, <2>1, <3>1, <3>2, GatePassed
  <2>5. CASE RoleIn(role) # 0 /\ ~Suffices(RoleIn(role), g)
    <3>1. Answer("403")
      BY <1>5, <2>5 DEF RoleGate, g
    <3>2. call.low < call.least
      BY <1>3, <2>2, <2>5 DEF Suffices, Ranks, OrgAdmin
    <3>3. QED
      BY <1>1, <2>1, <3>1, <3>2, AnsweredWell DEF CallSteps
  <2>6. QED
    BY <2>3, <2>4, <2>5
<1>6. CASE RoleLookupFails
  <2>1. Fails /\ \E code \in {"403", "404"} : Answer(code)
    BY <1>6 DEF RoleLookupFails, NoMembership
  <2>2. PICK code \in {"403", "404"} : Answer(code)
    BY <2>1
  <2>3. QED
    BY <2>1, <2>2, FailsIsCounted, AnsweredWell
<1>7. CASE PageGate
  <2>1. call.gates # <<>> /\ call.web /\ CallSteps
    BY <1>7 DEF PageGate
  <2>2. g \in PageGates /\ g.least <= call.least
    BY <1>4, <2>1
  <2>3. CASE (g.gate = "setter" /\ Suffices(call.seen, g)) \/ (g.gate = "admin" /\ admin)
    <3>1. NextGate
      BY <1>7, <2>3 DEF PageGate, g
    <3>2. call.seen <= call.best \/ call.seen <= 1
      BY <1>2, <2>1 DEF AccessInv, GatesAreAhead
    <3>3. g.least <= call.best
      <4>1. CASE g = [gate |-> "setter", least |-> Setter]
        BY <1>3, <2>3, <3>2, <4>1 DEF Suffices, Ranks, OrgAdmin, Setter
      <4>2. CASE g = [gate |-> "admin", least |-> 0]
        BY <1>3, <4>2 DEF Ranks, OrgAdmin
      <4>3. QED
        BY <2>2, <4>1, <4>2 DEF PageGates
    <3>4. QED
      BY <1>2, <2>1, <3>1, <3>3, GatePassed DEF g
  <2>4. CASE ~((g.gate = "setter" /\ Suffices(call.seen, g)) \/ (g.gate = "admin" /\ admin))
    <3>1. Answer("away")
      BY <1>7, <2>4 DEF PageGate, g
    <3>2. QED
      BY <1>1, <2>1, <3>1, AnsweredWell DEF CallSteps
  <2>5. QED
    BY <2>3, <2>4
<1>8. CASE ServeCall
  <2>1. call.gates = <<>> /\ Answer("served") /\ CallSteps
    BY <1>8 DEF ServeCall
  <2>2. call.in
    BY <1>2 DEF AccessInv, GatesAreAhead
  <2>3. call.least <= call.best
    BY <1>2, <2>1 DEF AccessInv, GatesAreAhead, HighestIsAhead
  <2>4. call.best >= call.least
    BY <1>3, <2>3 DEF Ranks, OrgAdmin
  <2>5. QED
    BY <1>1, <2>1, <2>2, <2>4, AnsweredWell DEF CallSteps
<1>9. QED
  BY <1>5, <1>6, <1>7, <1>8

LEMMA GoOnKeeps ==
    ASSUME AccessInv, GoOn
    PROVE  AccessInv'
<1>1. call' = NoCall /\ CallSteps
  BY DEF GoOn
<1>2. call' \in Calls /\ call'.answer = "none" /\ call'.pc = "idle" /\ call'.gates = <<>>
      /\ {call'.low, call'.best, call'.seen} \subseteq 0 .. OrgAdmin /\ call'.web = FALSE
  BY <1>1 DEF NoCall, Calls, Ranks, OrgAdmin
<1>3. AccessTypeOK'
  BY <1>1, <1>2 DEF CallSteps, AccessInv, AccessTypeOK
<1>4. RemembersTruly' /\ GatesAreAhead'
  BY <1>2 DEF RemembersTruly, GatesAreAhead, Underway
<1>5. SignedOutIsTrue' /\ AnswersAreEarned'
  BY <1>2 DEF SignedOutIsTrue, AnswersAreEarned
<1>6. QED
  BY <1>1, <1>2, <1>3, <1>4, <1>5 DEF AccessInv, CallSteps

\* Whatever changes while a request runs, the request remembers.
LEMMA MeanwhileKeeps ==
    ASSUME AccessInv, Changed, NEW s \in BOOLEAN, NEW t \in BOOLEAN,
           NEW r \in [Places -> Grants], Meanwhile(s, t, r), UNCHANGED <<viewAs, admin>>
    PROVE  AccessInv'
<1>1. call \in Calls /\ RoleIn(r) \in Ranks
  BY RoleIsARank DEF AccessInv
<1>2. /\ spent' \in [changes : Nat, faults : Nat] /\ spent'.faults = spent.faults
      /\ spent'.changes <= MaxRoleChanges
  <2>1. spent \in [changes : Nat, faults : Nat] /\ MaxRoleChanges \in Nat
    BY AccessAssumption DEF AccessInv
  <2>2. QED
    BY <2>1 DEF Changed
<1>3. signed' = s /\ jwt' = t /\ role' = r
  BY DEF Meanwhile
<1>4. CASE Underway
  <2>1. call.answer = "none"
    BY <1>4 DEF AccessInv, Underway
  <2>2. call' = [call EXCEPT !.out = @ \/ ~s, !.in = @ \/ s \/ t,
                             !.low = Lowest(@, RoleIn(r)), !.best = Highest(@, RoleIn(r))]
    BY <1>4 DEF Meanwhile
  <2>3. /\ call.low \in Ranks /\ call.best \in Ranks
        /\ Lowest(call.low, RoleIn(r)) = IF call.low <= RoleIn(r) THEN call.low ELSE RoleIn(r)
        /\ Highest(call.best, RoleIn(r)) = IF call.best <= RoleIn(r) THEN RoleIn(r)
                                           ELSE call.best
    BY <1>1, LowerOfTwo, HigherOfTwo DEF Calls, Ranks, OrgAdmin
  <2>4. Lowest(call.low, RoleIn(r)) \in Ranks /\ Highest(call.best, RoleIn(r)) \in Ranks
    BY <1>1, <2>3
  <2>5. PICK c : c = [call EXCEPT !.out = call.out \/ ~s, !.in = call.in \/ s \/ t]
    OBVIOUS
  <2>6. /\ c \in Calls /\ c.pc = call.pc /\ c.gates = call.gates /\ c.web = call.web
        /\ c.cookie = call.cookie /\ c.seen = call.seen /\ c.answer = call.answer
        /\ c.least = call.least /\ c.low = call.low /\ c.best = call.best
        /\ c.out = (call.out \/ ~s) /\ c.in = (call.in \/ s \/ t)
    BY <1>1, <2>5 DEF Calls
  <2>7. call' = [c EXCEPT !.low = Lowest(call.low, RoleIn(r)),
                          !.best = Highest(call.best, RoleIn(r))]
    BY <1>1, <2>2, <2>5 DEF Calls
  <2>8. /\ call' \in Calls /\ call'.pc = call.pc /\ call'.gates = call.gates
        /\ call'.web = call.web /\ call'.seen = call.seen /\ call'.answer = call.answer
        /\ call'.least = call.least /\ call'.low = Lowest(call.low, RoleIn(r))
        /\ call'.best = Highest(call.best, RoleIn(r))
        /\ call'.out = (call.out \/ ~s) /\ call'.in = (call.in \/ s \/ t)
    BY <2>4, <2>6, <2>7 DEF Calls
  <2>9. AccessTypeOK'
    <3>1. {call'.low, call'.best, call'.seen} \subseteq 0 .. OrgAdmin
      BY <2>8 DEF Calls, Ranks
    <3>2. {signed', jwt'} \subseteq BOOLEAN /\ role' \in [Places -> Grants]
      BY <1>3
    <3>3. QED
      BY <1>2, <2>8, <3>1, <3>2 DEF AccessInv, AccessTypeOK
  <2>10. RemembersTruly'
    <3>1. call'.low <= RoleIn(r) /\ RoleIn(r) <= call'.best
      BY <1>1, <2>3, <2>8 DEF Ranks, OrgAdmin
    <3>2. RoleIn(role)' = RoleIn(r)
      BY <1>3
    <3>3. (~signed => call.out) /\ (signed \/ jwt => call.in)
      BY <1>4 DEF AccessInv, RemembersTruly
    <3>4. (~signed' => call'.out) /\ (signed' \/ jwt' => call'.in)
      BY <1>3, <2>8
    <3>5. QED
      BY <3>1, <3>2, <3>4 DEF RemembersTruly
  <2>11. call.best <= call'.best /\ call'.best \in Ranks /\ call.least \in Ranks
    BY <1>1, <2>3, <2>4, <2>8 DEF Ranks, OrgAdmin, Calls
  <2>12. HighestIsAhead'
    BY <1>4, <2>3, <2>8, <2>11 DEF AccessInv, GatesAreAhead, HighestIsAhead, Ranks, OrgAdmin
  <2>13. GatesAreAhead'
    <3>1. call.pc = "gates" /\ call.web => call'.seen <= call'.best \/ call'.seen <= 1
      <4>1. call.seen \in Ranks
        BY <1>1 DEF Calls
      <4>2. QED
        BY <2>3, <2>8, <2>11, <4>1 DEF AccessInv, GatesAreAhead, Ranks, OrgAdmin
    <3>2. QED
      BY <1>4, <2>8, <2>12, <3>1 DEF AccessInv, GatesAreAhead
  <2>14. SignedOutIsTrue' /\ AnswersAreEarned'
    BY <2>1, <2>8 DEF SignedOutIsTrue, AnswersAreEarned
  <2>15. QED
    BY <1>2, <2>1, <2>8, <2>9, <2>10, <2>13, <2>14 DEF AccessInv
<1>5. CASE ~Underway
  <2>1. call' = call
    BY <1>5 DEF Meanwhile
  <2>2. AccessTypeOK'
    <3>1. {signed', jwt'} \subseteq BOOLEAN /\ role' \in [Places -> Grants]
      BY <1>3
    <3>2. QED
      BY <1>2, <2>1, <3>1 DEF AccessInv, AccessTypeOK
  <2>3. RemembersTruly' /\ GatesAreAhead'
    BY <1>5, <2>1 DEF AccessInv, RemembersTruly, GatesAreAhead, Underway, HighestIsAhead
  <2>4. SignedOutIsTrue' /\ AnswersAreEarned'
    BY <1>2, <2>1 DEF AccessInv, SignedOutIsTrue, AnswersAreEarned
  <2>5. QED
    BY <1>2, <2>1, <2>2, <2>3, <2>4 DEF AccessInv
<1>6. QED
  BY <1>4, <1>5

LEMMA AccessKeepsInv ==
    ASSUME AccessInv, [AccessNext]_access
    PROVE  AccessInv'
<1>1. /\ signed \in BOOLEAN /\ jwt \in BOOLEAN /\ role \in [Places -> Grants]
  BY DEF AccessInv, AccessTypeOK
<1>2. CASE SignInOrOut
  BY <1>1, <1>2, MeanwhileKeeps DEF SignInOrOut
<1>3. CASE TokenTurns
  BY <1>1, <1>3, MeanwhileKeeps DEF TokenTurns
<1>4. CASE RoleChanges
  <2>1. PICK p \in Places, rank \in Grants :
           /\ Changed /\ Meanwhile(signed, jwt, [role EXCEPT ![p] = rank])
           /\ UNCHANGED <<viewAs, admin>>
    BY <1>4 DEF RoleChanges
  <2>2. [role EXCEPT ![p] = rank] \in [Places -> Grants]
    BY <1>1
  <2>3. QED
    BY <1>1, <2>1, <2>2, MeanwhileKeeps
<1>5. CASE SetViewAs
  <2>1. Changed /\ viewAs' \in 0 .. GymManager /\ UNCHANGED <<signed, jwt, role, admin, call>>
    BY <1>5 DEF SetViewAs
  <2>2. /\ spent' \in [changes : Nat, faults : Nat] /\ spent'.faults = spent.faults
        /\ spent'.changes <= MaxRoleChanges
    <3>1. spent \in [changes : Nat, faults : Nat] /\ MaxRoleChanges \in Nat
      BY AccessAssumption DEF AccessInv
    <3>2. QED
      BY <2>1, <3>1 DEF Changed
  <2>3. AccessTypeOK'
    BY <2>1, <2>2 DEF AccessInv, AccessTypeOK
  <2>4. RemembersTruly' /\ GatesAreAhead'
    BY <2>1 DEF AccessInv, RemembersTruly, GatesAreAhead, Underway, HighestIsAhead
  <2>5. SignedOutIsTrue' /\ AnswersAreEarned'
    BY <2>1, <2>2 DEF AccessInv, SignedOutIsTrue, AnswersAreEarned
  <2>6. QED
    BY <2>1, <2>2, <2>3, <2>4, <2>5 DEF AccessInv
<1>6. CASE UNCHANGED access
  BY <1>6 DEF access, AccessInv, AccessTypeOK, RemembersTruly, GatesAreAhead, Underway,
              HighestIsAhead, SignedOutIsTrue, AnswersAreEarned
<1>7. QED
  BY <1>2, <1>3, <1>4, <1>5, <1>6, AskKeeps, WayInKeeps, GatesKeep, GoOnKeeps DEF AccessNext

LEMMA AccessInvHolds ==
    AccessInv => AccessTypeOK /\ SignedOutIsTrue /\ AnswersAreEarned
  BY DEF AccessInv

-----------------------------------------------------------------------------
(* Limits: module LoginLockout. *)

\* How many requests are at a step.
Number(f, step) == Cardinality({g \in Guessers : f[g] = step})

Steps == {"idle", "compare", "record", "clear", "insert", "validate"}

\* A wrong password is recorded at most once, and every one still to be recorded
\* has been counted.
EveryFailureWasTried ==
    /\ attempts.failed + Number(guess, "record") <= tried
    /\ streak + Number(guess, "record") <= tried

\* While no lock has run out: a lock that was set is in force, every wrong password is
\* recorded or about to be, or its record failed, an address that is not locked is below
\* the threshold, and so what is being compared goes past it by the requests let in and
\* the failed records.
LockInForce ==
    ~lapsed =>
        /\ attempts.until = Never \/ attempts.until > now
        /\ tried <= attempts.failed + Number(guess, "record") + faults
        /\ ~IsLocked => attempts.failed <= MaxAttempts - 1
        /\ tried + Number(guess, "compare") <= MaxAttempts - 1 + Cardinality(Guessers) + faults

LockoutInv == LockoutTypeOK /\ EveryFailureWasTried /\ LockInForce

\* One request goes from one step to another.
LEMMA NumbersMove ==
    ASSUME guess \in [Guessers -> Steps], NEW g \in Guessers, NEW to \in Steps,
           guess' = [guess EXCEPT ![g] = to]
    PROVE  /\ guess' \in [Guessers -> Steps]
           /\ \A step \in Steps :
                 /\ Number(guess, step) \in Nat /\ Number(guess', step) \in Nat
                 /\ step = to /\ step # guess[g] =>
                       Number(guess', step) = Number(guess, step) + 1
                 /\ step # to /\ step = guess[g] =>
                       /\ Number(guess, step) > 0
                       /\ Number(guess', step) = Number(guess, step) - 1
                 /\ (step = to <=> step = guess[g]) =>
                       Number(guess', step) = Number(guess, step)
<1> SUFFICES ASSUME NEW step \in Steps
             PROVE  /\ guess' \in [Guessers -> Steps]
                    /\ Number(guess, step) \in Nat /\ Number(guess', step) \in Nat
                    /\ step = to /\ step # guess[g] =>
                          Number(guess', step) = Number(guess, step) + 1
                    /\ step # to /\ step = guess[g] =>
                          /\ Number(guess, step) > 0
                          /\ Number(guess', step) = Number(guess, step) - 1
                    /\ (step = to <=> step = guess[g]) =>
                          Number(guess', step) = Number(guess, step)
  OBVIOUS
<1> DEFINE F == {x \in Guessers : guess[x] = step}
           H == {x \in Guessers : guess'[x] = step}
<1>1. IsFiniteSet(F) /\ IsFiniteSet(H)
  <2>1. F \subseteq Guessers /\ H \subseteq Guessers /\ IsFiniteSet(Guessers)
    BY LockoutAssumption
  <2>2. QED
    BY <2>1, FS_Subset
<1>2. Cardinality(F) \in Nat /\ Cardinality(H) \in Nat
  BY <1>1, FS_CardinalityType
<1>3. guess' \in [Guessers -> Steps]
  OBVIOUS
<1>4. CASE step = to /\ step # guess[g]
  <2>1. H = F \cup {g} /\ g \notin F
    BY <1>4
  <2>2. Cardinality(H) = Cardinality(F) + 1
    BY <1>1, <2>1, FS_AddElement
  <2>3. QED
    BY <1>2, <1>3, <1>4, <2>2 DEF Number
<1>5. CASE step # to /\ step = guess[g]
  <2>1. H = F \ {g} /\ g \in F
    BY <1>5
  <2>2. Cardinality(H) = Cardinality(F) - 1
    BY <1>1, <2>1, FS_RemoveElement
  <2>3. QED
    BY <1>2, <1>3, <1>5, <2>2 DEF Number
<1>6. CASE step = to <=> step = guess[g]
  <2>1. H = F
    BY <1>6
  <2>2. QED
    BY <1>2, <1>3, <1>6, <2>1 DEF Number
<1>7. QED
  BY <1>4, <1>5, <1>6

\* The requests that compare and those that record are different ones.
LEMMA NumbersFit ==
    ASSUME NEW f \in [Guessers -> Steps]
    PROVE  /\ Number(f, "record") \in Nat /\ Number(f, "compare") \in Nat
           /\ Cardinality(Guessers) \in Nat
           /\ Number(f, "record") + Number(f, "compare") <= Cardinality(Guessers)
           /\ \A g \in Guessers : f[g] = "idle" =>
                 Number(f, "record") + Number(f, "compare") + 1 <= Cardinality(Guessers)
<1> DEFINE R == {x \in Guessers : f[x] = "record"}
           C == {x \in Guessers : f[x] = "compare"}
<1>1. IsFiniteSet(Guessers) /\ IsFiniteSet(R) /\ IsFiniteSet(C)
  <2>1. R \subseteq Guessers /\ C \subseteq Guessers /\ IsFiniteSet(Guessers)
    BY LockoutAssumption
  <2>2. QED
    BY <2>1, FS_Subset
<1>2. /\ Cardinality(R) \in Nat /\ Cardinality(C) \in Nat /\ Cardinality(Guessers) \in Nat
  BY <1>1, FS_CardinalityType
<1>3. IsFiniteSet(R \cup C) /\ Cardinality(R \cup C) = Cardinality(R) + Cardinality(C)
  <2>1. R \cap C = {}
    OBVIOUS
  <2>2. /\ IsFiniteSet(R \cup C)
        /\ Cardinality(R \cup C) =
             Cardinality(R) + Cardinality(C) - Cardinality(R \cap C)
    BY <1>1, FS_Union
  <2>3. Cardinality(R \cap C) = 0
    BY <2>1, FS_EmptySet
  <2>4. QED
    BY <1>2, <2>2, <2>3
<1>4. Cardinality(R \cup C) <= Cardinality(Guessers)
  <2>1. R \cup C \subseteq Guessers
    OBVIOUS
  <2>2. QED
    BY <1>1, <2>1, FS_Subset
<1>5. ASSUME NEW g \in Guessers, f[g] = "idle"
      PROVE  Cardinality(R) + Cardinality(C) + 1 <= Cardinality(Guessers)
  <2>1. R \cup C \subseteq Guessers \ {g}
    BY <1>5
  <2>2. /\ IsFiniteSet(Guessers \ {g})
        /\ Cardinality(Guessers \ {g}) = Cardinality(Guessers) - 1
    BY <1>1, FS_RemoveElement
  <2>3. Cardinality(R \cup C) <= Cardinality(Guessers \ {g})
    BY <2>1, <2>2, FS_Subset
  <2>4. QED
    BY <1>2, <1>3, <2>2, <2>3
<1> HIDE DEF R, C
<1>6. Number(f, "record") = Cardinality(R) /\ Number(f, "compare") = Cardinality(C)
  BY DEF Number, R, C
<1>7. QED
  BY <1>2, <1>3, <1>4, <1>5, <1>6

LEMMA LockoutStart == LockoutInit => LockoutInv
<1> SUFFICES ASSUME LockoutInit PROVE LockoutInv
  OBVIOUS
<1>1. LockoutTypeOK
  <2>1. Horizon + LockFor \in Nat /\ Horizon >= 1 /\ Horizon \in Nat
    BY LockoutAssumption
  <2>2. attempts \in [failed : 0 .. MaxTried, until : 0 .. Horizon + LockFor]
    BY <2>1, LockoutAssumption DEF LockoutInit, NoRow, Never
  <2>3. guess \in [Guessers -> {"idle", "compare", "record", "clear", "insert", "validate"}]
    BY DEF LockoutInit
  <2>4. account \in BOOLEAN /\ lapsed \in BOOLEAN
    BY DEF LockoutInit
  <2>5. QED
    BY <2>1, <2>2, <2>3, <2>4, LockoutAssumption DEF LockoutInit, LockoutTypeOK
<1>2. Number(guess, "record") = 0 /\ Number(guess, "compare") = 0
  <2>1. /\ {g \in Guessers : guess[g] = "record"} = {}
        /\ {g \in Guessers : guess[g] = "compare"} = {}
    BY DEF LockoutInit
  <2>2. QED
    BY <2>1, FS_EmptySet DEF Number
<1>3. guess \in [Guessers -> Steps]
  BY DEF LockoutInit, Steps
<1>4. Cardinality(Guessers) \in Nat /\ MaxAttempts \in Nat \ {0}
  BY <1>3, LockoutAssumption, NumbersFit
<1>5. EveryFailureWasTried
  BY <1>2 DEF LockoutInit, EveryFailureWasTried, NoRow
<1>6. LockInForce
  BY <1>2, <1>4 DEF LockoutInit, LockInForce, NoRow, Never
<1>7. QED
  BY <1>1, <1>5, <1>6 DEF LockoutInv

\* A step that leaves the row, the clock and the histories alone.
LEMMA LockoutMoves ==
    ASSUME LockoutInv, NEW g \in Guessers, NEW to \in Steps \ {"record"},
           guess' = [guess EXCEPT ![g] = to], guess[g] # "record",
           to = "compare" => ~IsLocked /\ guess[g] = "idle",
           UNCHANGED <<attempts, now, tried, streak, lapsed, faults>>,
           account' \in BOOLEAN
    PROVE  LockoutInv'
<1>1. guess \in [Guessers -> Steps] /\ guess' \in [Guessers -> Steps]
  BY DEF LockoutInv, LockoutTypeOK, Steps
<1>2. /\ Number(guess', "record") = Number(guess, "record")
      /\ Number(guess, "record") \in Nat
  BY <1>1, NumbersMove DEF Steps
<1>3. /\ Number(guess, "compare") \in Nat /\ Number(guess', "compare") \in Nat
      /\ \/ Number(guess', "compare") <= Number(guess, "compare")
         \/ /\ to = "compare"
            /\ Number(guess', "compare") = Number(guess, "compare") + 1
  <2>1. Number(guess, "compare") \in Nat /\ Number(guess', "compare") \in Nat
    BY <1>1, NumbersMove DEF Steps
  <2>2. \/ Number(guess', "compare") = Number(guess, "compare")
        \/ Number(guess', "compare") = Number(guess, "compare") - 1
        \/ to = "compare" /\ Number(guess', "compare") = Number(guess, "compare") + 1
    BY <1>1, NumbersMove DEF Steps
  <2>3. Number(guess, "compare") - 1 <= Number(guess, "compare")
    BY <2>1
  <2>4. QED
    BY <2>1, <2>2, <2>3
<1>4. /\ attempts.failed \in Nat /\ tried \in Nat /\ MaxAttempts \in Nat
      /\ Cardinality(Guessers) \in Nat /\ faults \in Nat
  BY <1>1, NumbersFit, LockoutAssumption DEF LockoutInv, LockoutTypeOK
<1>5. LockoutTypeOK'
  BY <1>1 DEF LockoutInv, LockoutTypeOK, Steps
<1>6. EveryFailureWasTried'
  BY <1>2 DEF LockoutInv, EveryFailureWasTried
<1>7. LockInForce'
  <2> SUFFICES ASSUME ~lapsed
               PROVE  /\ attempts.until = Never \/ attempts.until > now
                      /\ tried <= attempts.failed + Number(guess', "record") + faults
                      /\ ~IsLocked => attempts.failed <= MaxAttempts - 1
                      /\ tried + Number(guess', "compare") <=
                           MaxAttempts - 1 + Cardinality(Guessers) + faults
    BY DEF LockInForce, IsLocked
  <2>1. /\ attempts.until = Never \/ attempts.until > now
        /\ tried <= attempts.failed + Number(guess, "record") + faults
        /\ ~IsLocked => attempts.failed <= MaxAttempts - 1
        /\ tried + Number(guess, "compare") <= MaxAttempts - 1 + Cardinality(Guessers) + faults
    BY DEF LockoutInv, LockInForce
  <2>2. CASE Number(guess', "compare") <= Number(guess, "compare")
    BY <1>2, <1>3, <1>4, <2>1, <2>2
  <2>3. CASE to = "compare" /\ Number(guess', "compare") = Number(guess, "compare") + 1
    <3>1. attempts.failed <= MaxAttempts - 1
      BY <2>1, <2>3
    <3>2. Number(guess, "record") + Number(guess, "compare") + 1 <= Cardinality(Guessers)
      BY <1>1, <2>3, NumbersFit
    <3>3. QED
      BY <1>2, <1>3, <1>4, <2>1, <2>3, <3>1, <3>2
  <2>4. QED
    BY <1>3, <2>2, <2>3
<1>8. QED
  BY <1>5, <1>6, <1>7 DEF LockoutInv

LEMMA LockoutKeepsInv ==
    ASSUME LockoutInv, [LockoutNext]_lockoutVars
    PROVE  LockoutInv'
<1>1. /\ guess \in [Guessers -> Steps] /\ account \in BOOLEAN
      /\ attempts \in [failed : 0 .. MaxTried, until : 0 .. Horizon + LockFor]
      /\ now \in 1 .. Horizon /\ tried \in 0 .. MaxTried /\ streak \in 0 .. MaxTried
      /\ lapsed \in BOOLEAN /\ faults \in 0 .. MaxFaults
  BY DEF LockoutInv, LockoutTypeOK, Steps
<1>2. /\ MaxAttempts \in Nat \ {0} /\ LockFor \in Nat \ {0} /\ Horizon \in Nat \ {0}
      /\ MaxTried \in Nat /\ MaxFaults \in Nat
  BY LockoutAssumption
<1>3. /\ Number(guess, "record") \in Nat /\ Number(guess, "compare") \in Nat
      /\ Cardinality(Guessers) \in Nat
      /\ Number(guess, "record") + Number(guess, "compare") <= Cardinality(Guessers)
  BY <1>1, NumbersFit
<1>4. /\ attempts.failed + Number(guess, "record") <= tried
      /\ streak + Number(guess, "record") <= tried
  BY DEF LockoutInv, EveryFailureWasTried
<1>5. CASE Tick
  <2>1. /\ now' \in 1 .. Horizon /\ now' = now + 1
        /\ lapsed' = (lapsed \/ attempts.until = now + 1)
        /\ UNCHANGED <<account, attempts, guess, tried, streak, faults>>
    BY <1>1, <1>2, <1>5 DEF Tick
  <2>2. LockoutTypeOK' /\ EveryFailureWasTried'
    BY <1>1, <1>2, <2>1 DEF LockoutInv, LockoutTypeOK, EveryFailureWasTried
  <2>3. LockInForce'
    <3> SUFFICES ASSUME ~lapsed, attempts.until # now + 1
                 PROVE  /\ attempts.until = Never \/ attempts.until > now + 1
                        /\ tried <= attempts.failed + Number(guess, "record") + faults
                        /\ ~IsLocked' => attempts.failed <= MaxAttempts - 1
                        /\ tried + Number(guess, "compare") <=
                             MaxAttempts - 1 + Cardinality(Guessers) + faults
      BY <2>1 DEF LockInForce
    <3>1. /\ attempts.until = Never \/ attempts.until > now
          /\ tried <= attempts.failed + Number(guess, "record") + faults
          /\ ~IsLocked => attempts.failed <= MaxAttempts - 1
          /\ tried + Number(guess, "compare") <= MaxAttempts - 1 + Cardinality(Guessers) + faults
      BY DEF LockoutInv, LockInForce
    <3>2. attempts.until = Never \/ attempts.until > now + 1
      BY <1>1, <3>1
    <3>3. ~IsLocked' => ~IsLocked
      BY <1>1, <2>1, <3>2 DEF IsLocked
    <3>4. QED
      BY <3>1, <3>2, <3>3
  <2>4. QED
    BY <2>2, <2>3 DEF LockoutInv
<1>6. ASSUME NEW g \in Guessers, LookUpEmail(g) PROVE LockoutInv'
  BY <1>1, <1>6, LockoutMoves DEF LookUpEmail, GoesTo, Steps
<1>7. ASSUME NEW g \in Guessers, InsertUser(g) PROVE LockoutInv'
  <2>1. /\ UNCHANGED <<attempts, now, tried, streak, lapsed, faults>>
        /\ account' \in BOOLEAN /\ guess[g] = "insert"
        /\ \E to \in {"idle", "validate"} : guess' = [guess EXCEPT ![g] = to]
    BY <1>1, <1>7 DEF InsertUser, GoesTo
  <2>2. PICK to \in {"idle", "validate"} : guess' = [guess EXCEPT ![g] = to]
    BY <2>1
  <2>3. to \in Steps \ {"record"} /\ to # "compare"
    BY DEF Steps
  <2>4. QED
    BY <2>1, <2>2, <2>3, LockoutMoves
<1>8. ASSUME NEW g \in Guessers, Validate(g) PROVE LockoutInv'
  <2>1. /\ UNCHANGED <<account, attempts, now, tried, streak, lapsed, faults>>
        /\ guess[g] = "validate"
        /\ guess' = [guess EXCEPT ![g] = IF IsLocked THEN "idle" ELSE "clear"]
    BY <1>8 DEF Validate, GoesTo
  <2>2. /\ (IF IsLocked THEN "idle" ELSE "clear") \in Steps \ {"record"}
        /\ (IF IsLocked THEN "idle" ELSE "clear") # "compare"
    BY DEF Steps
  <2>3. QED
    BY <1>1, <2>1, <2>2, LockoutMoves
<1>9. ASSUME NEW g \in Guessers, CheckLock(g) PROVE LockoutInv'
  BY <1>1, <1>9, LockoutMoves DEF CheckLock, GoesTo, Steps
<1>10. ASSUME NEW g \in Guessers, ComparePassword(g) PROVE LockoutInv'
  <2>1. CASE GoesTo(g, "compare", "clear") /\ UNCHANGED tried
    BY <1>1, <1>10, <2>1, LockoutMoves DEF ComparePassword, GoesTo, Steps
  <2>2. CASE tried < MaxTried /\ tried' = tried + 1 /\ GoesTo(g, "compare", "record")
    <3>1. /\ UNCHANGED <<account, attempts, now, streak, lapsed, faults>>
          /\ guess[g] = "compare" /\ guess' = [guess EXCEPT ![g] = "record"]
      BY <1>10, <2>2 DEF ComparePassword, GoesTo
    <3>2. /\ guess' \in [Guessers -> Steps]
          /\ Number(guess', "record") = Number(guess, "record") + 1
          /\ Number(guess, "compare") > 0
          /\ Number(guess', "compare") = Number(guess, "compare") - 1
      BY <1>1, <3>1, NumbersMove DEF Steps
    <3>3. LockoutTypeOK'
      BY <1>1, <1>2, <2>2, <3>1, <3>2 DEF LockoutTypeOK, Steps
    <3>4. EveryFailureWasTried'
      BY <1>1, <1>3, <1>4, <2>2, <3>1, <3>2 DEF EveryFailureWasTried
    <3>5. LockInForce'
      BY <1>1, <1>2, <1>3, <2>2, <3>1, <3>2 DEF LockoutInv, LockInForce, IsLocked
    <3>6. QED
      BY <3>3, <3>4, <3>5 DEF LockoutInv
  <2>3. QED
    BY <1>10, <2>1, <2>2 DEF ComparePassword
<1>11. ASSUME NEW g \in Guessers, RecordFailure(g) PROVE LockoutInv'
  <2> DEFINE count == CountAfterFailure
             locks == count >= MaxAttempts
  <2>1. /\ UNCHANGED <<account, now, tried, lapsed, faults>>
        /\ guess[g] = "record" /\ guess' = [guess EXCEPT ![g] = "idle"]
        /\ attempts' = [failed |-> count,
                        until |-> IF locks THEN now + LockFor ELSE attempts.until]
        /\ streak' = IF locks THEN 0 ELSE streak + 1
    BY <1>11 DEF RecordFailure, GoesTo
  <2>2. /\ guess' \in [Guessers -> Steps]
        /\ Number(guess, "record") > 0
        /\ Number(guess', "record") = Number(guess, "record") - 1
        /\ Number(guess', "compare") = Number(guess, "compare")
    BY <1>1, <2>1, NumbersMove DEF Steps
  <2>3. count \in 1 .. attempts.failed + 1
    BY <1>1 DEF CountAfterFailure
  <2>4. now + LockFor \in 0 .. Horizon + LockFor /\ now + LockFor > now
    BY <1>1, <1>2
  <2>5. ~lapsed => count = attempts.failed + 1
    BY <1>1 DEF CountAfterFailure, LockoutInv, LockInForce, Never
  <2> HIDE DEF count
  <2>6. LockoutTypeOK'
    <3>1. attempts'.failed \in 0 .. MaxTried /\ streak' \in 0 .. MaxTried
      BY <1>1, <1>2, <1>3, <1>4, <2>1, <2>2, <2>3
    <3>2. attempts' \in [failed : 0 .. MaxTried, until : 0 .. Horizon + LockFor]
      BY <1>1, <2>1, <2>4, <3>1
    <3>3. QED
      BY <1>1, <2>1, <2>2, <3>1, <3>2 DEF LockoutTypeOK, Steps
  <2>7. EveryFailureWasTried'
    BY <1>1, <1>2, <1>3, <1>4, <2>1, <2>2, <2>3 DEF EveryFailureWasTried
  <2>8. LockInForce'
    <3> SUFFICES ASSUME ~lapsed
                 PROVE  /\ attempts'.until = Never \/ attempts'.until > now
                        /\ tried <= attempts'.failed + Number(guess', "record") + faults
                        /\ ~IsLocked' => attempts'.failed <= MaxAttempts - 1
                        /\ tried + Number(guess', "compare") <=
                             MaxAttempts - 1 + Cardinality(Guessers) + faults
      BY <2>1 DEF LockInForce
    <3>1. /\ attempts.until = Never \/ attempts.until > now
          /\ tried <= attempts.failed + Number(guess, "record") + faults
          /\ tried + Number(guess, "compare") <= MaxAttempts - 1 + Cardinality(Guessers) + faults
      BY DEF LockoutInv, LockInForce
    <3>2. tried <= attempts'.failed + Number(guess', "record") + faults
      BY <1>1, <1>3, <2>1, <2>2, <2>5, <3>1
    <3>3. CASE locks
      <4>1. attempts'.until = now + LockFor
        BY <2>1, <3>3
      <4>2. IsLocked' /\ attempts'.until > now
        BY <1>1, <2>1, <2>4, <4>1 DEF IsLocked, Never
      <4>3. QED
        BY <2>2, <3>1, <3>2, <4>2
    <3>4. CASE ~locks
      <4>1. attempts'.failed = count /\ attempts'.until = attempts.until
        BY <2>1, <3>4
      <4>2. count <= MaxAttempts - 1
        BY <1>1, <1>2, <2>3, <3>4
      <4>3. QED
        BY <2>2, <3>1, <3>2, <4>1, <4>2
    <3>5. QED
      BY <3>3, <3>4
  <2>9. QED
    BY <2>6, <2>7, <2>8 DEF LockoutInv
<1>12. ASSUME NEW g \in Guessers, ClearFailures(g) PROVE LockoutInv'
  <2>1. /\ UNCHANGED <<account, now, faults>>
        /\ guess[g] = "clear" /\ guess' = [guess EXCEPT ![g] = "idle"]
        /\ attempts' = NoRow /\ streak' = 0 /\ lapsed' = FALSE
        /\ tried' = Number(guess, "record")
    BY <1>12 DEF ClearFailures, GoesTo, Number
  <2>2. /\ guess' \in [Guessers -> Steps]
        /\ Number(guess', "record") = Number(guess, "record")
        /\ Number(guess', "compare") = Number(guess, "compare")
    BY <1>1, <2>1, NumbersMove DEF Steps
  <2>3. Number(guess, "record") \in 0 .. MaxTried
    BY <1>1, <1>2, <1>3, <1>4
  <2>4. LockoutTypeOK'
    <3>1. Horizon + LockFor \in Nat
      BY <1>2
    <3>2. attempts' \in [failed : 0 .. MaxTried, until : 0 .. Horizon + LockFor]
      BY <1>2, <2>1, <3>1 DEF NoRow, Never
    <3>3. lapsed' \in BOOLEAN
      BY <2>1
    <3>4. QED
      BY <1>1, <1>2, <2>1, <2>2, <2>3, <3>2, <3>3 DEF LockoutTypeOK, Steps
  <2>5. EveryFailureWasTried'
    BY <1>3, <2>1, <2>2 DEF EveryFailureWasTried, NoRow
  <2>6. LockInForce'
    BY <1>1, <1>2, <1>3, <2>1, <2>2 DEF LockInForce, NoRow, Never
  <2>7. QED
    BY <2>4, <2>5, <2>6 DEF LockoutInv
<1>13. ASSUME NEW g \in Guessers, LockoutFault(g) PROVE LockoutInv'
  <2>1. /\ UNCHANGED <<account, attempts, now, tried, streak, lapsed>>
        /\ faults' = faults + 1 /\ faults < MaxFaults
        /\ guess' = [guess EXCEPT ![g] = "idle"]
    BY <1>13 DEF LockoutFault
  <2>2. /\ guess' \in [Guessers -> Steps] /\ Number(guess', "record") \in Nat
        /\ Number(guess', "record") <= Number(guess, "record")
    <3>1. /\ guess' \in [Guessers -> Steps] /\ Number(guess', "record") \in Nat
          /\ \/ Number(guess', "record") = Number(guess, "record")
             \/ Number(guess', "record") = Number(guess, "record") - 1
      BY <1>1, <2>1, NumbersMove DEF Steps
    <3>2. QED
      BY <1>3, <3>1
  <2>3. LockoutTypeOK'
    BY <1>1, <1>2, <2>1, <2>2 DEF LockoutTypeOK, Steps
  <2>4. EveryFailureWasTried'
    BY <1>1, <1>3, <1>4, <2>1, <2>2 DEF EveryFailureWasTried
  <2>5. LockInForce'
    <3> SUFFICES ASSUME ~lapsed
                 PROVE  /\ attempts.until = Never \/ attempts.until > now
                        /\ tried <= attempts.failed + Number(guess', "record") + (faults + 1)
                        /\ ~IsLocked => attempts.failed <= MaxAttempts - 1
                        /\ tried + Number(guess', "compare") <=
                             MaxAttempts - 1 + Cardinality(Guessers) + (faults + 1)
      BY <1>1, <2>1 DEF LockInForce, IsLocked
    <3>1. /\ attempts.until = Never \/ attempts.until > now
          /\ tried <= attempts.failed + Number(guess, "record") + faults
          /\ ~IsLocked => attempts.failed <= MaxAttempts - 1
          /\ tried + Number(guess, "compare") <= MaxAttempts - 1 + Cardinality(Guessers) + faults
      BY DEF LockoutInv, LockInForce
    <3>2. /\ Number(guess', "record") >= Number(guess, "record") - 1
          /\ Number(guess', "compare") <= Number(guess, "compare")
          /\ Number(guess', "record") \in Nat /\ Number(guess', "compare") \in Nat
      <4>1. \A step \in {"record", "compare"} :
               /\ Number(guess', step) \in Nat
               /\ \/ Number(guess', step) = Number(guess, step)
                  \/ Number(guess', step) = Number(guess, step) - 1
        BY <1>1, <2>1, NumbersMove DEF Steps
      <4>2. QED
        BY <1>3, <4>1
    <3>3. QED
      BY <1>1, <1>2, <1>3, <3>1, <3>2
  <2>6. QED
    BY <2>3, <2>4, <2>5 DEF LockoutInv
<1>14. CASE UNCHANGED lockoutVars
  BY <1>14 DEF lockoutVars, LockoutInv, LockoutTypeOK, EveryFailureWasTried, LockInForce,
               IsLocked
<1>15. QED
  BY <1>5, <1>6, <1>7, <1>8, <1>9, <1>10, <1>11, <1>12, <1>13, <1>14 DEF LockoutNext

LEMMA LockoutInvHolds ==
    LockoutInv => LockoutTypeOK /\ GuessesAreBounded
<1> SUFFICES ASSUME LockoutInv, ~lapsed
             PROVE  tried <= MaxAttempts - 1 + Cardinality(Guessers) + faults
  BY DEF LockoutInv, GuessesAreBounded
<1>1. /\ guess \in [Guessers -> Steps] /\ tried \in Nat /\ MaxAttempts \in Nat
      /\ faults \in Nat
  BY LockoutAssumption DEF LockoutInv, LockoutTypeOK, Steps
<1>2. tried + Number(guess, "compare") <= MaxAttempts - 1 + Cardinality(Guessers) + faults
  BY DEF LockoutInv, LockInForce
<1>3. QED
  BY <1>1, <1>2, NumbersFit

-----------------------------------------------------------------------------
(* Limits: module MagicLinks. *)

\* The requests that have been counted and have not stored their link.
Storing == {r \in Requests : request[r].at = "store"}

\* Consuming a link and opening a session are one step, of a link that was mailed.
ConsumedIsOpened ==
    \A l \in Links : /\ link[l].opened = IF link[l].consumed THEN 1 ELSE 0
                     /\ link[l].consumed => l \in mailed

\* A visit is of one mailed link.
VisitsAreOfMailed ==
    \A r \in Requests : request[r].at = "consume" =>
        \E l \in mailed : request[r].link = {l}

\* What is stored and what is about to be goes past the limit only by those that were
\* counted together.
CountedTogether ==
    /\ IsFiniteSet(Recent)
    /\ Cardinality(Recent) + Cardinality(Storing) <= LinkLimit - 1 + Cardinality(Requests)

MagicLinksInv ==
    MagicLinksTypeOK /\ ConsumedIsOpened /\ VisitsAreOfMailed /\ CountedTogether

LEMMA StoringIsFinite ==
    /\ IsFiniteSet(Requests) /\ Cardinality(Requests) \in Nat
    /\ IsFiniteSet(Storing) /\ Cardinality(Storing) \in Nat
    /\ Cardinality(Storing) <= Cardinality(Requests)
    /\ \A r \in Requests : request[r].at # "store" =>
          Cardinality(Storing) + 1 <= Cardinality(Requests)
<1>1. IsFiniteSet(Requests) /\ Storing \subseteq Requests
  BY MagicLinksAssumption DEF Storing
<1>2. /\ IsFiniteSet(Storing) /\ Cardinality(Storing) <= Cardinality(Requests)
      /\ Cardinality(Requests) \in Nat /\ Cardinality(Storing) \in Nat
  BY <1>1, FS_Subset, FS_CardinalityType
<1>3. ASSUME NEW r \in Requests, request[r].at # "store"
      PROVE  Cardinality(Storing) + 1 <= Cardinality(Requests)
  <2>1. Storing \subseteq Requests \ {r}
    BY <1>1, <1>3 DEF Storing
  <2>2. /\ IsFiniteSet(Requests \ {r})
        /\ Cardinality(Requests \ {r}) = Cardinality(Requests) - 1
    BY <1>1, FS_RemoveElement
  <2>3. Cardinality(Storing) <= Cardinality(Requests \ {r})
    BY <2>1, <2>2, FS_Subset
  <2>4. QED
    BY <1>2, <2>2, <2>3
<1>4. QED
  BY <1>1, <1>2, <1>3

LEMMA MagicLinksStart == MagicLinksInit => MagicLinksInv
<1> SUFFICES ASSUME MagicLinksInit PROVE MagicLinksInv
  OBVIOUS
<1>1. MagicLinksTypeOK /\ ConsumedIsOpened /\ VisitsAreOfMailed
  <2>1. NewLink \in [stored : BOOLEAN, fresh : BOOLEAN, consumed : BOOLEAN, opened : Nat]
    BY DEF NewLink
  <2>2. Waiting \in [at : {"idle", "store", "enqueue", "consume"}, link : SUBSET Links]
    BY DEF Waiting
  <2>3. MagicLinksTypeOK
    BY <2>1, <2>2, MagicLinksAssumption DEF MagicLinksInit, MagicLinksTypeOK
  <2>4. ConsumedIsOpened
    BY DEF MagicLinksInit, ConsumedIsOpened, NewLink
  <2>5. VisitsAreOfMailed
    BY DEF MagicLinksInit, VisitsAreOfMailed, Waiting
  <2>6. QED
    BY <2>3, <2>4, <2>5
<1>2. Recent = {} /\ Storing = {}
  BY DEF MagicLinksInit, Recent, Storing, NewLink, Waiting
<1>3. CountedTogether
  BY <1>2, StoringIsFinite, FS_EmptySet, MagicLinksAssumption DEF CountedTogether
<1>4. QED
  BY <1>1, <1>3 DEF MagicLinksInv

\* A request goes on, and no link becomes a recent one.
LEMMA LinksMove ==
    ASSUME MagicLinksInv, MagicLinksTypeOK', ConsumedIsOpened', VisitsAreOfMailed',
           Recent' \subseteq Recent, Storing' \subseteq Storing
    PROVE  MagicLinksInv'
<1>1. IsFiniteSet(Recent) /\ IsFiniteSet(Storing)
  BY StoringIsFinite DEF MagicLinksInv, CountedTogether
<1>2. /\ IsFiniteSet(Recent') /\ Cardinality(Recent') <= Cardinality(Recent)
      /\ Cardinality(Storing') <= Cardinality(Storing)
      /\ Cardinality(Recent) \in Nat /\ Cardinality(Recent') \in Nat
      /\ Cardinality(Storing) \in Nat /\ Cardinality(Storing') \in Nat
  BY <1>1, FS_Subset, FS_CardinalityType
<1>3. LinkLimit \in Nat /\ Cardinality(Requests) \in Nat
  BY StoringIsFinite, MagicLinksAssumption
<1>4. CountedTogether'
  BY <1>2, <1>3 DEF MagicLinksInv, CountedTogether
<1>5. QED
  BY <1>4 DEF MagicLinksInv

LEMMA MagicLinksKeepsInv ==
    ASSUME MagicLinksInv, [MagicLinksNext]_linkVars
    PROVE  MagicLinksInv'
<1> DEFINE LinkRow == [stored : BOOLEAN, fresh : BOOLEAN, consumed : BOOLEAN, opened : Nat]
           Asking == [at : {"idle", "store", "enqueue", "consume"}, link : SUBSET Links]
<1>1. /\ link \in [Links -> LinkRow] /\ mailed \subseteq Links
      /\ request \in [Requests -> Asking] /\ lost \in 0 .. MaxLost
      /\ MaxLost \in Nat /\ LinkLimit \in Nat \ {0}
  BY MagicLinksAssumption DEF MagicLinksInv, MagicLinksTypeOK
<1>2. ConsumedIsOpened /\ VisitsAreOfMailed
  BY DEF MagicLinksInv
<1>3. ASSUME NEW r \in Requests, NEW step \in {"idle", "store", "enqueue", "consume"},
             NEW about \in SUBSET Links, Moves(r, step, about)
      PROVE  /\ request' \in [Requests -> Asking]
             /\ request'[r] = [at |-> step, link |-> about]
             /\ \A q \in Requests \ {r} : request'[q] = request[q]
             /\ step # "store" => Storing' = Storing \ {r}
             /\ step = "store" => Storing' = Storing \cup {r}
  <2>1. /\ request' \in [Requests -> Asking]
        /\ request'[r] = [at |-> step, link |-> about]
        /\ \A q \in Requests \ {r} : request'[q] = request[q]
    BY <1>1, <1>3 DEF Moves
  <2>2. step # "store" => Storing' = Storing \ {r}
    BY <2>1 DEF Storing
  <2>3. step = "store" => Storing' = Storing \cup {r}
    BY <2>1 DEF Storing
  <2>4. QED
    BY <2>1, <2>2, <2>3
<1> HIDE DEF Asking
<1>4. ASSUME NEW r \in Requests, Moves(r, "idle", {})
      PROVE  /\ request' \in [Requests -> Asking]
             /\ Storing' \subseteq Storing
             /\ mailed \subseteq mailed' => VisitsAreOfMailed'
  <2>1. /\ request' \in [Requests -> Asking] /\ request'[r] = [at |-> "idle", link |-> {}]
        /\ \A q \in Requests \ {r} : request'[q] = request[q]
        /\ Storing' = Storing \ {r}
    BY <1>3, <1>4
  <2>2. mailed \subseteq mailed' => VisitsAreOfMailed'
    BY <1>2, <2>1 DEF VisitsAreOfMailed
  <2>3. QED
    BY <2>1, <2>2
<1>5. CASE Ages
  <2>1. PICK l \in Recent : link' = [link EXCEPT ![l].fresh = FALSE]
    BY <1>5 DEF Ages
  <2>2. UNCHANGED <<mailed, request, lost>> /\ l \in Links
    BY <1>5, <2>1 DEF Ages, Recent
  <2>3. /\ link' \in [Links -> LinkRow]
        /\ \A k \in Links : /\ link'[k].opened = link[k].opened
                            /\ link'[k].consumed = link[k].consumed
                            /\ link'[k].stored = link[k].stored
                            /\ link'[k].fresh => link[k].fresh
    BY <1>1, <2>1, <2>2
  <2>4. MagicLinksTypeOK'
    BY <1>1, <2>2, <2>3 DEF MagicLinksTypeOK, Asking
  <2>5. ConsumedIsOpened' /\ VisitsAreOfMailed'
    BY <1>2, <2>2, <2>3 DEF ConsumedIsOpened, VisitsAreOfMailed
  <2>6. Recent' \subseteq Recent /\ Storing' \subseteq Storing
    BY <2>2, <2>3 DEF Recent, Storing
  <2>7. QED
    BY <2>4, <2>5, <2>6, LinksMove
<1>6. ASSUME NEW r \in Requests, CountRecent(r) PROVE MagicLinksInv'
  <2>1. /\ request[r] = Waiting /\ Cardinality(Recent) < LinkLimit
        /\ Moves(r, "store", {}) /\ UNCHANGED <<link, mailed, lost>>
    BY <1>6 DEF CountRecent
  <2>2. /\ request' \in [Requests -> Asking] /\ request'[r] = [at |-> "store", link |-> {}]
        /\ \A q \in Requests \ {r} : request'[q] = request[q]
        /\ Storing' = Storing \cup {r}
    BY <1>3, <2>1
  <2>3. MagicLinksTypeOK'
    BY <1>1, <2>1, <2>2 DEF MagicLinksTypeOK, Asking
  <2>4. ConsumedIsOpened' /\ VisitsAreOfMailed'
    BY <1>2, <2>1, <2>2 DEF ConsumedIsOpened, VisitsAreOfMailed
  <2>5. Recent' = Recent /\ IsFiniteSet(Recent) /\ Cardinality(Recent) \in Nat
    BY <2>1, FS_CardinalityType DEF Recent, MagicLinksInv, CountedTogether
  <2>6. r \notin Storing /\ request[r].at # "store"
    BY <2>1 DEF Storing, Waiting
  <2>7. Cardinality(Storing') = Cardinality(Storing) + 1
    BY <2>2, <2>6, StoringIsFinite, FS_AddElement
  <2>8. Cardinality(Storing) + 1 <= Cardinality(Requests)
    BY <2>6, StoringIsFinite
  <2>9. CountedTogether'
    BY <1>1, <2>1, <2>5, <2>7, <2>8, StoringIsFinite DEF CountedTogether
  <2>10. QED
    BY <2>3, <2>4, <2>9 DEF MagicLinksInv
<1>7. ASSUME NEW r \in Requests, Store(r) PROVE MagicLinksInv'
  <2>1. PICK l \in Links : /\ ~link[l].stored
                           /\ link' = [link EXCEPT ![l].stored = TRUE]
                           /\ Moves(r, "enqueue", {l})
    BY <1>7 DEF Store
  <2>2. request[r].at = "store" /\ UNCHANGED <<mailed, lost>>
    BY <1>7 DEF Store
  <2>3. /\ request' \in [Requests -> Asking]
        /\ request'[r] = [at |-> "enqueue", link |-> {l}]
        /\ \A q \in Requests \ {r} : request'[q] = request[q]
        /\ Storing' = Storing \ {r}
    BY <1>3, <2>1
  <2>4. /\ link' \in [Links -> LinkRow]
        /\ \A k \in Links : /\ link'[k].opened = link[k].opened
                            /\ link'[k].consumed = link[k].consumed
                            /\ link'[k].fresh = link[k].fresh
                            /\ k # l => link'[k].stored = link[k].stored
    BY <1>1, <2>1
  <2>5. MagicLinksTypeOK'
    BY <1>1, <2>2, <2>3, <2>4 DEF MagicLinksTypeOK, Asking
  <2>6. ConsumedIsOpened' /\ VisitsAreOfMailed'
    BY <1>2, <2>2, <2>3, <2>4 DEF ConsumedIsOpened, VisitsAreOfMailed
  <2>7. IsFiniteSet(Recent) /\ Cardinality(Recent) \in Nat
    BY FS_CardinalityType DEF MagicLinksInv, CountedTogether
  <2>8. /\ IsFiniteSet(Recent \cup {l})
        /\ Cardinality(Recent \cup {l}) <= Cardinality(Recent) + 1
        /\ Cardinality(Recent \cup {l}) \in Nat
    <3>1. CASE l \in Recent
      <4>1. Recent \cup {l} = Recent
        BY <3>1
      <4>2. Cardinality(Recent) <= Cardinality(Recent) + 1
        BY <2>7
      <4>3. QED
        BY <2>7, <4>1, <4>2, Zenon
    <3>2. CASE l \notin Recent
      BY <2>7, <3>2, FS_AddElement
    <3>3. QED
      BY <3>1, <3>2
  <2>9. Recent' \subseteq Recent \cup {l}
    BY <2>4 DEF Recent
  <2>10. /\ IsFiniteSet(Recent') /\ Cardinality(Recent') <= Cardinality(Recent \cup {l})
         /\ Cardinality(Recent') \in Nat
    BY <2>8, <2>9, FS_Subset, FS_CardinalityType
  <2>11. r \in Storing
    BY <2>2 DEF Storing
  <2>12. Cardinality(Storing') = Cardinality(Storing) - 1
    BY <2>3, <2>11, StoringIsFinite, FS_RemoveElement
  <2>13. Cardinality(Recent) + Cardinality(Storing)
           <= LinkLimit - 1 + Cardinality(Requests)
    BY DEF MagicLinksInv, CountedTogether
  <2>14. CountedTogether'
    BY <1>1, <2>7, <2>8, <2>10, <2>12, <2>13, StoringIsFinite DEF CountedTogether
  <2>15. QED
    BY <2>5, <2>6, <2>14 DEF MagicLinksInv
<1>8. ASSUME NEW r \in Requests, EnqueueMail(r) PROVE MagicLinksInv'
  <2>1. /\ mailed' = mailed \cup request[r].link /\ Moves(r, "idle", {})
        /\ UNCHANGED <<link, lost>>
    BY <1>8 DEF EnqueueMail
  <2>2. request[r].link \subseteq Links
    BY <1>1 DEF Asking
  <2>3. request' \in [Requests -> Asking] /\ Storing' \subseteq Storing /\ VisitsAreOfMailed'
    BY <1>4, <2>1
  <2>4. MagicLinksTypeOK'
    BY <1>1, <2>1, <2>2, <2>3 DEF MagicLinksTypeOK, Asking
  <2>5. ConsumedIsOpened' /\ Recent' \subseteq Recent
    BY <1>2, <2>1 DEF ConsumedIsOpened, Recent
  <2>6. QED
    BY <2>3, <2>4, <2>5, LinksMove
<1>9. ASSUME NEW r \in Requests, OpenLink(r) PROVE MagicLinksInv'
  <2>1. PICK l \in mailed : Moves(r, "consume", {l})
    BY <1>9 DEF OpenLink
  <2>2. UNCHANGED <<link, mailed, lost>> /\ l \in Links
    BY <1>1, <1>9 DEF OpenLink
  <2>3. /\ request' \in [Requests -> Asking]
        /\ request'[r] = [at |-> "consume", link |-> {l}]
        /\ \A q \in Requests \ {r} : request'[q] = request[q]
        /\ Storing' = Storing \ {r}
    BY <1>3, <2>1, <2>2
  <2>4. MagicLinksTypeOK'
    BY <1>1, <2>2, <2>3 DEF MagicLinksTypeOK, Asking
  <2>5. VisitsAreOfMailed'
    <3>1. request'[r].link = {l} /\ l \in mailed'
      BY <2>2, <2>3
    <3>2. QED
      BY <1>2, <2>2, <2>3, <3>1 DEF VisitsAreOfMailed
  <2>6. ConsumedIsOpened' /\ Recent' \subseteq Recent
    BY <1>2, <2>2 DEF ConsumedIsOpened, Recent
  <2>7. QED
    BY <2>3, <2>4, <2>5, <2>6, LinksMove
<1>10. ASSUME NEW r \in Requests, Consume(r) PROVE MagicLinksInv'
  <2>1. PICK l \in mailed : request[r].link = {l}
    BY <1>2, <1>10 DEF Consume, VisitsAreOfMailed
  <2>2. (CHOOSE k \in request[r].link : TRUE) = l
    BY <2>1
  <2>3. /\ link' = IF Consumable(l)
                   THEN [link EXCEPT ![l].consumed = TRUE, ![l].opened = @ + 1]
                   ELSE link
        /\ Moves(r, "idle", {}) /\ UNCHANGED <<mailed, lost>> /\ l \in Links
    BY <1>1, <1>10, <2>1, <2>2 DEF Consume
  <2>4. request' \in [Requests -> Asking] /\ Storing' \subseteq Storing /\ VisitsAreOfMailed'
    BY <1>4, <2>3
  <2>5. /\ link' \in [Links -> LinkRow]
        /\ \A k \in Links : /\ link'[k].stored = link[k].stored
                            /\ link'[k].fresh = link[k].fresh
        /\ ConsumedIsOpened'
    <3>1. CASE Consumable(l)
      <4>1. PICK c : c = [link EXCEPT ![l].consumed = TRUE]
        OBVIOUS
      <4>2. /\ c \in [Links -> LinkRow] /\ c[l].consumed /\ c[l].opened = link[l].opened
            /\ \A k \in Links : /\ c[k].stored = link[k].stored
                                /\ c[k].fresh = link[k].fresh
                                /\ k # l => c[k] = link[k]
        BY <1>1, <2>3, <4>1
      <4>3. link' = [c EXCEPT ![l].opened = @ + 1]
        BY <1>1, <2>3, <3>1, <4>1
      <4>4. link[l].opened = 0
        BY <1>2, <2>3, <3>1 DEF Consumable, ConsumedIsOpened
      <4>5. /\ link' \in [Links -> LinkRow] /\ link'[l].consumed /\ link'[l].opened = 1
            /\ \A k \in Links : /\ link'[k].stored = link[k].stored
                                /\ link'[k].fresh = link[k].fresh
                                /\ k # l => link'[k] = link[k]
        BY <2>3, <4>2, <4>3, <4>4
      <4>6. ConsumedIsOpened'
        BY <1>2, <2>1, <2>3, <4>5 DEF ConsumedIsOpened
      <4>7. QED
        BY <4>5, <4>6
    <3>2. CASE ~Consumable(l)
      BY <1>1, <1>2, <2>3, <3>2 DEF ConsumedIsOpened
    <3>3. QED
      BY <3>1, <3>2
  <2>6. MagicLinksTypeOK'
    BY <1>1, <2>3, <2>4, <2>5 DEF MagicLinksTypeOK, Asking
  <2>7. Recent' \subseteq Recent
    BY <2>5 DEF Recent
  <2>8. QED
    BY <2>4, <2>5, <2>6, <2>7, LinksMove
<1>11. ASSUME NEW r \in Requests, Lose(r) PROVE MagicLinksInv'
  <2>1. /\ lost < MaxLost /\ lost' = lost + 1 /\ Moves(r, "idle", {})
        /\ UNCHANGED <<link, mailed>>
    BY <1>11 DEF Lose
  <2>2. request' \in [Requests -> Asking] /\ Storing' \subseteq Storing /\ VisitsAreOfMailed'
    BY <1>4, <2>1
  <2>3. MagicLinksTypeOK'
    BY <1>1, <2>1, <2>2 DEF MagicLinksTypeOK, Asking
  <2>4. ConsumedIsOpened' /\ Recent' \subseteq Recent
    BY <1>2, <2>1 DEF ConsumedIsOpened, Recent
  <2>5. QED
    BY <2>2, <2>3, <2>4, LinksMove
<1>12. CASE UNCHANGED linkVars
  <2>1. /\ MagicLinksTypeOK' /\ ConsumedIsOpened' /\ VisitsAreOfMailed'
        /\ Recent' = Recent /\ Storing' = Storing
    BY <1>12 DEF linkVars, MagicLinksInv, MagicLinksTypeOK, ConsumedIsOpened,
                 VisitsAreOfMailed, Recent, Storing
  <2>2. QED
    BY <2>1, LinksMove
<1>13. QED
  BY <1>5, <1>6, <1>7, <1>8, <1>9, <1>10, <1>11, <1>12 DEF MagicLinksNext

LEMMA MagicLinksInvHolds ==
    MagicLinksInv => MagicLinksTypeOK /\ LinkOpensOnce /\ LinkRateHolds
<1> SUFFICES ASSUME MagicLinksInv PROVE LinkOpensOnce /\ LinkRateHolds
  BY DEF MagicLinksInv
<1>1. LinkOpensOnce
  BY DEF MagicLinksInv, ConsumedIsOpened, LinkOpensOnce
<1>2. IsFiniteSet(Recent) /\ Cardinality(Recent) \in Nat
  BY FS_CardinalityType DEF MagicLinksInv, CountedTogether
<1>3. LinkRateHolds
  BY <1>2, StoringIsFinite, MagicLinksAssumption
     DEF MagicLinksInv, CountedTogether, LinkRateHolds
<1>4. QED
  BY <1>1, <1>3

-----------------------------------------------------------------------------
(* Limits: module RateLimiter. *)

Passes == [age : Nat, nth : 1 .. Limit]
Entries == [count : 1 .. Limit + 2, age : Timespans]

\* The requests let through since the window of this age began, and those before.
Within(S, age) == {p \in S : p.age <= age}
Before(S, age) == {p \in S : p.age > age}

\* The entry of a key accounts for what the key was let through in a window's time: no
\* more than the limit before its window and no more in it, and as long as the window
\* lasts its count is their number.
Accounted(S, entry) ==
    /\ S \subseteq Passes /\ IsFiniteSet(S)
    /\ \A p \in S : p.age <= Window /\ p.age >= entry.age - Window
    /\ Cardinality(Before(S, entry.age)) <= Limit
    /\ Cardinality(Within(S, entry.age)) <= Limit
    /\ entry.age <= Window =>
          /\ Cardinality(Within(S, entry.age)) =
                IF entry.count <= Limit THEN entry.count ELSE Limit
          /\ \A p \in Within(S, entry.age) : p.nth <= entry.count

LimiterInv ==
    /\ LimiterTypeOK
    /\ passed \in [Keys -> SUBSET Passes]
    /\ \A k \in Held : Accounted(passed[k], windows[k])
    /\ \A k \in Keys \ Held : passed[k] = {}
    /\ RefusedAtTheLimit
    /\ IsFiniteSet(Held) /\ Cardinality(Held) <= MaxClients

LEMMA Parts ==
    ASSUME NEW S, IsFiniteSet(S), NEW age \in Int, S \subseteq Passes
    PROVE  /\ IsFiniteSet(Within(S, age)) /\ IsFiniteSet(Before(S, age))
           /\ Cardinality(Within(S, age)) \in Nat /\ Cardinality(Before(S, age)) \in Nat
           /\ Cardinality(S) = Cardinality(Within(S, age)) + Cardinality(Before(S, age))
<1>1. Within(S, age) \subseteq S /\ Before(S, age) \subseteq S
  BY DEF Within, Before
<1>2. /\ IsFiniteSet(Within(S, age)) /\ IsFiniteSet(Before(S, age))
      /\ Cardinality(Within(S, age)) \in Nat /\ Cardinality(Before(S, age)) \in Nat
  BY <1>1, FS_Subset, FS_CardinalityType
<1>3. \A p \in S : p.age \in Nat
  BY DEF Passes
<1>4. Within(S, age) \cup Before(S, age) = S /\ Within(S, age) \cap Before(S, age) = {}
  BY <1>3 DEF Within, Before
<1>5. Cardinality(Within(S, age) \cup Before(S, age)) =
        Cardinality(Within(S, age)) + Cardinality(Before(S, age))
          - Cardinality(Within(S, age) \cap Before(S, age))
  BY <1>2, FS_Union
<1>6. Cardinality(Within(S, age) \cap Before(S, age)) = 0
  BY <1>4, FS_EmptySet
<1>7. Cardinality(Within(S, age) \cup Before(S, age)) =
        Cardinality(Within(S, age)) + Cardinality(Before(S, age))
  BY <1>2, <1>5, <1>6
<1>8. Cardinality(S) = Cardinality(Within(S, age)) + Cardinality(Before(S, age))
  BY <1>4, <1>7, Zenon
<1>9. QED
  BY <1>2, <1>8

LEMMA NeverTwiceOne ==
    ASSUME NEW S, NEW entry \in Entries, Accounted(S, entry)
    PROVE  Cardinality(S) <= 2 * Limit
<1>1. entry.age \in Int /\ Limit \in Nat
  BY RateLimiterAssumption DEF Entries, Timespans
<1>2. IsFiniteSet(S) /\ S \subseteq Passes
  BY DEF Accounted
<1>3. /\ Cardinality(Within(S, entry.age)) \in Nat /\ Cardinality(Before(S, entry.age)) \in Nat
      /\ Cardinality(S) =
           Cardinality(Within(S, entry.age)) + Cardinality(Before(S, entry.age))
  BY <1>1, <1>2, Parts
<1>4. /\ Cardinality(Before(S, entry.age)) <= Limit
      /\ Cardinality(Within(S, entry.age)) <= Limit
  BY DEF Accounted
<1>5. QED
  BY <1>1, <1>3, <1>4

\* An entry that is swept has nothing left to account for.
LEMMA NothingLeft ==
    ASSUME NEW S, NEW entry \in Entries, Accounted(S, entry), entry.age > 2 * Window
    PROVE  S = {}
<1>1. \A p \in S : p.age \in Nat /\ p.age <= Window /\ p.age >= entry.age - Window
  BY DEF Accounted, Passes
<1>2. entry.age \in Nat /\ Window \in Nat
  BY RateLimiterAssumption DEF Entries, Timespans
<1>3. QED
  BY <1>1, <1>2

First == [age |-> 0, nth |-> 1]

\* A window begins, with what was let through in the one before behind it.
LEMMA WindowBegins ==
    ASSUME NEW S, S \subseteq Passes, IsFiniteSet(S), Cardinality(S) <= Limit,
           \A p \in S : p.age \in 1 .. Window
    PROVE  Accounted(S \cup {First}, [count |-> 1, age |-> 0])
<1> DEFINE T == S \cup {First}
           entry == [count |-> 1, age |-> 0]
<1>1. Limit \in Nat \ {0} /\ Window \in Nat \ {0}
  BY RateLimiterAssumption
<1>2. T \subseteq Passes /\ IsFiniteSet(T)
  <2>1. First \in Passes
    BY <1>1 DEF First, Passes
  <2>2. IsFiniteSet(T)
    BY FS_AddElement
  <2>3. QED
    BY <2>1, <2>2
<1>3. Within(T, 0) = {First} /\ Before(T, 0) = S
  <2>1. \A p \in S : p.age \in Int /\ p.age > 0
    BY <1>1
  <2>2. First.age = 0
    BY DEF First
  <2>3. QED
    BY <2>1, <2>2 DEF Within, Before
<1>4. Cardinality(Within(T, 0)) = 1
  BY <1>3, FS_Singleton
<1>5. \A p \in T : p.age <= Window /\ p.age >= 0 - Window
  BY <1>1 DEF First
<1>6. \A p \in Within(T, 0) : p.nth <= 1
  BY <1>3 DEF First
<1>7. entry.age = 0 /\ entry.count = 1
  OBVIOUS
<1> HIDE DEF T, entry
<1>8. Accounted(T, entry)
  BY <1>1, <1>2, <1>3, <1>4, <1>5, <1>6, <1>7 DEF Accounted
<1>9. QED
  BY <1>8 DEF T, entry

\* One more in the window.
LEMMA WindowGoesOn ==
    ASSUME NEW S, NEW entry \in Entries, Accounted(S, entry), entry.age <= Window,
           entry.count + 1 <= Limit
    PROVE  Accounted(S \cup {[age |-> 0, nth |-> entry.count + 1]},
                     [count |-> entry.count + 1, age |-> entry.age])
<1> DEFINE n == entry.count + 1
           p0 == [age |-> 0, nth |-> n]
           T == S \cup {p0}
           a == entry.age
           next == [count |-> n, age |-> a]
<1>1. /\ Limit \in Nat \ {0} /\ Window \in Nat \ {0} /\ a \in 0 .. Window
      /\ entry.count \in 1 .. Limit /\ n \in 1 .. Limit
  BY RateLimiterAssumption DEF Entries, Timespans
<1>2. S \subseteq Passes /\ IsFiniteSet(S)
  BY DEF Accounted
<1>3. T \subseteq Passes /\ IsFiniteSet(T)
  <2>1. p0 \in Passes
    BY <1>1 DEF Passes
  <2>2. IsFiniteSet(T)
    BY <1>2, FS_AddElement
  <2>3. QED
    BY <1>2, <2>1, <2>2
<1>4. /\ p0.age = 0 /\ p0.nth = n /\ next.age = a /\ next.count = n
  OBVIOUS
<1>5. Within(T, a) = Within(S, a) \cup {p0} /\ Before(T, a) = Before(S, a)
  <2>1. p0.age <= a /\ ~(p0.age > a)
    BY <1>1, <1>4
  <2> HIDE DEF p0
  <2>2. QED
    BY <2>1 DEF Within, Before
<1>6. /\ Cardinality(Within(S, a)) = entry.count
      /\ \A p \in Within(S, a) : p.nth <= entry.count
  <2>1. entry.count <= Limit
    BY <1>1
  <2>2. QED
    BY <2>1 DEF Accounted
<1>7. p0 \notin Within(S, a)
  <2>1. ~(p0.nth <= entry.count)
    BY <1>1, <1>4
  <2>2. QED
    BY <1>6, <2>1
<1>8. IsFiniteSet(Within(S, a))
  BY <1>1, <1>2, Parts
<1>9. Cardinality(Within(T, a)) = n
  BY <1>5, <1>6, <1>7, <1>8, FS_AddElement
<1>10. \A p \in Within(T, a) : p.nth <= n
  <2>1. \A p \in Within(S, a) : p.nth \in Nat
    BY <1>2 DEF Within, Passes
  <2>2. \A p \in Within(S, a) : p.nth <= n
    BY <1>1, <1>6, <2>1
  <2>3. p0.nth <= n
    BY <1>1, <1>4
  <2>4. QED
    BY <1>5, <2>2, <2>3
<1>11. \A p \in T : p.age <= Window /\ p.age >= a - Window
  <2>1. \A p \in S : p.age <= Window /\ p.age >= a - Window
    BY DEF Accounted
  <2>2. p0.age <= Window /\ p0.age >= a - Window
    BY <1>1, <1>4
  <2>3. QED
    BY <2>1, <2>2
<1>12. Cardinality(Before(T, a)) <= Limit
  BY <1>5 DEF Accounted
<1>13. n <= Limit
  BY <1>1
<1> HIDE DEF T, n, a, next
<1>14. Accounted(T, next)
  BY <1>3, <1>4, <1>9, <1>10, <1>11, <1>12, <1>13 DEF Accounted
<1>15. QED
  BY <1>14 DEF T, n, a, next

\* One too many in the window: only the count goes on.
LEMMA WindowIsFull ==
    ASSUME NEW S, NEW entry \in Entries, Accounted(S, entry), entry.age <= Window,
           ~(entry.count + 1 <= Limit), NEW n \in Nat, n > Limit
    PROVE  /\ Accounted(S, [count |-> n, age |-> entry.age])
           /\ Cardinality(S) >= Limit
<1> DEFINE a == entry.age
           next == [count |-> n, age |-> a]
<1>1. Limit \in Nat \ {0} /\ entry.count \in Nat /\ a \in Nat
  BY RateLimiterAssumption DEF Entries, Timespans
<1>2. S \subseteq Passes /\ IsFiniteSet(S)
  BY DEF Accounted
<1>3. Cardinality(Within(S, a)) = Limit
  <2>1. Cardinality(Within(S, a)) =
          IF entry.count <= Limit THEN entry.count ELSE Limit
    BY DEF Accounted
  <2>2. entry.count = Limit \/ ~(entry.count <= Limit)
    BY <1>1
  <2>3. QED
    BY <2>1, <2>2
<1>4. \A p \in Within(S, a) : p.nth <= n
  <2>1. \A p \in Within(S, a) : p.nth \in 1 .. Limit
    BY <1>2 DEF Within, Passes
  <2>2. QED
    BY <1>1, <2>1
<1>5. next.age = a /\ next.count = n /\ ~(n <= Limit)
  BY <1>1
<1>6. Accounted(S, next)
  <2>1. /\ \A p \in S : p.age <= Window /\ p.age >= a - Window
        /\ Cardinality(Before(S, a)) <= Limit /\ Cardinality(Within(S, a)) <= Limit
    BY DEF Accounted
  <2> HIDE DEF a, next
  <2>2. QED
    BY <1>2, <1>3, <1>4, <1>5, <2>1 DEF Accounted
<1>7. Cardinality(S) >= Limit
  BY <1>1, <1>2, <1>3, Parts
<1>8. QED
  BY <1>6, <1>7

Older(S) == {[p EXCEPT !.age = @ + 1] : p \in S}

LEMMA OlderNumber ==
    ASSUME NEW S, S \subseteq Passes, IsFiniteSet(S)
    PROVE  /\ IsFiniteSet(Older(S)) /\ Cardinality(Older(S)) = Cardinality(S)
           /\ Older(S) \subseteq Passes
<1> DEFINE f == [p \in S |-> [p EXCEPT !.age = @ + 1]]
<1>1. \A p \in S : /\ f[p] \in Passes /\ f[p].age = p.age + 1 /\ f[p].nth = p.nth
                   /\ p.age \in Nat
  BY DEF Passes
<1>2. \A p, q \in S : f[p] = f[q] => p = q
  <2> SUFFICES ASSUME NEW p \in S, NEW q \in S, f[p] = f[q] PROVE p = q
    OBVIOUS
  <2>1. f[p].age = f[q].age /\ f[p].nth = f[q].nth
    OBVIOUS
  <2> HIDE DEF f
  <2>2. p.age + 1 = q.age + 1 /\ p.nth = q.nth
    BY <1>1, <2>1
  <2>3. p.age = q.age /\ p.nth = q.nth
    BY <1>1, <2>2
  <2>4. QED
    BY <2>3 DEF Passes
<1>3. f \in Surjection(S, Older(S))
  BY DEF Surjection, Older
<1>4. f \in Injection(S, Older(S))
  BY <1>2, <1>3 DEF Surjection, Injection, IsInjective
<1>5. QED
  <2>1. IsFiniteSet(Older(S)) /\ Cardinality(Older(S)) = Cardinality(S)
    BY <1>3, <1>4, FS_Surjection
  <2>2. Older(S) \subseteq Passes
    BY <1>1 DEF Older
  <2>3. QED
    BY <2>1, <2>2

LEMMA NothingAccounted ==
    ASSUME NEW entry \in Entries, entry.age > Window
    PROVE  Accounted({}, entry)
<1>1. Within({}, entry.age) = {} /\ Before({}, entry.age) = {}
  BY DEF Within, Before
<1>2. Limit \in Nat /\ Window \in Nat /\ entry.age \in Nat
  BY RateLimiterAssumption DEF Entries, Timespans
<1>3. Cardinality({}) = 0 /\ IsFiniteSet({})
  BY FS_EmptySet
<1>4. QED
  BY <1>1, <1>2, <1>3 DEF Accounted

\* A tick: the entry and what it accounts for grow older together, and what is older
\* than a window is forgotten.
LEMMA WindowAges ==
    ASSUME NEW S, NEW entry \in Entries, Accounted(S, entry), entry.age <= 2 * Window
    PROVE  Accounted(Older({q \in S : q.age < Window}),
                     [count |-> entry.count, age |-> entry.age + 1])
<1> DEFINE a == entry.age
           Y == {q \in S : q.age < Window}
           next == [count |-> entry.count, age |-> a + 1]
<1>1. /\ Limit \in Nat \ {0} /\ Window \in Nat \ {0} /\ a \in Nat /\ entry.count \in Nat
      /\ S \subseteq Passes /\ IsFiniteSet(S)
  BY RateLimiterAssumption DEF Accounted, Entries, Timespans
<1>2. \A p \in Passes : /\ [p EXCEPT !.age = @ + 1].age = p.age + 1
                        /\ [p EXCEPT !.age = @ + 1].nth = p.nth
                        /\ p.age \in Nat /\ p.nth \in Nat
  BY DEF Passes
<1>3. Y \subseteq S /\ Y \subseteq Passes /\ IsFiniteSet(Y)
  BY <1>1, FS_Subset
<1>4. next.age = a + 1 /\ next.count = entry.count
  OBVIOUS
<1> HIDE DEF next
<1>5. Within(Older(Y), a + 1) = Older(Within(Y, a))
  <2>1. \A p \in Y : p.age + 1 <= a + 1 <=> p.age <= a
    BY <1>1, <1>2, <1>3
  <2> HIDE DEF Y, a
  <2>2. QED
    BY <1>2, <1>3, <2>1 DEF Within, Older
<1>6. Before(Older(Y), a + 1) = Older(Before(Y, a))
  <2>1. \A p \in Y : p.age + 1 > a + 1 <=> p.age > a
    BY <1>1, <1>2, <1>3
  <2> HIDE DEF Y, a
  <2>2. QED
    BY <1>2, <1>3, <2>1 DEF Before, Older
<1>7. /\ Within(Y, a) \subseteq Within(S, a) /\ Before(Y, a) \subseteq Before(S, a)
      /\ Within(S, a) \subseteq Passes /\ Before(S, a) \subseteq Passes
  BY <1>1 DEF Within, Before
<1>8. /\ IsFiniteSet(Within(S, a)) /\ IsFiniteSet(Before(S, a))
      /\ Cardinality(Within(S, a)) \in Nat /\ Cardinality(Before(S, a)) \in Nat
  BY <1>1, Parts
<1>9. /\ IsFiniteSet(Within(Y, a)) /\ Cardinality(Within(Y, a)) <= Cardinality(Within(S, a))
      /\ IsFiniteSet(Before(Y, a)) /\ Cardinality(Before(Y, a)) <= Cardinality(Before(S, a))
      /\ Cardinality(Within(Y, a)) \in Nat /\ Cardinality(Before(Y, a)) \in Nat
  BY <1>7, <1>8, FS_Subset, FS_CardinalityType
<1>10. /\ Cardinality(Older(Within(Y, a))) = Cardinality(Within(Y, a))
       /\ Cardinality(Older(Before(Y, a))) = Cardinality(Before(Y, a))
  <2>1. Within(Y, a) \subseteq Passes /\ Before(Y, a) \subseteq Passes
    BY <1>7
  <2>2. QED
    BY <1>9, <2>1, OlderNumber
<1>11. /\ Cardinality(Within(Older(Y), a + 1)) <= Limit
       /\ Cardinality(Before(Older(Y), a + 1)) <= Limit
  <2>1. Cardinality(Within(S, a)) <= Limit /\ Cardinality(Before(S, a)) <= Limit
    BY DEF Accounted
  <2>2. QED
    BY <1>1, <1>5, <1>6, <1>8, <1>9, <1>10, <2>1
<1>12. Older(Y) \subseteq Passes /\ IsFiniteSet(Older(Y))
  BY <1>3, OlderNumber
<1>13. \A p \in Older(Y) : p.age <= Window /\ p.age >= (a + 1) - Window
  <2>1. \A p \in Y : p.age < Window /\ p.age >= a - Window /\ p.age \in Nat
    BY <1>2, <1>3 DEF Accounted
  <2>2. \A p \in Y : p.age + 1 <= Window /\ p.age + 1 >= (a + 1) - Window
    BY <1>1, <2>1
  <2> HIDE DEF Y, a
  <2>3. QED
    BY <1>2, <1>3, <2>2 DEF Older
<1>14. ASSUME a + 1 <= Window
       PROVE  /\ Cardinality(Within(Older(Y), a + 1)) =
                    IF entry.count <= Limit THEN entry.count ELSE Limit
              /\ \A p \in Within(Older(Y), a + 1) : p.nth <= entry.count
  <2>1. a <= Window
    BY <1>1, <1>14
  <2>2. Within(Y, a) = Within(S, a)
    <3>1. \A p \in S : p.age <= a => p.age < Window
      BY <1>1, <1>2, <1>14
    <3> HIDE DEF a
    <3>2. QED
      BY <3>1 DEF Within
  <2>3. /\ Cardinality(Within(S, a)) =
             IF entry.count <= Limit THEN entry.count ELSE Limit
        /\ \A p \in Within(S, a) : p.nth <= entry.count
    BY <2>1 DEF Accounted
  <2>4. \A p \in Older(Within(Y, a)) : p.nth <= entry.count
    <3>1. \A p \in Within(Y, a) : p \in Passes /\ p.nth <= entry.count
      BY <1>7, <2>2, <2>3
    <3> HIDE DEF Y, a
    <3>2. QED
      BY <1>2, <3>1 DEF Older
  <2>5. QED
    BY <1>5, <1>10, <2>2, <2>3, <2>4
<1> HIDE DEF Y, a
<1>15. Accounted(Older(Y), next)
  <2>1. next.age <= Window =>
          /\ Cardinality(Within(Older(Y), next.age)) =
                IF next.count <= Limit THEN next.count ELSE Limit
          /\ \A p \in Within(Older(Y), next.age) : p.nth <= next.count
    BY <1>4, <1>14
  <2>2. \A p \in Older(Y) : p.age <= Window /\ p.age >= next.age - Window
    BY <1>4, <1>13
  <2>3. /\ Cardinality(Within(Older(Y), next.age)) <= Limit
        /\ Cardinality(Before(Older(Y), next.age)) <= Limit
    BY <1>4, <1>11
  <2>4. QED
    BY <1>12, <2>1, <2>2, <2>3 DEF Accounted
<1>16. QED
  BY <1>15 DEF Y, a, next

LEMMA LimiterStart == LimiterInit => LimiterInv
<1> SUFFICES ASSUME LimiterInit PROVE LimiterInv
  OBVIOUS
<1>1. windows = <<>> /\ Held = {}
  BY DEF LimiterInit, Held
<1>2. LimiterTypeOK
  <2>1. windows \in [{} -> Entries] /\ DOMAIN windows = {}
    BY <1>1
  <2>2. inserts \in 0 .. SweepEvery - 1
    BY RateLimiterAssumption DEF LimiterInit
  <2>3. QED
    BY <2>1, <2>2 DEF LimiterInit, LimiterTypeOK, Entries
<1>3. passed \in [Keys -> SUBSET Passes] /\ \A k \in Keys : passed[k] = {}
  BY DEF LimiterInit
<1>4. RefusedAtTheLimit
  BY DEF LimiterInit, RefusedAtTheLimit
<1>5. IsFiniteSet(Held) /\ Cardinality(Held) <= MaxClients
  BY <1>1, FS_EmptySet, RateLimiterAssumption
<1>6. QED
  BY <1>1, <1>2, <1>3, <1>4, <1>5 DEF LimiterInv

LEMMA Sweeping ==
    ASSUME LimiterInv, NEW k \in Held, k \notin DOMAIN Swept(windows)
    PROVE  passed[k] = {}
<1>1. windows[k] \in Entries /\ Accounted(passed[k], windows[k])
  BY DEF LimiterInv, LimiterTypeOK, Held, Entries
<1>2. ~(windows[k].age <= 2 * Window)
  BY DEF Swept, Restrict, Held
<1>3. windows[k].age > 2 * Window
  BY <1>1, <1>2, RateLimiterAssumption DEF Entries, Timespans
<1>4. QED
  BY <1>1, <1>3, NothingLeft

LEMMA Sweeps ==
    ASSUME LimiterInv
    PROVE  /\ DOMAIN Swept(windows) \subseteq Held
           /\ \A k \in DOMAIN Swept(windows) : Swept(windows)[k] = windows[k]
           /\ Swept(windows) \in [DOMAIN Swept(windows) -> Entries]
  BY DEF Swept, Restrict, Held, LimiterInv, LimiterTypeOK, Entries

\* A request of a key that is held, counted into its window or starting one.
LEMMA OneEntryChanges ==
    ASSUME LimiterInv, NEW k \in Held, NEW entry \in Entries, NEW S \in SUBSET Passes,
           windows' = Entered(windows, k, entry.count, entry.age),
           passed' = [j \in Keys |-> IF j = k THEN S ELSE passed[j]],
           Accounted(S, entry), UNCHANGED inserts,
           turned' \subseteq {k}, turned' = {k} => Cardinality(S) >= Limit
    PROVE  LimiterInv'
<1>1. /\ windows \in [Held -> Entries] /\ Held \subseteq Keys /\ k \in Keys
      /\ passed \in [Keys -> SUBSET Passes]
  BY DEF LimiterInv, LimiterTypeOK, Held, Entries
<1>2. Held' = Held
  <2>1. DOMAIN windows' = Held \cup {k}
    BY DEF Entered, Held
  <2>2. QED
    BY <2>1 DEF Held
<1>3. /\ windows'[k] = entry /\ \A j \in Held \ {k} : windows'[j] = windows[j]
      /\ windows' \in [Held -> Entries]
  <2>1. [count |-> entry.count, age |-> entry.age] = entry
    BY DEF Entries
  <2>2. QED
    BY <1>1, <2>1 DEF Entered, Held
<1>4. /\ passed' \in [Keys -> SUBSET Passes] /\ passed'[k] = S
      /\ \A j \in Keys \ {k} : passed'[j] = passed[j]
  BY <1>1
<1>5. LimiterTypeOK'
  BY <1>1, <1>2, <1>3 DEF LimiterInv, LimiterTypeOK, Held, Entries
<1>6. \A j \in Held' : Accounted(passed'[j], windows'[j])
  <2>1. \A j \in Held \ {k} : Accounted(passed'[j], windows'[j])
    BY <1>1, <1>3, <1>4 DEF LimiterInv
  <2>2. QED
    BY <1>2, <1>3, <1>4, <2>1
<1>7. \A j \in Keys \ Held' : passed'[j] = {}
  BY <1>2, <1>4 DEF LimiterInv
<1>8. RefusedAtTheLimit'
  BY <1>4 DEF RefusedAtTheLimit
<1>9. QED
  BY <1>2, <1>4, <1>5, <1>6, <1>7, <1>8 DEF LimiterInv

LEMMA FirstRequestKeeps ==
    ASSUME LimiterInv, NEW k \in Keys, FirstRequest(k)
    PROVE  LimiterInv'
<1> DEFINE table == IF (inserts + 1) % SweepEvery = 0 THEN Swept(windows) ELSE windows
           entry == [count |-> 1, age |-> 0]
<1>1. /\ windows \in [Held -> Entries] /\ Held \subseteq Keys /\ inserts \in Nat
      /\ passed \in [Keys -> SUBSET Passes] /\ IsFiniteSet(Held)
      /\ Cardinality(Held) <= MaxClients
      /\ {Limit, Window, MaxClients, SweepEvery} \subseteq Nat \ {0}
  BY RateLimiterAssumption DEF LimiterInv, LimiterTypeOK, Held, Entries
<1>2. k \notin Held /\ inserts' = (inserts + 1) % SweepEvery
  BY DEF FirstRequest
<1>3. PICK out \in Evicted(table) :
        /\ windows' = Entered(Restrict(table, DOMAIN table \ out), k, 1, 0)
        /\ Passing(k, 1, out)
  BY DEF FirstRequest
<1>4. /\ DOMAIN table \subseteq Held /\ \A j \in DOMAIN table : table[j] = windows[j]
      /\ \A j \in Held \ DOMAIN table : passed[j] = {}
  <2>1. CASE table = Swept(windows)
    BY <2>1, Sweeps, Sweeping
  <2>2. CASE table = windows
    BY <2>2 DEF Held
  <2>3. QED
    BY <2>1, <2>2
<1> HIDE DEF table
<1> DEFINE kept == DOMAIN table \ out
<1>5. /\ DOMAIN windows' = kept \cup {k} /\ windows'[k] = entry
      /\ \A j \in kept : windows'[j] = windows[j]
  BY <1>2, <1>3, <1>4 DEF Entered, Restrict
<1>6. /\ passed' = [j \in Keys |-> IF j = k THEN passed[j] \cup {[age |-> 0, nth |-> 1]}
                                   ELSE IF j \in out THEN {} ELSE passed[j]]
      /\ turned' = {}
  BY <1>3 DEF Passing
<1>7. passed[k] = {}
  BY <1>2 DEF LimiterInv
<1>8. Accounted({First}, entry) /\ First \in Passes /\ entry \in Entries
  <2>1. IsFiniteSet({}) /\ Cardinality({}) = 0
    BY FS_EmptySet
  <2>2. Accounted({} \cup {First}, entry)
    BY <1>1, <2>1, WindowBegins
  <2>3. {} \cup {First} = {First}
    OBVIOUS
  <2>4. First \in Passes /\ entry \in Entries
    BY <1>1 DEF First, Passes, Entries, Timespans
  <2>5. QED
    BY <2>2, <2>3, <2>4
<1>9. passed'[k] = {First}
  BY <1>6, <1>7 DEF First
<1>10. /\ \A j \in kept : passed'[j] = passed[j]
       /\ \A j \in Keys \ (kept \cup {k}) : passed'[j] = {}
  <2>1. \A j \in kept : passed'[j] = passed[j]
    BY <1>1, <1>2, <1>4, <1>6
  <2>2. \A j \in Keys \ Held : passed[j] = {}
    BY DEF LimiterInv
  <2>3. \A j \in Keys \ (kept \cup {k}) : passed'[j] = {}
    BY <1>4, <1>6, <2>2
  <2>4. QED
    BY <2>1, <2>3
<1>11. kept \cup {k} \subseteq Keys /\ kept \subseteq Held
  BY <1>1, <1>4
<1>12. IsFiniteSet(kept) /\ Cardinality(kept) < MaxClients /\ Cardinality(kept) \in Nat
  <2>1. /\ IsFiniteSet(DOMAIN table) /\ Cardinality(DOMAIN table) <= Cardinality(Held)
        /\ Cardinality(DOMAIN table) \in Nat /\ Cardinality(Held) \in Nat
    BY <1>1, <1>4, FS_Subset, FS_CardinalityType
  <2>2. CASE Cardinality(DOMAIN table) < MaxClients
    <3>1. out = {}
      BY <1>3, <2>2 DEF Evicted
    <3>2. kept = DOMAIN table
      BY <3>1
    <3>3. QED
      BY <2>1, <2>2, <3>2
  <2>3. CASE ~(Cardinality(DOMAIN table) < MaxClients)
    <3>1. PICK j \in DOMAIN table : out = {j}
      BY <1>3, <2>3 DEF Evicted
    <3>2. kept = DOMAIN table \ {j}
      BY <3>1
    <3>3. IsFiniteSet(kept) /\ Cardinality(kept) = Cardinality(DOMAIN table) - 1
      BY <2>1, <3>2, FS_RemoveElement
    <3>4. Cardinality(kept) \in Nat
      BY <3>3, FS_CardinalityType
    <3>5. QED
      BY <1>1, <2>1, <3>3, <3>4
  <2>4. QED
    BY <2>2, <2>3
<1>13. k \notin kept
  BY <1>2, <1>11
<1> HIDE DEF kept, entry
<1>14. IsFiniteSet(Held') /\ Cardinality(Held') <= MaxClients
  <2>1. Held' = kept \cup {k}
    BY <1>5 DEF Held
  <2>2. /\ IsFiniteSet(kept \cup {k})
        /\ Cardinality(kept \cup {k}) = Cardinality(kept) + 1
    BY <1>12, <1>13, FS_AddElement
  <2>3. QED
    BY <1>1, <1>12, <2>1, <2>2
<1>15. LimiterTypeOK'
  <2>1. windows' \in [kept \cup {k} -> Entries]
    <3>1. windows' = [j \in kept \cup {k} |-> windows'[j]]
      BY <1>3, <1>5 DEF Entered
    <3>2. \A j \in kept \cup {k} : windows'[j] \in Entries
      BY <1>1, <1>5, <1>8, <1>11
    <3>3. QED
      BY <3>1, <3>2
  <2>2. inserts' \in 0 .. SweepEvery - 1
    BY <1>1, <1>2
  <2>3. QED
    BY <1>5, <1>6, <1>11, <2>1, <2>2 DEF LimiterTypeOK, Entries
<1>16. passed' \in [Keys -> SUBSET Passes]
  <2>1. \A j \in Keys : passed'[j] \subseteq Passes
    BY <1>1, <1>8, <1>9, <1>10, <1>11
  <2>2. passed' = [j \in Keys |-> passed'[j]]
    BY <1>6
  <2>3. QED
    BY <2>1, <2>2
<1>17. \A j \in Held' : Accounted(passed'[j], windows'[j])
  <2>1. \A j \in kept : Accounted(passed'[j], windows'[j])
    BY <1>5, <1>10, <1>11 DEF LimiterInv
  <2>2. QED
    BY <1>5, <1>8, <1>9, <2>1 DEF Held
<1>18. \A j \in Keys \ Held' : passed'[j] = {}
  BY <1>5, <1>10 DEF Held
<1>19. RefusedAtTheLimit'
  BY <1>6 DEF RefusedAtTheLimit
<1>20. QED
  BY <1>14, <1>15, <1>16, <1>17, <1>18, <1>19 DEF LimiterInv

LEMMA NewWindowKeeps ==
    ASSUME LimiterInv, NEW k \in Keys, NewWindow(k)
    PROVE  LimiterInv'
<1> DEFINE S == passed[k]
           a == windows[k].age
           entry == [count |-> 1, age |-> 0]
<1>1. /\ k \in Held /\ a > Window /\ windows' = Entered(windows, k, 1, 0)
      /\ Passing(k, 1, {}) /\ UNCHANGED inserts
  BY DEF NewWindow, Over
<1>2. /\ windows[k] \in Entries /\ Accounted(S, windows[k]) /\ passed \in [Keys -> SUBSET Passes]
      /\ Window \in Nat \ {0} /\ Limit \in Nat \ {0}
  BY <1>1, RateLimiterAssumption DEF LimiterInv, LimiterTypeOK, Held, Entries
<1>3. a \in Nat /\ S \subseteq Passes /\ IsFiniteSet(S)
  BY <1>2 DEF Entries, Timespans, Accounted
<1>4. \A p \in S : p.age \in 1 .. Window
  <2>1. \A p \in S : p.age \in Nat /\ p.age <= Window /\ p.age >= a - Window
    BY <1>2, <1>3 DEF Accounted, Passes
  <2>2. a - Window >= 1
    BY <1>1, <1>2, <1>3
  <2> HIDE DEF a, S
  <2>3. QED
    BY <1>2, <1>3, <2>1, <2>2
<1>5. Within(S, a) = S
  <2>1. \A p \in S : p.age <= a
    BY <1>1, <1>2, <1>3, <1>4
  <2> HIDE DEF a, S
  <2>2. QED
    BY <2>1 DEF Within
<1>6. Cardinality(S) <= Limit
  BY <1>2, <1>5 DEF Accounted
<1> HIDE DEF S
<1>7. Accounted(S \cup {First}, entry) /\ S \cup {First} \in SUBSET Passes
  <2>1. Accounted(S \cup {First}, entry)
    BY <1>3, <1>4, <1>6, WindowBegins
  <2>2. QED
    BY <2>1 DEF Accounted
<1>8. /\ passed' = [j \in Keys |-> IF j = k THEN S \cup {First} ELSE passed[j]]
      /\ turned' = {}
  BY <1>1 DEF Passing, First, S
<1>9. entry \in Entries /\ entry.count = 1 /\ entry.age = 0
  BY <1>2 DEF Entries, Timespans
<1> HIDE DEF entry
<1>10. /\ windows' = Entered(windows, k, entry.count, entry.age) /\ UNCHANGED inserts
       /\ turned' \subseteq {k} /\ turned' # {k}
  BY <1>1, <1>8, <1>9
<1>11. QED
  BY <1>1, <1>7, <1>8, <1>9, <1>10, OneEntryChanges

LEMMA SameWindowKeeps ==
    ASSUME LimiterInv, NEW k \in Keys, SameWindow(k)
    PROVE  LimiterInv'
<1> DEFINE S == passed[k]
           a == windows[k].age
           n == windows[k].count + 1
<1>1. /\ k \in Held /\ ~(a > Window) /\ UNCHANGED inserts
      /\ windows' = Entered(windows, k, Min({n, Limit + 2}), a)
      /\ IF Counted(n) THEN Passing(k, n, {}) ELSE turned' = {k} /\ UNCHANGED passed
  BY DEF SameWindow, Over
<1>2. /\ windows[k] \in Entries /\ Accounted(S, windows[k])
      /\ passed \in [Keys -> SUBSET Passes]
      /\ Window \in Nat \ {0} /\ Limit \in Nat \ {0}
  BY <1>1, RateLimiterAssumption DEF LimiterInv, LimiterTypeOK, Held, Entries
<1>3. a \in Timespans /\ a \in Nat /\ a <= Window /\ n \in 2 .. Limit + 3
  BY <1>1, <1>2 DEF Entries, Timespans
<1>4. Min({n, Limit + 2}) = IF n <= Limit + 2 THEN n ELSE Limit + 2
  BY <1>2, <1>3, LeastOfTwo
<1> DEFINE m == Min({n, Limit + 2})
           entry == [count |-> m, age |-> a]
<1>5. m \in 1 .. Limit + 2 /\ m \in Nat
  BY <1>2, <1>3, <1>4
<1>6. entry \in Entries /\ entry.count = m /\ entry.age = a
  BY <1>3, <1>5 DEF Entries
<1>7. CASE Counted(n)
  <2>1. n <= Limit /\ m = n
    BY <1>2, <1>3, <1>4, <1>7 DEF Counted
  <2> DEFINE T == S \cup {[age |-> 0, nth |-> n]}
  <2>2. Accounted(T, [count |-> n, age |-> a])
    BY <1>2, <1>3, <2>1, WindowGoesOn
  <2>3. entry = [count |-> n, age |-> a]
    BY <2>1
  <2>4. Accounted(T, entry)
    BY <2>2, <2>3
  <2>5. /\ passed' = [j \in Keys |-> IF j = k THEN T ELSE passed[j]]
        /\ turned' = {}
    BY <1>1, <1>7 DEF Passing
  <2>6. T \in SUBSET Passes
    BY <2>4 DEF Accounted
  <2> HIDE DEF entry, T, m, n
  <2>7. turned' \subseteq {k} /\ turned' # {k}
    BY <2>5
  <2>8. windows' = Entered(windows, k, entry.count, entry.age)
    BY <1>1, <1>6 DEF m
  <2>9. QED
    BY <1>1, <1>6, <2>4, <2>5, <2>6, <2>7, <2>8, OneEntryChanges
<1>8. CASE ~Counted(n)
  <2>1. ~(n <= Limit) /\ m > Limit
    BY <1>2, <1>3, <1>4, <1>8 DEF Counted
  <2>2. Accounted(S, entry) /\ Cardinality(S) >= Limit
    BY <1>2, <1>3, <1>5, <2>1, WindowIsFull
  <2>3. turned' = {k} /\ passed' = passed
    BY <1>1, <1>8
  <2>4. S \in SUBSET Passes /\ passed' = [j \in Keys |-> IF j = k THEN S ELSE passed[j]]
    BY <1>2, <2>3
  <2> HIDE DEF entry, S, m, n
  <2>5. windows' = Entered(windows, k, entry.count, entry.age)
    BY <1>1, <1>6 DEF m
  <2>6. QED
    BY <1>1, <1>6, <2>2, <2>3, <2>4, <2>5, OneEntryChanges
<1>9. QED
  BY <1>7, <1>8

LEMMA SweepKeeps ==
    ASSUME LimiterInv, Sweep
    PROVE  LimiterInv'
<1>1. windows' = Swept(windows) /\ turned' = {} /\ UNCHANGED <<inserts, passed>>
  BY DEF Sweep
<1>2. /\ Held' \subseteq Held /\ \A k \in Held' : windows'[k] = windows[k]
      /\ windows' \in [Held' -> Entries]
  BY <1>1, Sweeps DEF Held
<1>3. /\ IsFiniteSet(Held) /\ Cardinality(Held) <= MaxClients /\ MaxClients \in Nat
      /\ Held \subseteq Keys
  BY RateLimiterAssumption DEF LimiterInv, LimiterTypeOK, Held
<1>4. IsFiniteSet(Held') /\ Cardinality(Held') <= MaxClients
  <2>1. /\ IsFiniteSet(Held') /\ Cardinality(Held') <= Cardinality(Held)
        /\ Cardinality(Held') \in Nat /\ Cardinality(Held) \in Nat
    BY <1>2, <1>3, FS_Subset, FS_CardinalityType
  <2>2. QED
    BY <1>3, <2>1
<1>5. \A k \in Keys \ Held' : passed'[k] = {}
  <2>1. \A k \in Held \ Held' : passed[k] = {}
    BY <1>1, Sweeping DEF Held
  <2>2. QED
    BY <1>1, <2>1 DEF LimiterInv
<1>6. LimiterTypeOK'
  BY <1>1, <1>2, <1>3 DEF LimiterInv, LimiterTypeOK, Held, Entries
<1>7. \A k \in Held' : Accounted(passed'[k], windows'[k])
  BY <1>1, <1>2 DEF LimiterInv
<1>8. RefusedAtTheLimit'
  BY <1>1 DEF RefusedAtTheLimit
<1>9. QED
  BY <1>1, <1>4, <1>5, <1>6, <1>7, <1>8 DEF LimiterInv

LEMMA TimePassesKeeps ==
    ASSUME LimiterInv, TimePasses
    PROVE  LimiterInv'
<1>1. /\ windows \in [Held -> Entries] /\ Held \subseteq Keys
      /\ passed \in [Keys -> SUBSET Passes] /\ Window \in Nat \ {0}
  BY RateLimiterAssumption DEF LimiterInv, LimiterTypeOK, Held, Entries
<1>2. /\ windows' = [k \in Held |-> [windows[k] EXCEPT !.age = Min({@ + 1, 2 * Window + 1})]]
      /\ passed' = [k \in Keys |-> Older({q \in passed[k] : q.age < Window})]
      /\ turned' = {} /\ UNCHANGED inserts
  BY DEF TimePasses, Older
<1>3. Held' = Held
  BY <1>2 DEF Held
<1>4. ASSUME NEW k \in Held
      PROVE  windows'[k] \in Entries /\ Accounted(passed'[k], windows'[k])
  <2>1. /\ windows[k] \in Entries /\ Accounted(passed[k], windows[k])
        /\ windows[k].age \in 0 .. 2 * Window + 1
    BY <1>1 DEF LimiterInv, Entries, Timespans
  <2>2. Min({windows[k].age + 1, 2 * Window + 1}) =
          IF windows[k].age + 1 <= 2 * Window + 1 THEN windows[k].age + 1
          ELSE 2 * Window + 1
    BY <1>1, <2>1, LeastOfTwo
  <2>3. windows'[k] = [windows[k] EXCEPT !.age = Min({windows[k].age + 1, 2 * Window + 1})]
    BY <1>2
  <2>4. CASE windows[k].age <= 2 * Window
    <3>1. windows'[k] = [count |-> windows[k].count, age |-> windows[k].age + 1]
      BY <1>1, <2>1, <2>2, <2>3, <2>4 DEF Entries
    <3>2. windows'[k] \in Entries
      BY <1>1, <2>1, <2>4, <3>1 DEF Entries, Timespans
    <3>3. passed'[k] = Older({q \in passed[k] : q.age < Window})
      BY <1>1, <1>2
    <3>4. QED
      BY <2>1, <2>4, <3>1, <3>2, <3>3, WindowAges
  <2>5. CASE ~(windows[k].age <= 2 * Window)
    <3>1. windows[k].age = 2 * Window + 1 /\ windows[k].age > 2 * Window
      BY <1>1, <2>1, <2>5
    <3>2. passed[k] = {}
      BY <2>1, <3>1, NothingLeft
    <3>3. passed'[k] = {}
      BY <1>1, <1>2, <3>2 DEF Older
    <3>4. windows'[k] \in Entries /\ windows'[k].age = 2 * Window + 1
      BY <1>1, <2>1, <2>2, <2>3, <3>1 DEF Entries, Timespans
    <3>5. windows'[k].age > Window
      BY <1>1, <3>4
    <3>6. QED
      BY <3>3, <3>4, <3>5, NothingAccounted
  <2>6. QED
    BY <2>4, <2>5
<1>5. \A k \in Keys \ Held' : passed'[k] = {}
  <2>1. \A k \in Keys \ Held : passed[k] = {}
    BY DEF LimiterInv
  <2>2. QED
    BY <1>2, <1>3, <2>1 DEF Older
<1>6. LimiterTypeOK'
  <2>1. windows' \in [Held -> Entries]
    <3>1. windows' = [k \in Held |-> windows'[k]]
      BY <1>2
    <3>2. QED
      BY <1>4, <3>1
  <2>2. QED
    BY <1>1, <1>2, <1>3, <2>1 DEF LimiterInv, LimiterTypeOK, Held, Entries
<1>7. passed' \in [Keys -> SUBSET Passes]
  <2>1. \A k \in Keys : passed'[k] \subseteq Passes
    BY <1>1, <1>3, <1>4, <1>5 DEF Accounted
  <2>2. QED
    BY <1>2, <2>1
<1>8. RefusedAtTheLimit'
  BY <1>2 DEF RefusedAtTheLimit
<1>9. QED
  BY <1>3, <1>4, <1>5, <1>6, <1>7, <1>8 DEF LimiterInv

LEMMA LimiterKeepsInv ==
    ASSUME LimiterInv, [LimiterNext]_limits
    PROVE  LimiterInv'
<1>1. CASE LimiterNext
  BY <1>1, FirstRequestKeeps, NewWindowKeeps, SameWindowKeeps, SweepKeeps, TimePassesKeeps
     DEF LimiterNext
<1>2. CASE UNCHANGED limits
  BY <1>2 DEF limits, LimiterInv, LimiterTypeOK, RefusedAtTheLimit, Held
<1>3. QED
  BY <1>1, <1>2

LEMMA LimiterInvHolds ==
    LimiterInv => LimiterTypeOK /\ LimitHolds
<1> SUFFICES ASSUME LimiterInv PROVE NeverTwice
  BY DEF LimiterInv, LimitHolds
<1> SUFFICES ASSUME NEW k \in Keys PROVE Cardinality(passed[k]) <= 2 * Limit
  BY DEF NeverTwice
<1>1. Limit \in Nat
  BY RateLimiterAssumption
<1>2. CASE k \in Held
  <2>1. windows[k] \in Entries /\ Accounted(passed[k], windows[k])
    BY <1>2 DEF LimiterInv, LimiterTypeOK, Held, Entries
  <2>2. QED
    BY <2>1, NeverTwiceOne
<1>3. CASE k \notin Held
  <2>1. Cardinality(passed[k]) = 0
    BY <1>3, FS_EmptySet DEF LimiterInv
  <2>2. QED
    BY <1>1, <2>1
<1>4. QED
  BY <1>2, <1>3


-----------------------------------------------------------------------------
(* A behaviour is of one component, and the others rest. *)

LimitsInv == LockoutInv /\ MagicLinksInv /\ LimiterInv
RolesInv == MembershipsInv /\ AccessInv

\* Neither a step of its component nor one of another breaks an invariant.
LEMMA PeopleKeepsInv ==
    ASSUME AccountsInv, LimitsInv, RolesInv,
           [PeopleNext]_<<focus, accountsVars, lockoutVars, linkVars, membershipVars,
                          access, limits>>
    PROVE  AccountsInv' /\ LimitsInv' /\ RolesInv'
<1>1. /\ [AccountsNext]_accountsVars /\ [LockoutNext]_lockoutVars
      /\ [MagicLinksNext]_linkVars /\ [MembershipsNext]_membershipVars
      /\ [AccessNext]_access /\ [LimiterNext]_limits
  BY DEF PeopleNext
<1>2. AccountsInv'
  BY <1>1, AccountsKeepsInv
<1>3. LockoutInv' /\ MagicLinksInv' /\ LimiterInv'
  BY <1>1, LockoutKeepsInv, MagicLinksKeepsInv, LimiterKeepsInv DEF LimitsInv
<1>4. MembershipsInv' /\ AccessInv'
  BY <1>1, MembershipsKeepsInv, AccessKeepsInv DEF RolesInv
<1>5. QED
  BY <1>2, <1>3, <1>4 DEF LimitsInv, RolesInv

LEMMA PeopleInvIsInductive ==
    PeopleSpec => [](AccountsInv /\ LimitsInv /\ RolesInv)
<1>1. PeopleInit => AccountsInv /\ LimitsInv /\ RolesInv
  BY AccountsStart, LockoutStart, MagicLinksStart, LimiterStart, MembershipsStart,
     AccessStart DEF PeopleInit, LimitsInv, RolesInv
<1>2. /\ AccountsInv /\ LimitsInv /\ RolesInv
      /\ [PeopleNext]_<<focus, accountsVars, lockoutVars, linkVars, membershipVars,
                        access, limits>>
      => (AccountsInv /\ LimitsInv /\ RolesInv)'
  BY PeopleKeepsInv
<1>3. QED
  BY <1>1, <1>2, PTL DEF PeopleSpec

\* A refresh token is exchanged once, none outlives a change of the password but by a
\* race, and a login leaves no more web sessions than the limit and the logins beside
\* it (service/auth.go, repository/websession.go).
THEOREM CredentialsAreEnded == PeopleSpec => []CredentialsHold
<1>1. AccountsInv => CredentialsHold
  BY AccountsInvHolds DEF CredentialsHold
<1>2. QED
  BY <1>1, PeopleInvIsInductive, PTL

\* However checks and records interleave, magic links by mail and requests of a key
\* stay within the limit and the requests that were let in together; so do guesses of a
\* password, failed records aside, but only until a lock has run out that no login has
\* cleared; a link opens one session, and a refusal is of one who had the limit
\* (login_attempt.go, magic_link.go, middleware/security.go).
THEOREM LimitsAreKept == PeopleSpec => []LimitsHold
<1>1. LimitsInv => LimitsHold
  BY LockoutInvHolds, MagicLinksInvHolds, LimiterInvHolds DEF LimitsInv, LimitsHold
<1>2. QED
  BY <1>1, PeopleInvIsInductive, PTL

\* A gym keeps an administrator, whoever changes or removes memberships at the same
\* time, and every answer agrees with what its user was at some moment of the request
\* (handler/membership.go, middleware/authorize.go, middleware/websession.go).
THEOREM RolesAreKept == PeopleSpec => []RolesHold
<1>1. RolesInv => RolesHold
  BY MembershipsInvHolds, AccessInvHolds DEF RolesInv, RolesHold
<1>2. QED
  BY <1>1, PeopleInvIsInductive, PTL
=============================================================================
