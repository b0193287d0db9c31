------------------------- MODULE ProvisioningProofs -------------------------
(***************************************************************************)
(* Proofs about Provisioning, for any number of callbacks, accounts and    *)
(* users: an account stays one user, users are shared only by verified     *)
(* addresses, a verified address leads to one user, and no user is out of  *)
(* reach.                                                                  *)
(*                                                                         *)
(* The constraints of the two tables give uniqueness; what they do not     *)
(* give is that a row tells how it came about: an identity that came with  *)
(* a verified address belongs to the user of that address, and any other   *)
(* has a user to itself, under a synthetic address nobody can prove.       *)
(***************************************************************************)
EXTENDS Provisioning, TLAPS, WellFoundedInduction

\* The address the user of an identity has.
HomeAddress(r) == IF VerifiedEmail(r) # Empty THEN VerifiedEmail(r) ELSE SyntheticEmail[Key(r)]

\* The provider has vouched for the address a report or a row counts as
\* verified, if there is one.
Proved(r) == VerifiedEmail(r) # Empty => <<Key(r), VerifiedEmail(r)>> \in vouched

\* What a callback knows at each point of its run.
CallbackKnows(p) ==
    /\ pc[p] # "idle" => /\ report[p] \in Identity
                         /\ Key(report[p]) \in AccountKeys
                         /\ Proved(report[p])
    /\ pc[p] \in {"byEmail", "link"} => VerifiedEmail(report[p]) # Empty
    /\ pc[p] = "link" => /\ target[p] \in Users
                         /\ emails[target[p]] = VerifiedEmail(report[p])

\* Providers vouch for the addresses accounts have.
VouchedIsReal == \A v \in vouched : \E a \in Accounts : v[2] \in Vouched(a)

\* A row tells how it came about.
RowStands(i) == Key(i) \in AccountKeys /\ Proved(i) /\ emails[i.user] = HomeAddress(i)

\* unique (provider, provider_subject) and unique (user_id, provider).
UniqueRows ==
    \A i, j \in identities :
        Key(i) = Key(j) \/ (i.user = j.user /\ i.provider = j.provider) => i = j

\* unique (email).
UniqueAddresses ==
    \A u, v \in Users : emails[u] # NoUser /\ emails[u] = emails[v] => u = v

\* Who shares a user has come to it by a verified address.
SharedIsVerified ==
    \A i, j \in identities : i # j /\ i.user = j.user => VerifiedEmail(i) # Empty

\* Every sign-in went on as the user of its identity's row.
AnswersStand ==
    \A a \in answers : \E i \in identities : Key(i) = a[1] /\ i.user = a[2]

\* The whole invariant.
ProvisionInv ==
    /\ TypeOK
    /\ \A p \in Procs : CallbackKnows(p)
    /\ VouchedIsReal
    /\ \A i \in identities : RowStands(i)
    /\ UniqueRows
    /\ UniqueAddresses
    /\ SharedIsVerified
    /\ AnswersStand
    /\ NoUserWithoutIdentity

-----------------------------------------------------------------------------
(* Client.Exchange.                                                        *)

\* Whoever takes the first of some entries of a list takes one of them.
LEMMA MinIsMember ==
    ASSUME NEW S \in SUBSET Nat, S # {} PROVE Min(S) \in S
  <1> DEFINE less == OpToRel(<, Nat)
  <1>1. IsWellFoundedOn(less, Nat)
    BY NatLessThanWellFounded
  <1>2. \A x, y \in Nat : <<y, x>> \in less <=> y < x
    BY DEF OpToRel
  <1> HIDE DEF less
  <1>3. PICK x \in S : \A y \in S : ~(<<y, x>> \in less)
    BY <1>1, WFMin
  <1>4. ASSUME NEW y \in S PROVE x <= y
    <2>1. x \in Nat /\ y \in Nat
      OBVIOUS
    <2>2. ~(y < x)
      BY <1>2, <1>3, <2>1
    <2> QED
      BY <2>1, <2>2
  <1> QED
    BY <1>4 DEF Min

\* Exchange reports the account under its own key, and as verified only an
\* address its provider vouches for, whatever order the list comes in and
\* whether or not it could be fetched.
LEMMA ExchangeReports ==
    ASSUME NEW a \in Accounts, NEW r \in Exchange(a)
    PROVE  /\ r \in Identity /\ Key(r) = Key(a)
           /\ r.verified => r.email \in Vouched(a)
  <1>a. a \in Account
    BY AccountsAssumption
  <1>1. CASE a.provider = "google"
    <2>1. r = exchangeOIDC(a)
      BY <1>1 DEF Exchange
    <2> QED
      BY <1>a, <1>1, <2>1 DEF exchangeOIDC, Account, Identity, Key, Vouched
  <1>2. CASE a.provider # "google"
    <2>1. PICK lost \in BOOLEAN : r = exchangeGitHub(a, lost)
      BY <1>2 DEF Exchange
    <2> DEFINE proved == {n \in DOMAIN a.listed : ~lost /\ a.listed[n].verified}
               primary == {n \in proved : a.listed[n].primary}
               chosen == IF primary # {} THEN primary ELSE IF a.email = Empty THEN proved ELSE {}
               some == chosen # {}
    <2>2. /\ a.listed \in Seq(Address) /\ a.provider \in {"google", "github"}
          /\ a.subject \in STRING /\ a.email \in STRING
      BY <1>a DEF Account
    <2>3. chosen \subseteq proved /\ proved \subseteq DOMAIN a.listed /\ some \in BOOLEAN
      OBVIOUS
    <2>4. chosen \in SUBSET Nat
      BY <2>2, <2>3
    <2>5. some => Min(chosen) \in chosen
      <3> HIDE DEF chosen
      <3> QED
        BY <2>4, MinIsMember
    <2>6. r = [provider |-> a.provider, subject |-> a.subject,
               email |-> IF some THEN a.listed[Min(chosen)].email ELSE a.email,
               verified |-> some]
      BY <2>1 DEF exchangeGitHub
    <2>7. some => /\ Min(chosen) \in DOMAIN a.listed /\ a.listed[Min(chosen)].verified
                  /\ a.listed[Min(chosen)].email \in STRING
      <3>1. SUFFICES ASSUME some
                     PROVE  /\ Min(chosen) \in DOMAIN a.listed /\ a.listed[Min(chosen)].verified
                            /\ a.listed[Min(chosen)].email \in STRING
        OBVIOUS
      <3>2. Min(chosen) \in proved
        BY <2>3, <2>5, <3>1
      <3>3. Min(chosen) \in DOMAIN a.listed /\ a.listed[Min(chosen)].verified
        BY <3>2
      <3>4. \A n \in DOMAIN a.listed : a.listed[n] \in Address
        BY <2>2
      <3> QED
        BY <3>3, <3>4 DEF Address
    <2> DEFINE k == Min(chosen)
    <2>8. some => a.listed[k].email \in Vouched(a)
      BY <1>2, <2>7 DEF Vouched
    <2> HIDE DEF k, some, chosen
    <2>9. r = [provider |-> a.provider, subject |-> a.subject,
               email |-> IF some THEN a.listed[k].email ELSE a.email, verified |-> some]
      BY <2>6 DEF k
    <2>10. some => a.listed[k].email \in STRING
      BY <2>7 DEF k
    <2> QED
      BY <2>2, <2>3, <2>8, <2>9, <2>10 DEF Identity, Key
  <1> QED
    BY <1>1, <1>2

\* An address that has been vouched for is nobody's synthetic one.
LEMMA SyntheticIsUnproved ==
    ASSUME VouchedIsReal, NEW v \in vouched, NEW k \in AccountKeys
    PROVE  SyntheticEmail[k] # v[2]
  BY SyntheticAssumption DEF VouchedIsReal

-----------------------------------------------------------------------------
(* The tables.                                                             *)

\* What a row has of the report it is made from.
LEMMA RowOfReport ==
    ASSUME NEW r \in Identity, NEW u \in Users
    PROVE  /\ IdentityOf(r, u) \in IdentityRow
           /\ Key(IdentityOf(r, u)) = Key(r)
           /\ VerifiedEmail(IdentityOf(r, u)) = VerifiedEmail(r)
           /\ IdentityOf(r, u).user = u
           /\ IdentityOf(r, u).provider = r.provider
  BY DEF IdentityOf, IdentityRow, Identity, Key, VerifiedEmail

\* Addresses are not blank and not the mark of a free key.
LEMMA HomeAddressType ==
    ASSUME NEW r, r.email \in STRING, Key(r) \in AccountKeys
    PROVE  HomeAddress(r) \in STRING \ {Empty, NoUser}
  <1>1. SyntheticEmail[Key(r)] \in STRING /\ SyntheticEmail[Key(r)] # Empty
    BY SyntheticAssumption
  <1>2. VerifiedEmail(r) \in STRING
    BY EmptyAssumption DEF VerifiedEmail
  <1> QED
    BY <1>1, <1>2, MarksAssumption DEF HomeAddress

\* An identity row that satisfies the constraints goes in, for a user who is
\* new or who has the verified address of the report: what the tables
\* promise still holds.
LEMMA InsertIdentity ==
    ASSUME ProvisionInv, NEW r \in Identity, NEW u \in Users,
           Key(r) \in AccountKeys, Proved(r),
           UniqueIdentity(IdentityOf(r, u)),
           identities' = identities \cup {IdentityOf(r, u)},
           \/ emails[u] = NoUser /\ UniqueEmail(HomeAddress(r))
              /\ emails' = [emails EXCEPT ![u] = HomeAddress(r)]
           \/ VerifiedEmail(r) # Empty /\ emails[u] = VerifiedEmail(r) /\ UNCHANGED emails,
           UNCHANGED vouched
    PROVE  /\ emails' \in [Users -> STRING \cup {NoUser}] /\ identities' \in SUBSET IdentityRow
           /\ \A v \in Users : emails[v] # NoUser => emails'[v] = emails[v]
           /\ \A i \in identities' : RowStands(i)'
           /\ UniqueRows' /\ UniqueAddresses' /\ SharedIsVerified' /\ NoUserWithoutIdentity'
  <1> DEFINE row == IdentityOf(r, u)
  <1>1. /\ row \in IdentityRow /\ Key(row) = Key(r) /\ VerifiedEmail(row) = VerifiedEmail(r)
        /\ row.user = u /\ row.provider = r.provider
    BY RowOfReport
  <1>2. HomeAddress(row) = HomeAddress(r)
    BY <1>1 DEF HomeAddress
  <1>3. HomeAddress(r) \in STRING \ {Empty, NoUser}
    BY HomeAddressType DEF Identity
  <1>4. /\ emails \in [Users -> STRING \cup {NoUser}] /\ identities \in SUBSET IdentityRow
        /\ UniqueRows /\ UniqueAddresses /\ SharedIsVerified /\ NoUserWithoutIdentity
        /\ VouchedIsReal /\ \A i \in identities : RowStands(i)
    BY DEF ProvisionInv, TypeOK
  <1>5. \A i \in identities : /\ i.user \in Users /\ i.email \in STRING
                              /\ Key(i) \in AccountKeys
                              /\ emails[i.user] = HomeAddress(i)
    BY <1>4 DEF IdentityRow, RowStands
  <1>6. \A i \in identities : emails[i.user] # NoUser
    BY <1>5, HomeAddressType
  <1>7. \A i \in identities : Key(i) # Key(row) /\ ~(i.user = u /\ i.provider = row.provider)
    BY <1>1 DEF UniqueIdentity, Key
  <1>8. identities' = identities \cup {row}
    OBVIOUS
  <1>9. UniqueIdentity(row)
    OBVIOUS
  <1> HIDE DEF row
  <1>10. emails' \in [Users -> STRING \cup {NoUser}] /\ identities' \in SUBSET IdentityRow
    BY <1>1, <1>3, <1>4, <1>8
  <1>11. \A v \in Users : emails[v] # NoUser => emails'[v] = emails[v]
    BY <1>4
  <1>12. emails'[u] = HomeAddress(r)
    BY <1>4 DEF HomeAddress
  <1>13. \A i \in identities' : RowStands(i)'
    <2>1. \A i \in identities : RowStands(i)'
      <3> SUFFICES ASSUME NEW i \in identities PROVE RowStands(i)'
        OBVIOUS
      <3>1. emails'[i.user] = emails[i.user]
        BY <1>5, <1>6, <1>11
      <3> QED
        BY <1>4, <3>1 DEF RowStands, Proved, HomeAddress
    <2>2. RowStands(row)'
      <3>1. Proved(row)
        BY <1>1 DEF Proved
      <3> QED
        BY <1>1, <1>2, <1>12, <3>1 DEF RowStands, Proved, HomeAddress
    <2> QED
      BY <1>8, <2>1, <2>2
  <1>14. UniqueRows'
    <2>1. \A i \in identities : ~(Key(i) = Key(row) \/ (i.user = row.user /\ i.provider = row.provider))
      BY <1>1, <1>7
    <2> QED
      BY <1>4, <1>8, <2>1 DEF UniqueRows
  <1>15. UniqueAddresses'
    <2>1. CASE emails[u] = NoUser /\ UniqueEmail(HomeAddress(r))
               /\ emails' = [emails EXCEPT ![u] = HomeAddress(r)]
      BY <1>3, <1>4, <2>1 DEF UniqueAddresses, UniqueEmail
    <2>2. CASE UNCHANGED emails
      BY <1>4, <2>2 DEF UniqueAddresses
    <2> QED
      BY <2>1, <2>2
  <1>16. SharedIsVerified'
    <2>1. ASSUME NEW i \in identities, i.user = u
          PROVE  VerifiedEmail(i) # Empty /\ VerifiedEmail(row) # Empty
      <3>1. VerifiedEmail(r) # Empty /\ emails[u] = VerifiedEmail(r)
        BY <1>6, <2>1
      <3>2. <<Key(r), VerifiedEmail(r)>> \in vouched
        BY <3>1 DEF Proved
      <3>3. SyntheticEmail[Key(i)] # VerifiedEmail(r)
        BY <1>4, <1>5, <3>2, SyntheticIsUnproved
      <3>4. HomeAddress(i) = VerifiedEmail(r)
        BY <1>5, <2>1, <3>1
      <3> QED
        BY <1>1, <3>1, <3>3, <3>4 DEF HomeAddress
    <2> QED
      BY <1>1, <1>4, <1>8, <2>1 DEF SharedIsVerified
  <1>17. NoUserWithoutIdentity'
    <2>1. \A v \in Users : v # u => emails'[v] = emails[v]
      BY <1>4
    <2> QED
      BY <1>1, <1>4, <1>8, <2>1 DEF NoUserWithoutIdentity
  <1> QED
    BY <1>10, <1>11, <1>13, <1>14, <1>15, <1>16, <1>17

\* A callback that ends, as a user its identity leads to or with an error,
\* after a step on the tables that kept what they promise.
LEMMA CallbackEnds ==
    ASSUME ProvisionInv, NEW p \in Procs, Finish(p), UNCHANGED vouched,
           emails' \in [Users -> STRING \cup {NoUser}], identities' \in SUBSET IdentityRow,
           identities \subseteq identities',
           \A v \in Users : emails[v] # NoUser => emails'[v] = emails[v],
           \A i \in identities' : RowStands(i)',
           UniqueRows', UniqueAddresses', SharedIsVerified', NoUserWithoutIdentity',
           \/ UNCHANGED answers
           \/ \E i \in identities' : answers' = answers \cup {<<Key(i), i.user>>}
    PROVE  ProvisionInv'
  <1>1. \A q \in Procs : \/ q = p /\ pc'[q] = "idle"
                         \/ q # p /\ pc'[q] = pc[q] /\ report'[q] = report[q] /\ target'[q] = target[q]
    BY DEF ProvisionInv, TypeOK, Finish
  <1>2. \A q \in Procs : CallbackKnows(q)'
    <2> SUFFICES ASSUME NEW q \in Procs, q # p PROVE CallbackKnows(q)'
      BY <1>1 DEF CallbackKnows
    <2>1. pc'[q] = pc[q] /\ report'[q] = report[q] /\ target'[q] = target[q] /\ CallbackKnows(q)
      BY <1>1 DEF ProvisionInv
    <2>2. pc[q] = "link" => emails'[target[q]] = emails[target[q]]
      <3>1. SUFFICES ASSUME pc[q] = "link" PROVE emails[target[q]] # NoUser /\ target[q] \in Users
        OBVIOUS
      <3>2. report[q].email \in STRING
        BY <2>1, <3>1 DEF CallbackKnows, Identity
      <3> QED
        BY <2>1, <3>1, <3>2, EmptyAssumption, MarksAssumption DEF CallbackKnows, VerifiedEmail
    <2> QED
      BY <2>1, <2>2 DEF CallbackKnows, Proved
  <1>3. answers' \in SUBSET (AccountKeys \X Users) /\ AnswersStand'
    <2>0. answers \in SUBSET (AccountKeys \X Users) /\ AnswersStand
      BY DEF ProvisionInv, TypeOK
    <2>1. CASE UNCHANGED answers
      BY <2>0, <2>1 DEF AnswersStand
    <2>2. ASSUME NEW i \in identities', answers' = answers \cup {<<Key(i), i.user>>}
          PROVE  answers' \in SUBSET (AccountKeys \X Users) /\ AnswersStand'
      <3>1. Key(i) \in AccountKeys /\ i.user \in Users
        BY <2>2 DEF RowStands, IdentityRow
      <3>2. <<Key(i), i.user>> \in AccountKeys \X Users
        BY <3>1
      <3> QED
        BY <2>0, <2>2, <3>2 DEF AnswersStand
    <2> QED
      BY <2>1, <2>2
  <1>4. TypeOK'
    BY <1>3 DEF ProvisionInv, TypeOK, Finish
  <1>5. VouchedIsReal'
    BY DEF ProvisionInv, VouchedIsReal
  <1> QED
    BY <1>2, <1>3, <1>4, <1>5 DEF ProvisionInv

\* ... and when the tables are as they were.
LEMMA CallbackEndsQuietly ==
    ASSUME ProvisionInv, NEW p \in Procs, Finish(p), UNCHANGED <<tables, vouched>>,
           \/ UNCHANGED answers
           \/ \E i \in identities : answers' = answers \cup {<<Key(i), i.user>>}
    PROVE  ProvisionInv'
  <1>1. emails' = emails /\ identities' = identities
    BY DEF tables
  <1>2. /\ emails' \in [Users -> STRING \cup {NoUser}] /\ identities' \in SUBSET IdentityRow
        /\ \A i \in identities' : RowStands(i)'
        /\ UniqueRows' /\ UniqueAddresses' /\ SharedIsVerified' /\ NoUserWithoutIdentity'
    BY <1>1 DEF ProvisionInv, TypeOK, RowStands, Proved, HomeAddress, UniqueRows,
          UniqueAddresses, SharedIsVerified, NoUserWithoutIdentity
  <1> QED
    BY <1>1, <1>2, CallbackEnds

-----------------------------------------------------------------------------
(* The steps of ProvisionUser.                                             *)

\* A callback that goes on leaves the tables and the other callbacks alone.
LEMMA CallbackMoves ==
    ASSUME ProvisionInv, NEW p \in Procs, UNCHANGED <<tables, answers>>,
           pc' \in [Procs -> {"idle", "byIdentity", "byEmail", "link", "create"}],
           report' \in [Procs -> Identity \cup {NoReport}],
           target' \in [Procs -> Users \cup {NoUser}],
           vouched' \in SUBSET (AccountKeys \X STRING), vouched \subseteq vouched',
           VouchedIsReal',
           \A q \in Procs \ {p} :
              pc'[q] = pc[q] /\ report'[q] = report[q] /\ target'[q] = target[q],
           CallbackKnows(p)'
    PROVE  ProvisionInv'
  <1>1. emails' = emails /\ identities' = identities
    BY DEF tables
  <1>2. TypeOK'
    BY <1>1 DEF ProvisionInv, TypeOK
  <1>3. \A q \in Procs : CallbackKnows(q)'
    BY <1>1 DEF ProvisionInv, CallbackKnows, Proved
  <1>4. \A i \in identities' : RowStands(i)'
    BY <1>1 DEF ProvisionInv, RowStands, Proved, HomeAddress
  <1>5. UniqueRows' /\ UniqueAddresses' /\ SharedIsVerified' /\ AnswersStand' /\ NoUserWithoutIdentity'
    BY <1>1 DEF ProvisionInv, UniqueRows, UniqueAddresses, SharedIsVerified, AnswersStand,
          NoUserWithoutIdentity
  <1> QED
    BY <1>2, <1>3, <1>4, <1>5 DEF ProvisionInv

\* A callback begins with what Exchange reports.
LEMMA BeginKeepsInv ==
    ASSUME ProvisionInv, NEW p \in Procs, NEW a \in Accounts, Begin(p, a)
    PROVE  ProvisionInv'
  <1>1. PICK r \in Exchange(a) : report' = [report EXCEPT ![p] = r]
    BY DEF Begin
  <1>2. r \in Identity /\ Key(r) = Key(a) /\ (r.verified => r.email \in Vouched(a))
    BY ExchangeReports
  <1>3. Key(a) \in AccountKeys
    BY DEF AccountKeys
  <1>4. Vouched(a) \subseteq STRING
    <2>1. a \in Account
      BY AccountsAssumption
    <2>2. a.email \in STRING /\ a.listed \in Seq(Address)
      BY <2>1 DEF Account
    <2>3. \A n \in DOMAIN a.listed : a.listed[n] \in Address
      BY <2>2
    <2>4. \A n \in DOMAIN a.listed : a.listed[n].email \in STRING
      BY <2>3 DEF Address
    <2> QED
      BY <2>2, <2>4 DEF Vouched
  <1>5. vouched' = vouched \cup ({Key(a)} \X Vouched(a)) /\ UNCHANGED <<tables, target, answers>>
    BY DEF Begin
  <1>6. vouched' \in SUBSET (AccountKeys \X STRING) /\ vouched \subseteq vouched'
    BY <1>3, <1>4, <1>5 DEF ProvisionInv, TypeOK
  <1>7. VouchedIsReal'
    <2>1. \A v \in {Key(a)} \X Vouched(a) : v[2] \in Vouched(a)
      OBVIOUS
    <2> QED
      BY <1>5, <2>1 DEF ProvisionInv, VouchedIsReal
  <1>8. Proved(r)'
    <2>1. VerifiedEmail(r) # Empty => VerifiedEmail(r) \in Vouched(a)
      BY <1>2 DEF VerifiedEmail
    <2> QED
      BY <1>2, <1>5, <2>1 DEF Proved
  <1>9. /\ pc' \in [Procs -> {"idle", "byIdentity", "byEmail", "link", "create"}]
        /\ report' \in [Procs -> Identity \cup {NoReport}]
        /\ target' \in [Procs -> Users \cup {NoUser}]
        /\ pc'[p] = "byIdentity" /\ report'[p] = r
        /\ \A q \in Procs \ {p} :
              pc'[q] = pc[q] /\ report'[q] = report[q] /\ target'[q] = target[q]
    BY <1>1, <1>2, <1>5 DEF Begin, ProvisionInv, TypeOK
  <1>10. CallbackKnows(p)'
    BY <1>2, <1>3, <1>8, <1>9 DEF CallbackKnows, Proved
  <1> QED
    BY <1>5, <1>6, <1>7, <1>9, <1>10, CallbackMoves

\* The read of the identity, and the read of the user's address.
LEMMA ReadsKeepInv ==
    ASSUME ProvisionInv, NEW p \in Procs, ByIdentity(p) \/ ByEmail(p)
    PROVE  ProvisionInv'
  <1>1. UNCHANGED <<tables, vouched>> /\ CallbackKnows(p) /\ TypeOK /\ VouchedIsReal
    BY DEF ByIdentity, ByEmail, ProvisionInv
  <1>2. CASE Fail(p)
    BY <1>1, <1>2, CallbackEndsQuietly DEF Fail
  <1>3. ASSUME NEW i \in identities, Key(i) = Key(report[p]), Return(p, i.user)
        PROVE  ProvisionInv'
    BY <1>1, <1>3, CallbackEndsQuietly DEF Return
  <1>4. ASSUME NEW label \in {"byEmail", "create"}, Goto(p, label), UNCHANGED target,
               pc[p] # "idle", label = "byEmail" => VerifiedEmail(report[p]) # Empty
        PROVE  ProvisionInv'
    <2>1. /\ pc' \in [Procs -> {"idle", "byIdentity", "byEmail", "link", "create"}]
          /\ pc'[p] = label /\ report' = report /\ target' = target /\ UNCHANGED answers
          /\ \A q \in Procs \ {p} : pc'[q] = pc[q]
      BY <1>1, <1>4 DEF Goto, TypeOK
    <2>2. CallbackKnows(p)'
      BY <1>1, <1>4, <2>1 DEF CallbackKnows, Proved
    <2>3. VouchedIsReal' /\ vouched' = vouched
      BY <1>1 DEF VouchedIsReal
    <2> QED
      BY <1>1, <2>1, <2>2, <2>3, CallbackMoves DEF TypeOK
  <1>5. ASSUME NEW u \in Users, emails[u] = VerifiedEmail(report[p]), pc[p] = "byEmail",
               target' = [target EXCEPT ![p] = u], Goto(p, "link")
        PROVE  ProvisionInv'
    <2>1. /\ pc' \in [Procs -> {"idle", "byIdentity", "byEmail", "link", "create"}]
          /\ target' \in [Procs -> Users \cup {NoUser}]
          /\ pc'[p] = "link" /\ report' = report /\ target'[p] = u /\ UNCHANGED answers
          /\ \A q \in Procs \ {p} : pc'[q] = pc[q] /\ target'[q] = target[q]
      BY <1>1, <1>5 DEF Goto, TypeOK
    <2>2. CallbackKnows(p)'
      BY <1>1, <1>5, <2>1 DEF CallbackKnows, Proved, tables
    <2>3. VouchedIsReal' /\ vouched' = vouched
      BY <1>1 DEF VouchedIsReal
    <2> QED
      BY <1>1, <2>1, <2>2, <2>3, CallbackMoves DEF TypeOK
  <1>6. CASE ByIdentity(p)
    <2>1. CASE \E i \in {j \in identities : Key(j) = Key(report[p])} : Return(p, i.user)
      BY <1>3, <2>1
    <2>2. CASE /\ Goto(p, IF VerifiedEmail(report[p]) # Empty THEN "byEmail" ELSE "create")
               /\ UNCHANGED target
      <3>1. CASE VerifiedEmail(report[p]) # Empty
        BY <1>4, <1>6, <2>2, <3>1 DEF ByIdentity
      <3>2. CASE VerifiedEmail(report[p]) = Empty
        BY <1>4, <1>6, <2>2, <3>2 DEF ByIdentity
      <3> QED
        BY <3>1, <3>2
    <2> QED
      BY <1>2, <1>6, <2>1, <2>2 DEF ByIdentity
  <1>7. CASE ByEmail(p)
    <2>1. CASE Goto(p, "create") /\ UNCHANGED target
      BY <1>4, <1>7, <2>1 DEF ByEmail
    <2>2. CASE \E u \in {v \in Users : emails[v] = VerifiedEmail(report[p])} :
                  target' = [target EXCEPT ![p] = u] /\ Goto(p, "link")
      BY <1>5, <1>7, <2>2 DEF ByEmail
    <2> QED
      BY <1>2, <1>7, <2>1, <2>2 DEF ByEmail
  <1> QED
    BY <1>6, <1>7

\* The INSERT that attaches an identity to the user of its address.
LEMMA LinkKeepsInv ==
    ASSUME ProvisionInv, NEW p \in Procs, Link(p)
    PROVE  ProvisionInv'
  <1> DEFINE r == report[p]
             u == target[p]
             row == IdentityOf(r, u)
  <1>1. /\ r \in Identity /\ Key(r) \in AccountKeys /\ Proved(r) /\ u \in Users
        /\ VerifiedEmail(r) # Empty /\ emails[u] = VerifiedEmail(r)
    BY DEF Link, ProvisionInv, CallbackKnows
  <1>2. Finish(p) /\ UNCHANGED <<emails, vouched>>
    BY DEF Link, Fail, Return
  <1>3. CASE UNCHANGED <<identities, answers>>
    BY <1>2, <1>3, CallbackEndsQuietly DEF tables
  <1>4. CASE /\ UniqueIdentity(row) /\ identities' = identities \cup {row}
             /\ UNCHANGED answers \/ answers' = answers \cup {<<Key(r), u>>}
    <2>1. Key(row) = Key(r) /\ row.user = u
      BY <1>1, RowOfReport
    <2>2. /\ emails' \in [Users -> STRING \cup {NoUser}] /\ identities' \in SUBSET IdentityRow
          /\ \A v \in Users : emails[v] # NoUser => emails'[v] = emails[v]
          /\ \A i \in identities' : RowStands(i)'
          /\ UniqueRows' /\ UniqueAddresses' /\ SharedIsVerified' /\ NoUserWithoutIdentity'
      BY <1>1, <1>2, <1>4, InsertIdentity
    <2>3. row \in identities' /\ identities \subseteq identities'
      BY <1>4
    <2>4. UNCHANGED answers \/ \E i \in identities' : answers' = answers \cup {<<Key(i), i.user>>}
      BY <1>4, <2>1, <2>3
    <2> QED
      BY <1>2, <2>2, <2>3, <2>4, CallbackEnds
  <1> QED
    BY <1>3, <1>4 DEF Link, Fail, Return

\* The transaction that creates a user and its identity.
LEMMA CreateKeepsInv ==
    ASSUME ProvisionInv, NEW p \in Procs, CreateWithUser(p)
    PROVE  ProvisionInv'
  <1> DEFINE r == report[p]
             row(u) == IdentityOf(r, u)
  <1>1. r \in Identity /\ Key(r) \in AccountKeys /\ Proved(r)
    BY DEF CreateWithUser, ProvisionInv, CallbackKnows
  <1>2. Finish(p) /\ UNCHANGED vouched
    BY DEF CreateWithUser, Fail, Return
  <1>3. CASE UNCHANGED <<tables, answers>>
    BY <1>2, <1>3, CallbackEndsQuietly
  <1>4. ASSUME NEW u \in Users, emails[u] = NoUser, UniqueEmail(HomeAddress(r)),
               UniqueIdentity(row(u)), emails' = [emails EXCEPT ![u] = HomeAddress(r)],
               identities' = identities \cup {row(u)},
               UNCHANGED answers \/ answers' = answers \cup {<<Key(r), u>>}
        PROVE  ProvisionInv'
    <2>1. Key(row(u)) = Key(r) /\ row(u).user = u
      BY <1>1, RowOfReport
    <2>2. /\ emails' \in [Users -> STRING \cup {NoUser}] /\ identities' \in SUBSET IdentityRow
          /\ \A v \in Users : emails[v] # NoUser => emails'[v] = emails[v]
          /\ \A i \in identities' : RowStands(i)'
          /\ UniqueRows' /\ UniqueAddresses' /\ SharedIsVerified' /\ NoUserWithoutIdentity'
      BY <1>1, <1>2, <1>4, InsertIdentity
    <2>3. row(u) \in identities' /\ identities \subseteq identities'
      BY <1>4
    <2>4. UNCHANGED answers \/ \E i \in identities' : answers' = answers \cup {<<Key(i), i.user>>}
      BY <1>4, <2>1, <2>3
    <2> QED
      BY <1>2, <2>2, <2>3, <2>4, CallbackEnds
  <1>5. \/ UNCHANGED <<tables, answers>>
        \/ \E u \in Users :
              /\ emails[u] = NoUser /\ UniqueEmail(HomeAddress(r)) /\ UniqueIdentity(row(u))
              /\ emails' = [emails EXCEPT ![u] = HomeAddress(r)]
              /\ identities' = identities \cup {row(u)}
              /\ UNCHANGED answers \/ answers' = answers \cup {<<Key(r), u>>}
    BY DEF CreateWithUser, HomeAddress, Fail, Return
  <1> QED
    BY <1>3, <1>4, <1>5

\* A kill ends the callbacks.
LEMMA CrashKeepsInv ==
    ASSUME ProvisionInv, Crash
    PROVE  ProvisionInv'
  <1>1. UNCHANGED <<emails, identities, answers, vouched>>
    BY DEF Crash, tables
  <1>2. TypeOK' /\ \A p \in Procs : CallbackKnows(p)'
    BY <1>1 DEF Crash, ProvisionInv, TypeOK, CallbackKnows
  <1> QED
    BY <1>1, <1>2 DEF ProvisionInv, VouchedIsReal, RowStands, Proved, HomeAddress, UniqueRows,
          UniqueAddresses, SharedIsVerified, AnswersStand, NoUserWithoutIdentity

-----------------------------------------------------------------------------
\* Empty tables satisfy the invariant.
LEMMA ProvisionInvInit == Init => ProvisionInv
  BY DEF Init, ProvisionInv, TypeOK, CallbackKnows, VouchedIsReal, UniqueRows,
         UniqueAddresses, SharedIsVerified, AnswersStand, NoUserWithoutIdentity

\* Every step keeps the invariant.
LEMMA ProvisionInvNext == ProvisionInv /\ [Next]_vars => ProvisionInv'
  <1> SUFFICES ASSUME ProvisionInv, [Next]_vars PROVE ProvisionInv'
    OBVIOUS
  <1>1. CASE UNCHANGED vars
    BY <1>1 DEF vars, ProvisionInv, TypeOK, CallbackKnows, VouchedIsReal, RowStands, Proved,
          HomeAddress, UniqueRows, UniqueAddresses, SharedIsVerified, AnswersStand,
          NoUserWithoutIdentity
  <1>2. CASE Next
    BY <1>2, BeginKeepsInv, ReadsKeepInv, LinkKeepsInv, CreateKeepsInv, CrashKeepsInv DEF Next
  <1> QED
    BY <1>1, <1>2

\* It holds in every reachable state.
LEMMA ProvisionInvariant == Spec => []ProvisionInv
  BY ProvisionInvInit, ProvisionInvNext, PTL DEF Spec

\* The tables and the callbacks' locals keep their types.
THEOREM TypeCorrect == Spec => []TypeOK
  <1>1. ProvisionInv => TypeOK
    BY DEF ProvisionInv
  <1> QED
    BY <1>1, ProvisionInvariant, PTL

\* An account at a provider signs in as one user for ever: every answer of
\* ProvisionUser is the user of the account's one row.
THEOREM IdentityWins == Spec => []OneUserPerIdentity
  <1>1. ProvisionInv => OneUserPerIdentity
    BY DEF ProvisionInv, AnswersStand, UniqueRows, OneUserPerIdentity
  <1> QED
    BY <1>1, ProvisionInvariant, PTL

\* Two accounts share a user only through the address both providers have
\* vouched for.
THEOREM SharedByProof == Spec => []LinkedOnlyByVerifiedEmail
  <1>1. ProvisionInv => LinkedOnlyByVerifiedEmail
    <2> SUFFICES ASSUME ProvisionInv, NEW i \in identities, NEW j \in identities,
                        i # j, i.user = j.user
                 PROVE  /\ i.provider # j.provider
                        /\ <<Key(i), emails[i.user]>> \in vouched
                        /\ <<Key(j), emails[j.user]>> \in vouched
      BY DEF LinkedOnlyByVerifiedEmail
    <2>1. i.provider # j.provider
      BY DEF ProvisionInv, UniqueRows
    <2>2. VerifiedEmail(i) # Empty /\ VerifiedEmail(j) # Empty
      BY DEF ProvisionInv, SharedIsVerified
    <2>3. RowStands(i) /\ RowStands(j)
      BY DEF ProvisionInv
    <2> QED
      BY <2>1, <2>2, <2>3 DEF RowStands, Proved, HomeAddress
  <1> QED
    BY <1>1, ProvisionInvariant, PTL

\* However closely two providers' callbacks race, a verified address ends
\* with one user.
THEOREM OneUserPerAddress == Spec => []AddressLeadsToOneUser
  <1>1. ProvisionInv => AddressLeadsToOneUser
    <2> SUFFICES ASSUME ProvisionInv, NEW i \in identities, NEW j \in identities,
                        i.verified, j.verified, i.email = j.email, i.email # Empty
                 PROVE  i.user = j.user
      BY DEF AddressLeadsToOneUser
    <2>1. emails[i.user] = i.email /\ emails[j.user] = i.email
      BY DEF ProvisionInv, RowStands, HomeAddress, VerifiedEmail
    <2>2. i.user \in Users /\ j.user \in Users /\ i.email # NoUser
      BY MarksAssumption DEF ProvisionInv, TypeOK, IdentityRow
    <2> QED
      BY <2>1, <2>2 DEF ProvisionInv, UniqueAddresses
  <1> QED
    BY <1>1, ProvisionInvariant, PTL

\* Every user row has an identity that leads to it, whatever fails.
THEOREM UsersAreReachable == Spec => []NoUserWithoutIdentity
  <1>1. ProvisionInv => NoUserWithoutIdentity
    BY DEF ProvisionInv
  <1> QED
    BY <1>1, ProvisionInvariant, PTL
=============================================================================
