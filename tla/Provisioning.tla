---------------------------- MODULE Provisioning ----------------------------
(***************************************************************************)
(* ProviderService.ProvisionUser (internal/service/provider_service.go):   *)
(* the upstream callback turns the identity a provider reports into a      *)
(* local user, by the identity's own row, by a verified email address, or  *)
(* by creating both.  It reads twice and writes last, with no transaction  *)
(* around the whole and no retry, so callbacks for one person (two tabs,   *)
(* two providers) race; the unique constraints of user_identities and      *)
(* users decide, and the loser reports an error.                           *)
(*                                                                         *)
(* An address stands for all its spellings: users.email is citext, and     *)
(* ProvisionUser trims the verified ones.  What a provider says of an      *)
(* account can change from one sign-in to the next: an address is          *)
(* verified, given up, or taken over by another account.  Google says it   *)
(* in the claims of an ID token, GitHub in a profile and a list of         *)
(* addresses, from which Client.Exchange (internal/upstream/upstream.go)   *)
(* picks one.  How an exchange fails altogether is in Broker.              *)
(***************************************************************************)
EXTENDS Integers, Sequences, FiniteSets, FiniteSetsExt

CONSTANTS
    Procs,           \* callback goroutines at once
    Users,           \* primary keys the users table can draw
    Accounts,        \* accounts as their providers may describe them
    SyntheticEmail,  \* syntheticEmail: [provider, subject] to address
    DBFaults,        \* whether database calls may fail
    Crashes,         \* whether the process may be killed and restarted
    Empty,           \* the empty string
    NoUser,          \* no user, or a primary key not drawn yet
    NoReport         \* marks a handler local that is not set

\* email is the claim of an ID token, or what a GitHub profile shows;
\* verified is the claim email_verified; listed are GitHub's addresses, none
\* of them blank.
Address == [email : STRING \ {Empty}, primary : BOOLEAN, verified : BOOLEAN]
Account == [provider : {"google", "github"}, subject : STRING, email : STRING,
            verified : BOOLEAN, listed : Seq(Address)]
Identity == [provider : {"google", "github"}, subject : STRING, email : STRING,
             verified : BOOLEAN]
Key(r) == <<r.provider, r.subject>>
AccountKeys == {Key(a) : a \in Accounts}

\* The addresses a provider vouches for when it describes an account so.
Vouched(a) ==
    IF a.provider = "google" THEN {x \in {a.email} : a.verified}
    ELSE {a.listed[n].email : n \in {m \in DOMAIN a.listed : a.listed[m].verified}}

\* The only addresses a provider verifies are real ones, never one of the
\* reserved .invalid domain that syntheticEmail uses.
ASSUME AccountsAssumption == \A a \in Accounts : a \in Account
ASSUME SyntheticAssumption ==
    /\ SyntheticEmail \in [AccountKeys -> STRING]
    /\ \A k \in AccountKeys : SyntheticEmail[k] # Empty
    /\ \A a \in Accounts, k \in AccountKeys : SyntheticEmail[k] \notin Vouched(a)
ASSUME EmptyAssumption == Empty \in STRING
ASSUME FaultsAssumption == DBFaults \in BOOLEAN /\ Crashes \in BOOLEAN
ASSUME MarksAssumption == NoUser \notin Users /\ NoUser \notin STRING /\ NoReport \notin Identity

VARIABLES
    emails,      \* the users table: the address of each user
    identities,  \* the user_identities table
    pc,          \* where each callback is
    report,      \* the identity its provider reported
    target,      \* the user GetByEmail returned
    answers,     \* history: <<key, user>> a sign-in has gone on as
    vouched      \* history: <<key, address>> a provider has called verified

vars == <<emails, identities, pc, report, target, answers, vouched>>
tables == <<emails, identities>>
locals == <<pc, report, target>>

IdentityRow == [provider : {"google", "github"}, subject : STRING, user : Users,
                email : STRING, verified : BOOLEAN]

TypeOK ==
    /\ emails \in [Users -> STRING \cup {NoUser}]
    /\ identities \in SUBSET IdentityRow
    /\ pc \in [Procs -> {"idle", "byIdentity", "byEmail", "link", "create"}]
    /\ report \in [Procs -> Identity \cup {NoReport}]
    /\ target \in [Procs -> Users \cup {NoUser}]
    /\ answers \in SUBSET (AccountKeys \X Users)
    /\ vouched \in SUBSET (AccountKeys \X STRING)

Init ==
    /\ emails = [u \in Users |-> NoUser]
    /\ identities = {}
    /\ pc = [p \in Procs |-> "idle"]
    /\ report = [p \in Procs |-> NoReport]
    /\ target = [p \in Procs |-> NoUser]
    /\ answers = {}
    /\ vouched = {}

-----------------------------------------------------------------------------
(* Client.Exchange: from an account to the identity that is reported.      *)

exchangeOIDC(a) ==
    [provider |-> a.provider, subject |-> a.subject, email |-> a.email, verified |-> a.verified]

\* Faulty variant: GitHub's primary address is taken as it is.
exchangePrimary(a, lost) ==
    LET chosen == {n \in DOMAIN a.listed : ~lost /\ a.listed[n].primary}
    IN  [provider |-> a.provider, subject |-> a.subject,
         email |-> IF chosen # {} THEN a.listed[Min(chosen)].email ELSE a.email,
         verified |-> chosen # {}]

\* exchangeGitHub: the first primary address that is verified or, for a
\* profile that shows no address, the first verified one; failing both,
\* what the profile shows, as unverified.  A list that could not be fetched
\* (lost) counts as an empty one.
exchangeGitHub(a, lost) ==
    LET proved == {n \in DOMAIN a.listed : ~lost /\ a.listed[n].verified}
        primary == {n \in proved : a.listed[n].primary}
        chosen == IF primary # {} THEN primary ELSE IF a.email = Empty THEN proved ELSE {}
    IN  [provider |-> a.provider, subject |-> a.subject,
         email |-> IF chosen # {} THEN a.listed[Min(chosen)].email ELSE a.email,
         verified |-> chosen # {}]

Exchange(a) ==
    IF a.provider = "google" THEN {exchangeOIDC(a)}
    ELSE {exchangeGitHub(a, lost) : lost \in BOOLEAN}

-----------------------------------------------------------------------------
(* ProvisionUser.                                                          *)

\* Faulty variant: EmailVerified is not looked at.
AnyEmail(r) == r.email

\* The address ProvisionUser links and creates by.
VerifiedEmail(r) == IF r.verified THEN r.email ELSE Empty

\* Faulty variant: the row is built before the user has its id.
IdentityOfNobody(r, u) ==
    [provider |-> r.provider, subject |-> r.subject, user |-> NoUser,
     email |-> r.email, verified |-> r.verified]

\* The user_identities row of a report.
IdentityOf(r, u) ==
    [provider |-> r.provider, subject |-> r.subject, user |-> u,
     email |-> r.email, verified |-> r.verified]

\* Faulty variant: the table lacks unique (provider, provider_subject).
UniqueByUser(row) ==
    \A i \in identities : ~(i.user = row.user /\ i.provider = row.provider)

\* The unique constraints of user_identities let the row in.
UniqueIdentity(row) ==
    \A i \in identities :
        /\ ~(i.provider = row.provider /\ i.subject = row.subject)
        /\ ~(i.user = row.user /\ i.provider = row.provider)

\* Faulty variant: there is no unique constraint on users.email.
AnyEmailIsFree(email) == TRUE

\* ... and that of users.email lets the address in.
UniqueEmail(email) == \A u \in Users : emails[u] # email

\* The callback goes on to sign the user in, or reports that it cannot.
Finish(p) ==
    /\ pc' = [pc EXCEPT ![p] = "idle"]
    /\ report' = [report EXCEPT ![p] = NoReport]
    /\ target' = [target EXCEPT ![p] = NoUser]
Return(p, u) ==
    /\ Finish(p)
    /\ answers' = answers \cup {<<Key(report[p]), u>>}
Fail(p) == Finish(p) /\ UNCHANGED answers
Goto(p, label) ==
    /\ pc' = [pc EXCEPT ![p] = label]
    /\ UNCHANGED <<report, answers>>

-----------------------------------------------------------------------------
\* Bound: a user key is left for every callback in flight.
UserLeft ==
    Cardinality({p \in Procs : pc[p] # "idle"})
        < Cardinality({u \in Users : emails[u] = NoUser})

\* The provider has reported an identity.  Once no key is left, only those
\* that need none are taken up.
Begin(p, a) ==
    /\ pc[p] = "idle"
    /\ UserLeft \/ \E i \in identities : Key(i) = Key(a)
    /\ pc' = [pc EXCEPT ![p] = "byIdentity"]
    /\ \E r \in Exchange(a) : report' = [report EXCEPT ![p] = r]
    /\ vouched' = vouched \cup ({Key(a)} \X Vouched(a))
    /\ UNCHANGED <<tables, target, answers>>

\* identities.GetByProviderSubject, and users.GetByID when there is one.
ByIdentity(p) ==
    LET r == report[p]
        known == {i \in identities : Key(i) = Key(r)}
    IN  /\ pc[p] = "byIdentity"
        /\ \/ \E i \in known : Return(p, i.user)
           \/ /\ known = {}
              /\ Goto(p, IF VerifiedEmail(r) # Empty THEN "byEmail" ELSE "create")
              /\ UNCHANGED target
           \/ DBFaults /\ Fail(p)
        /\ UNCHANGED <<tables, vouched>>

\* users.GetByEmail
ByEmail(p) ==
    LET owners == {u \in Users : emails[u] = VerifiedEmail(report[p])}
    IN  /\ pc[p] = "byEmail"
        /\ \/ \E u \in owners :
                 /\ target' = [target EXCEPT ![p] = u]
                 /\ Goto(p, "link")
           \/ owners = {} /\ Goto(p, "create") /\ UNCHANGED target
           \/ DBFaults /\ Fail(p)
        /\ UNCHANGED <<tables, vouched>>

\* identities.Create for the user found: linked, refused by a constraint, or
\* failed with or without effect.
Link(p) ==
    LET row == IdentityOf(report[p], target[p])
    IN  /\ pc[p] = "link"
        /\ \/ /\ UniqueIdentity(row)
              /\ identities' = identities \cup {row}
              /\ Return(p, target[p])
           \/ ~UniqueIdentity(row) /\ Fail(p) /\ UNCHANGED identities
           \/ /\ DBFaults
              /\ Fail(p)
              /\ \/ UNCHANGED identities
                 \/ UniqueIdentity(row) /\ identities' = identities \cup {row}
        /\ UNCHANGED <<emails, vouched>>

\* Faulty variant: the two INSERTs of CreateWithUser are not one transaction.
CreateWithUserPiecemeal(p) ==
    LET r == report[p]
        email == IF VerifiedEmail(r) # Empty THEN VerifiedEmail(r) ELSE SyntheticEmail[Key(r)]
    IN  /\ pc[p] = "create"
        /\ \E u \in Users :
              /\ emails[u] = NoUser
              /\ UniqueEmail(email)
              /\ emails' = [emails EXCEPT ![u] = email]
              /\ IF UniqueIdentity(IdentityOf(r, u))
                 THEN identities' = identities \cup {IdentityOf(r, u)} /\ Return(p, u)
                 ELSE Fail(p) /\ UNCHANGED identities
        /\ UNCHANGED vouched

\* identities.CreateWithUser: user and identity in one transaction, under a
\* verified address or a synthetic one.
CreateWithUser(p) ==
    LET r == report[p]
        email == IF VerifiedEmail(r) # Empty THEN VerifiedEmail(r) ELSE SyntheticEmail[Key(r)]
        free(u) == emails[u] = NoUser /\ UniqueEmail(email) /\ UniqueIdentity(IdentityOf(r, u))
        Insert(u) == /\ emails' = [emails EXCEPT ![u] = email]
                     /\ identities' = identities \cup {IdentityOf(r, u)}
    IN  /\ pc[p] = "create"
        /\ \/ \E u \in Users : free(u) /\ Insert(u) /\ Return(p, u)
           \/ ~(\E u \in Users : free(u)) /\ Fail(p) /\ UNCHANGED tables
           \/ DBFaults /\ Fail(p) /\ UNCHANGED tables
           \/ DBFaults /\ Fail(p) /\ \E u \in Users : free(u) /\ Insert(u)
        /\ UNCHANGED vouched

\* The process is killed: transactions roll back, the tables stay.
Crash ==
    /\ Crashes
    /\ pc' = [p \in Procs |-> "idle"]
    /\ report' = [p \in Procs |-> NoReport]
    /\ target' = [p \in Procs |-> NoUser]
    /\ UNCHANGED <<tables, answers, vouched>>

Next ==
    \/ \E p \in Procs, a \in Accounts : Begin(p, a)
    \/ \E p \in Procs : ByIdentity(p) \/ ByEmail(p) \/ Link(p) \/ CreateWithUser(p)
    \/ Crash

Spec == Init /\ [][Next]_vars

-----------------------------------------------------------------------------
(* Properties.                                                             *)

\* "an existing identity always wins": an account at a provider is the same
\* local user at every sign-in, whatever else races with it and whatever
\* address the provider reports later.
OneUserPerIdentity ==
    \A a, b \in answers : a[1] = b[1] => a[2] = b[2]

\* Two accounts share a local user only if they are of different providers
\* and each provider has vouched, at a sign-in with that account, for the
\* user's address: nobody gets into an account by an address they did not
\* prove, by claiming it beforehand, or because the provider gave it to them
\* later.
LinkedOnlyByVerifiedEmail ==
    \A i, j \in identities :
        (i # j /\ i.user = j.user) => /\ i.provider # j.provider
                                      /\ <<Key(i), emails[i.user]>> \in vouched
                                      /\ <<Key(j), emails[j.user]>> \in vouched

\* An address that was verified when an account was attached leads to one
\* user: two providers that report it, however closely their callbacks race,
\* never leave the person with two accounts.
AddressLeadsToOneUser ==
    \A i, j \in identities :
        (i.verified /\ j.verified /\ i.email = j.email /\ i.email # Empty) => i.user = j.user

\* Nobody holds an account no identity leads to: a user row that no sign-in
\* can reach would keep its address from ever being used (CreateWithUser is
\* one transaction).
NoUserWithoutIdentity ==
    \A u \in Users : emails[u] # NoUser => \E i \in identities : i.user = u
=============================================================================
