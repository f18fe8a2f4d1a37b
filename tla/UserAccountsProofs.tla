------------------------- MODULE UserAccountsProofs -------------------------
(***************************************************************************)
(* Theorems about UserAccounts.  What is said of a state of the accounts   *)
(* is said of a sequence of commits cs, and what a request relies on of a  *)
(* request q: both are values, so that the same statement serves before    *)
(* and after a step.                                                       *)
(***************************************************************************)
EXTENDS UserAccounts, SequenceTheorems, FiniteSetTheorems, TLAPS

KeySet == ({"node"} \X Ids) \cup ({"email"} \X Email)
                            \cup ({"nickname"} \X Nickname)

UserSets == UNION {[S -> User] : S \in SUBSET Ids}

CommitRecord == [users : UserSets, keys : SUBSET KeySet]

(* Some commit after s, up to t, wrote the conflict key k.                 *)
Wrote(cs, k, s, t) == \E u \in s + 1 .. t : k \in cs[u].keys

Same(i, us, vs) ==
    /\ i \in DOMAIN us <=> i \in DOMAIN vs
    /\ i \in DOMAIN us => us[i] = vs[i]

(* A node that two states disagree on was written in between ...           *)
NodesKeyed(cs) ==
    \A t \in 1 .. Len(cs) : \A s \in 1 .. t : \A i \in Ids :
        Same(i, cs[s].users, cs[t].users) \/ Wrote(cs, <<"node", i>>, s, t)

(* ... and so was the index entry of an address that is new in one.        *)
HasEmail(us, i, e) == i \in DOMAIN us /\ us[i].email = e

EmailsKeyed(cs) ==
    \A t \in 1 .. Len(cs) : \A s \in 1 .. t : \A i \in Ids, e \in Email :
        HasEmail(cs[t].users, i, e) =>
            HasEmail(cs[s].users, i, e) \/ Wrote(cs, <<"email", e>>, s, t)

(* A user is stored by the commit it is named after, and then until it is  *)
(* deleted.                                                                *)
KeptSinceCreated(cs) ==
    \A t \in 1 .. Len(cs) : \A i \in DOMAIN cs[t].users :
        i <= t /\ \A s \in i .. t : i \in DOMAIN cs[s].users

UniqueEmails(us) ==
    \A i, j \in DOMAIN us : us[i].email = us[j].email => i = j

CommitsOK(cs) ==
    /\ cs \in Seq(CommitRecord)
    /\ Len(cs) \in 1 .. MaxCommits
    /\ NodesKeyed(cs)
    /\ EmailsKeyed(cs)
    /\ KeptSinceCreated(cs)
    /\ UniqueEmails(cs[Len(cs)].users)

-----------------------------------------------------------------------------
(* What a request relies on at its next call.                              *)
Pcs == {"idle", "createQuery", "createCommit", "updateRead", "updateCommit",
        "deleteLookup", "deleteCommit", "query"}

Reads == {"get", "login", "list"}

Fields == {"pc", "op", "target", "input", "draft", "start", "began", "zookie",
           "result"}

IsRequest(q) == q = [f \in Fields |-> q[f]]

RequestTyped(cs, r, q) ==
    /\ q.pc \in Pcs
    /\ q.op \in Ops[r] \cup {"none"}
    /\ q.target \in Ids \cup {0}
    /\ q.draft \in Draft \cup {None}
    /\ q.start \in 0 .. Len(cs)
    /\ q.began \in 0 .. Len(cs)
    /\ q.zookie \in NoZookie .. Len(cs)

CreateOK(cs, q) ==
    /\ q.pc \in {"createQuery", "createCommit"} => q.draft \in User
    /\ q.pc = "createCommit" =>
          q.start >= 1 /\ ~Taken(cs[q.start].users, q.draft)

(* The draft of an update is the user as it was read, with what the input  *)
(* gives put over it and no password.                                      *)
DraftOf(u, in) ==
    [email    |-> u.email,
     nickname |-> Given(in.nickname, u.nickname),
     country  |-> Given(in.country, u.country),
     password |-> Empty]

UpdateOK(cs, q) ==
    /\ q.pc \in {"updateRead", "updateCommit"} =>
          q.target \in Ids /\ q.input \in HttpUpdates
    /\ q.pc = "updateCommit" =>
          /\ q.start >= 1
          /\ q.target \in DOMAIN cs[q.start].users
          /\ q.draft = DraftOf(cs[q.start].users[q.target], q.input)

DeleteOK(q) == q.pc \in {"deleteLookup", "deleteCommit"} => q.target \in Ids

OldestOf(q) ==
    IF q.zookie = NoZookie THEN 1
    ELSE IF q.zookie = StrongRead THEN q.began ELSE q.zookie

Fresh(cs, q) ==
    \E t \in OldestOf(q) .. Len(cs) : q.result = Outcome(q, cs[t].users)

ReadOK(cs, q) ==
    /\ q.pc = "query" => q.op \in Reads
    /\ q.op \in Reads => OldestOf(q) >= 1
    /\ q.op \in Reads /\ q.pc = "idle" => Fresh(cs, q)

RequestOK(cs, r, q) ==
    /\ IsRequest(q)
    /\ RequestTyped(cs, r, q)
    /\ CreateOK(cs, q)
    /\ UpdateOK(cs, q)
    /\ DeleteOK(q)
    /\ ReadOK(cs, q)

Inv ==
    /\ CommitsOK(commits)
    /\ reqs = [r \in Request |-> reqs[r]]
    /\ \A r \in Request : RequestOK(commits, r, reqs[r])

-----------------------------------------------------------------------------
Latest(cs) == cs[Len(cs)].users

(* What a commit that leaves users us and writes keys has to observe.      *)
MayFollow(cs, us, keys) ==
    /\ us \in UserSets
    /\ keys \in SUBSET KeySet
    /\ Len(cs) < MaxCommits
    /\ \A i \in Ids : Same(i, Latest(cs), us) \/ <<"node", i>> \in keys
    /\ \A i \in Ids, e \in Email :
          HasEmail(us, i, e) =>
              HasEmail(Latest(cs), i, e) \/ <<"email", e>> \in keys
    /\ DOMAIN us \subseteq DOMAIN Latest(cs) \cup {Len(cs) + 1}
    /\ UniqueEmails(us)

Extension(cs, us, keys, ds) ==
    /\ ds \in Seq(CommitRecord)
    /\ Len(cs) \in Nat \ {0}
    /\ Len(ds) = Len(cs) + 1
    /\ \A t \in 1 .. Len(cs) : ds[t] = cs[t]
    /\ ds[Len(ds)].users = us
    /\ ds[Len(ds)].keys = keys

(* What Append makes of the commits, in the form the proofs use.           *)
LEMMA AppendExtends ==
    ASSUME NEW cs, CommitsOK(cs), NEW us \in UserSets,
           NEW keys \in SUBSET KeySet
    PROVE  Extension(cs, us, keys,
                     Append(cs, [users |-> us, keys |-> keys]))
<1> DEFINE c  == [users |-> us, keys |-> keys]
           ds == Append(cs, c)
<1>1. c \in CommitRecord
  BY DEF CommitRecord
<1>2. cs \in Seq(CommitRecord) /\ Len(cs) \in 1 .. MaxCommits
  BY DEF CommitsOK
<1>3. c.users = us /\ c.keys = keys
  OBVIOUS
<1> HIDE DEF c
<1>4. /\ ds \in Seq(CommitRecord)
      /\ Len(ds) = Len(cs) + 1
      /\ \A t \in 1 .. Len(cs) : ds[t] = cs[t]
      /\ ds[Len(cs) + 1] = c
  BY <1>1, <1>2, AppendProperties
<1>5. Len(cs) \in Nat \ {0}
  BY <1>2, UserAccountsAssumption DEF UserAccountsAssumption
<1> HIDE DEF ds
<1>6. Extension(cs, us, keys, ds)
  BY <1>3, <1>4, <1>5 DEF Extension
<1> QED
  BY <1>6 DEF ds, c

(* The conflict keys tell which nodes have changed: a commit that writes   *)
(* the key of every node it changes keeps it so.                           *)
LEMMA ExtensionKeepsNodes ==
    ASSUME NEW cs, NEW us, NEW keys, NEW ds,
           CommitsOK(cs), MayFollow(cs, us, keys),
           Extension(cs, us, keys, ds)
    PROVE  NodesKeyed(ds)
<1> DEFINE n == Len(cs)
<1>1. n \in Nat \ {0} /\ Len(ds) = n + 1
  BY DEF Extension
<1> SUFFICES ASSUME NEW t \in 1 .. Len(ds), NEW s \in 1 .. t, NEW i \in Ids
             PROVE  \/ Same(i, ds[s].users, ds[t].users)
                    \/ Wrote(ds, <<"node", i>>, s, t)
  BY DEF NodesKeyed
<1>2. \A u \in 1 .. n : ds[u] = cs[u]
  BY DEF Extension
<1>3. \A u \in 1 .. n : \A v \in 1 .. u :
          Same(i, cs[v].users, cs[u].users)
              \/ Wrote(cs, <<"node", i>>, v, u)
  BY DEF CommitsOK, NodesKeyed
<1>4. CASE t \in 1 .. n
  <2>1. s \in 1 .. n
    BY <1>1, <1>4
  <2>2. Same(i, cs[s].users, cs[t].users) \/ Wrote(cs, <<"node", i>>, s, t)
    BY <1>3, <1>4
  <2>3. Wrote(cs, <<"node", i>>, s, t) => Wrote(ds, <<"node", i>>, s, t)
    BY <1>1, <1>2, <1>4 DEF Wrote
  <2> QED
    BY <1>2, <1>4, <2>1, <2>2, <2>3
<1>5. CASE t = n + 1 /\ s = n + 1
  BY <1>5 DEF Same
<1>6. CASE t = n + 1 /\ s \in 1 .. n
  <2>1. \/ Same(i, cs[s].users, cs[n].users)
        \/ Wrote(cs, <<"node", i>>, s, n)
    BY <1>1, <1>3, <1>6
  <2>2. Same(i, cs[n].users, us) \/ <<"node", i>> \in keys
    BY DEF MayFollow, Latest
  <2>3. ds[t].users = us /\ ds[t].keys = keys /\ ds[s] = cs[s]
    BY <1>1, <1>2, <1>6 DEF Extension
  <2>4. CASE Wrote(cs, <<"node", i>>, s, n)
    BY <1>1, <1>2, <1>6, <2>4 DEF Wrote
  <2>5. CASE <<"node", i>> \in keys
    BY <1>1, <1>6, <2>3, <2>5 DEF Wrote
  <2>6. CASE Same(i, cs[s].users, cs[n].users) /\ Same(i, cs[n].users, us)
    BY <2>3, <2>6 DEF Same
  <2> QED
    BY <2>1, <2>2, <2>4, <2>5, <2>6
<1> QED
  BY <1>1, <1>4, <1>5, <1>6

(* So does a commit that writes the index entry of every address it gives  *)
(* to a user.                                                              *)
LEMMA ExtensionKeepsEmails ==
    ASSUME NEW cs, NEW us, NEW keys, NEW ds,
           CommitsOK(cs), MayFollow(cs, us, keys),
           Extension(cs, us, keys, ds)
    PROVE  EmailsKeyed(ds)
<1> DEFINE n == Len(cs)
<1>1. n \in Nat \ {0} /\ Len(ds) = n + 1
  BY DEF Extension
<1> SUFFICES ASSUME NEW t \in 1 .. Len(ds), NEW s \in 1 .. t,
                    NEW i \in Ids, NEW e \in Email,
                    HasEmail(ds[t].users, i, e)
             PROVE  \/ HasEmail(ds[s].users, i, e)
                    \/ Wrote(ds, <<"email", e>>, s, t)
  BY DEF EmailsKeyed
<1>2. \A u \in 1 .. n : ds[u] = cs[u]
  BY DEF Extension
<1>3. \A u \in 1 .. n : \A v \in 1 .. u :
          HasEmail(cs[u].users, i, e) =>
              HasEmail(cs[v].users, i, e)
                  \/ Wrote(cs, <<"email", e>>, v, u)
  BY DEF CommitsOK, EmailsKeyed
<1>4. CASE t \in 1 .. n
  <2>1. s \in 1 .. n
    BY <1>1, <1>4
  <2>2. HasEmail(cs[s].users, i, e) \/ Wrote(cs, <<"email", e>>, s, t)
    BY <1>2, <1>3, <1>4
  <2>3. Wrote(cs, <<"email", e>>, s, t) => Wrote(ds, <<"email", e>>, s, t)
    BY <1>1, <1>2, <1>4 DEF Wrote
  <2> QED
    BY <1>2, <1>4, <2>1, <2>2, <2>3
<1>5. CASE t = n + 1 /\ s = n + 1
  BY <1>5
<1>6. CASE t = n + 1 /\ s \in 1 .. n
  <2>1. ds[t].users = us /\ ds[t].keys = keys /\ ds[s] = cs[s]
    BY <1>1, <1>2, <1>6 DEF Extension
  <2>2. HasEmail(cs[n].users, i, e) \/ <<"email", e>> \in keys
    BY <2>1 DEF MayFollow, Latest
  <2>3. HasEmail(cs[n].users, i, e) =>
            HasEmail(cs[s].users, i, e) \/ Wrote(cs, <<"email", e>>, s, n)
    BY <1>1, <1>3, <1>6
  <2>4. CASE Wrote(cs, <<"email", e>>, s, n)
    BY <1>1, <1>2, <1>6, <2>4 DEF Wrote
  <2>5. CASE <<"email", e>> \in keys
    BY <1>1, <1>6, <2>1, <2>5 DEF Wrote
  <2>6. CASE HasEmail(cs[s].users, i, e)
    BY <2>1, <2>6
  <2> QED
    BY <2>2, <2>3, <2>4, <2>5, <2>6
<1> QED
  BY <1>1, <1>4, <1>5, <1>6

(* A commit brings back no user that was deleted.                          *)
LEMMA ExtensionKeepsUsers ==
    ASSUME NEW cs, NEW us, NEW keys, NEW ds,
           CommitsOK(cs), MayFollow(cs, us, keys),
           Extension(cs, us, keys, ds)
    PROVE  KeptSinceCreated(ds)
<1> DEFINE n == Len(cs)
<1>1. n \in Nat \ {0} /\ Len(ds) = n + 1
  BY DEF Extension
<1> SUFFICES ASSUME NEW t \in 1 .. Len(ds), NEW i \in DOMAIN ds[t].users
             PROVE  i <= t /\ \A s \in i .. t : i \in DOMAIN ds[s].users
  BY DEF KeptSinceCreated
<1>2. \A u \in 1 .. n : ds[u] = cs[u]
  BY DEF Extension
<1>3. \A u \in 1 .. n : \A j \in DOMAIN cs[u].users :
          j <= u /\ \A s \in j .. u : j \in DOMAIN cs[s].users
  BY DEF CommitsOK, KeptSinceCreated
<1>4. \A u \in 1 .. n + 1 : \A j \in DOMAIN ds[u].users : j \in Ids
  <2> SUFFICES ASSUME NEW u \in 1 .. n + 1, NEW j \in DOMAIN ds[u].users
               PROVE  j \in Ids
    OBVIOUS
  <2>1. ds[u] \in CommitRecord
    BY <1>1, ElementOfSeq DEF Extension
  <2> QED
    BY <2>1 DEF CommitRecord, UserSets
<1>5. i \in Nat /\ i >= 2
  BY <1>1, <1>4 DEF Ids
<1>6. CASE t \in 1 .. n
  <2>1. i <= t /\ \A s \in i .. t : i \in DOMAIN cs[s].users
    BY <1>2, <1>3, <1>6
  <2> QED
    BY <1>1, <1>2, <1>5, <1>6, <2>1
<1>7. CASE t = n + 1
  <2>1. ds[t].users = us
    BY <1>1, <1>7 DEF Extension
  <2>2. i \in DOMAIN cs[n].users \/ i = n + 1
    BY <2>1 DEF MayFollow, Latest
  <2>3. CASE i = n + 1
    BY <1>1, <1>7, <2>3
  <2>4. CASE i \in DOMAIN cs[n].users
    <3>1. i <= n /\ \A s \in i .. n : i \in DOMAIN cs[s].users
      BY <1>1, <1>3, <2>4
    <3> QED
      BY <1>1, <1>2, <1>5, <1>7, <3>1
  <2> QED
    BY <2>2, <2>3, <2>4
<1> QED
  BY <1>1, <1>6, <1>7

LEMMA ExtensionOK ==
    ASSUME NEW cs, NEW us, NEW keys, NEW ds,
           CommitsOK(cs), MayFollow(cs, us, keys),
           Extension(cs, us, keys, ds)
    PROVE  CommitsOK(ds)
<1>1. NodesKeyed(ds) /\ EmailsKeyed(ds) /\ KeptSinceCreated(ds)
  BY ExtensionKeepsNodes, ExtensionKeepsEmails, ExtensionKeepsUsers
<1>2. ds \in Seq(CommitRecord) /\ ds[Len(ds)].users = us
  BY DEF Extension
<1>3. Len(ds) \in 1 .. MaxCommits
  BY UserAccountsAssumption DEF Extension, MayFollow, UserAccountsAssumption
<1>4. UniqueEmails(ds[Len(ds)].users)
  BY <1>2 DEF MayFollow
<1> QED
  BY <1>1, <1>2, <1>3, <1>4 DEF CommitsOK

(* What a request relies on is not taken away by a commit: it is about     *)
(* the states there were.                                                  *)
LEMMA ExtensionKeepsRequest ==
    ASSUME NEW cs, NEW us, NEW keys, NEW ds,
           Extension(cs, us, keys, ds),
           NEW r, NEW q, RequestOK(cs, r, q)
    PROVE  RequestOK(ds, r, q)
<1> DEFINE n == Len(cs)
<1>1. n \in Nat \ {0} /\ Len(ds) = n + 1 /\ \A t \in 1 .. n : ds[t] = cs[t]
  BY DEF Extension
<1>2. IsRequest(q) /\ DeleteOK(q)
  BY DEF RequestOK
<1>3. RequestTyped(cs, r, q)
  BY DEF RequestOK
<1>4. RequestTyped(ds, r, q)
  BY <1>1, <1>3 DEF RequestTyped
<1>5. q.start \in 0 .. n
  BY <1>3 DEF RequestTyped
<1>6. q.start >= 1 => ds[q.start] = cs[q.start]
  BY <1>1, <1>5
<1>7. CreateOK(ds, q)
  <2>1. CreateOK(cs, q)
    BY DEF RequestOK
  <2> QED
    BY <1>6, <2>1 DEF CreateOK
<1>8. UpdateOK(ds, q)
  <2>1. UpdateOK(cs, q)
    BY DEF RequestOK
  <2> QED
    BY <1>6, <2>1 DEF UpdateOK
<1>9. ReadOK(ds, q)
  <2>1. ReadOK(cs, q)
    BY DEF RequestOK
  <2>2. ASSUME OldestOf(q) >= 1, Fresh(cs, q)
        PROVE  Fresh(ds, q)
    <3>1. PICK t \in OldestOf(q) .. n : q.result = Outcome(q, cs[t].users)
      BY <2>2 DEF Fresh
    <3>2. OldestOf(q) \in Int
      BY <1>1, <1>3 DEF RequestTyped, OldestOf, NoZookie
    <3>3. t \in OldestOf(q) .. n + 1 /\ ds[t] = cs[t]
      BY <1>1, <2>2, <3>2
    <3> QED
      BY <1>1, <3>1, <3>3 DEF Fresh
  <2> QED
    BY <2>1, <2>2 DEF ReadOK
<1> QED
  BY <1>2, <1>4, <1>7, <1>8, <1>9 DEF RequestOK

-----------------------------------------------------------------------------
LEMMA CommitsFacts ==
    ASSUME NEW cs, CommitsOK(cs)
    PROVE  /\ Len(cs) \in 1 .. MaxCommits
           /\ Len(cs) \in Nat \ {0}
           /\ MaxCommits \in Nat
           /\ \A t \in 1 .. Len(cs) :
                 cs[t].users \in UserSets /\ cs[t].keys \in SUBSET KeySet
<1>1. Len(cs) \in 1 .. MaxCommits /\ MaxCommits \in Nat
  BY UserAccountsAssumption DEF CommitsOK, UserAccountsAssumption
<1>2. \A t \in 1 .. Len(cs) : cs[t] \in CommitRecord
  BY ElementOfSeq DEF CommitsOK
<1>3. \A t \in 1 .. Len(cs) :
          cs[t].users \in UserSets /\ cs[t].keys \in SUBSET KeySet
  BY <1>2 DEF CommitRecord
<1> QED
  BY <1>1, <1>3

LEMMA UserSetFacts ==
    ASSUME NEW us \in UserSets
    PROVE  /\ DOMAIN us \subseteq Ids
           /\ \A i \in DOMAIN us : us[i] \in User
BY DEF UserSets

LEMMA UserSetIntro ==
    ASSUME NEW S \in SUBSET Ids, NEW f \in [S -> User]
    PROVE  f \in UserSets
BY DEF UserSets

(* A client with nothing under way relies on nothing.                      *)
LEMMA IdleOK ==
    ASSUME NEW cs, CommitsOK(cs), NEW r
    PROVE  RequestOK(cs, r, Idle)
<1>1. Len(cs) \in Nat \ {0}
  BY CommitsFacts
<1>2. IsRequest(Idle)
  BY DEF IsRequest, Idle, Fields
<1>3. RequestTyped(cs, r, Idle)
  BY <1>1 DEF RequestTyped, Idle, NoZookie, Pcs
<1>4. CreateOK(cs, Idle) /\ UpdateOK(cs, Idle) /\ DeleteOK(Idle)
  BY DEF CreateOK, UpdateOK, DeleteOK, Idle
<1>5. ReadOK(cs, Idle)
  BY DEF ReadOK, Idle, Reads
<1> QED
  BY <1>2, <1>3, <1>4, <1>5 DEF RequestOK

(* A step that commits nothing has to leave its own request with what that *)
(* one relies on next.                                                     *)
LEMMA QuietStep ==
    ASSUME Inv, NEW r \in Request, NEW q, RequestOK(commits, r, q),
           reqs' = [reqs EXCEPT ![r] = q], UNCHANGED commits
    PROVE  Inv'
<1>1. CommitsOK(commits)'
  BY DEF Inv
<1>2. reqs' = [x \in Request |-> IF x = r THEN q ELSE reqs[x]]
  BY DEF Inv
<1>3. \A x \in Request : RequestOK(commits, x, reqs[x])
  BY DEF Inv
<1>4. \A x \in Request : RequestOK(commits, x, reqs'[x])
  BY <1>2, <1>3
<1>5. \A x \in Request : RequestOK(commits', x, reqs'[x])
  BY <1>4
<1>6. reqs' = [x \in Request |-> reqs'[x]]
  BY <1>2
<1> QED
  BY <1>1, <1>5, <1>6 DEF Inv

LEMMA AnsweredStep ==
    ASSUME Inv, NEW r \in Request, Answered(r), UNCHANGED commits
    PROVE  Inv'
<1>1. CommitsOK(commits)
  BY DEF Inv
<1>2. RequestOK(commits, r, Idle)
  BY <1>1, IdleOK
<1> QED
  BY <1>2, QuietStep DEF Answered

(* A step that commits has to write the keys of what it changes and to     *)
(* keep the addresses unique.                                              *)
LEMMA CommitStep ==
    ASSUME Inv, NEW r \in Request, NEW us, NEW keys,
           MayFollow(commits, us, keys), Commit(r, us, keys)
    PROVE  Inv'
<1>1. CommitsOK(commits)
  BY DEF Inv
<1>2. us \in UserSets /\ keys \in SUBSET KeySet
  BY DEF MayFollow
<1>3. commits' = Append(commits, [users |-> us, keys |-> keys])
  BY DEF Commit
<1>4. Extension(commits, us, keys, commits')
  BY <1>1, <1>2, <1>3, AppendExtends
<1>5. CommitsOK(commits')
  BY <1>1, <1>4, ExtensionOK
<1>6. reqs' = [x \in Request |-> IF x = r THEN Idle ELSE reqs[x]]
  BY DEF Inv, Commit, Answered
<1>7. \A x \in Request : RequestOK(commits', x, reqs[x])
  <2>1. \A x \in Request : RequestOK(commits, x, reqs[x])
    BY DEF Inv
  <2> QED
    BY <1>4, <2>1, ExtensionKeepsRequest
<1>8. RequestOK(commits', r, Idle)
  BY <1>5, IdleOK
<1>9. \A x \in Request : RequestOK(commits', x, reqs'[x])
  BY <1>6, <1>7, <1>8
<1>10. reqs' = [x \in Request |-> reqs'[x]]
  BY <1>6
<1> QED
  BY <1>5, <1>9, <1>10 DEF Inv

-----------------------------------------------------------------------------
(* The actions.                                                            *)
LEMMA RegisterStep ==
    ASSUME Inv, NEW r \in Request, Register(r)
    PROVE  Inv'
<1>1. UNCHANGED commits
  BY DEF Register
<1>2. CASE Answered(r)
  BY <1>1, <1>2, AnsweredStep
<1>3. ASSUME NEW in \in Registration,
             Begin(r, [Idle EXCEPT !.pc = "createQuery", !.op = "register",
                                   !.draft = Normalised(in)])
      PROVE  Inv'
  <2> DEFINE d == Normalised(in)
             q == [Idle EXCEPT !.pc = "createQuery", !.op = "register",
                               !.draft = d]
  <2>1. d \in User
    BY UserAccountsAssumption
       DEF UserAccountsAssumption, Normalised, Registration, User
  <2>2. d \in Draft
    BY <2>1 DEF User, Draft
  <2> HIDE DEF d
  <2>3. /\ IsRequest(q)
        /\ q.pc = "createQuery" /\ q.op = "register" /\ q.target = 0
        /\ q.draft = d /\ q.start = 0 /\ q.began = 0 /\ q.zookie = NoZookie
    BY DEF Idle, IsRequest, Fields
  <2> HIDE DEF q
  <2>4. Len(commits) \in Nat \ {0}
    BY CommitsFacts DEF Inv
  <2>5. "register" \in Ops[r]
    BY DEF Register, Idles
  <2>6. RequestTyped(commits, r, q)
    BY <2>2, <2>3, <2>4, <2>5 DEF RequestTyped, NoZookie, Pcs
  <2>7. CreateOK(commits, q) /\ UpdateOK(commits, q) /\ DeleteOK(q)
    BY <2>1, <2>3 DEF CreateOK, UpdateOK, DeleteOK
  <2>8. ReadOK(commits, q)
    BY <2>3 DEF ReadOK, Reads
  <2>9. RequestOK(commits, r, q)
    BY <2>3, <2>6, <2>7, <2>8 DEF RequestOK
  <2>10. reqs' = [reqs EXCEPT ![r] = q]
    BY <1>3 DEF Begin, q, d
  <2> QED
    BY <1>1, <2>9, <2>10, QuietStep
<1> QED
  BY <1>2, <1>3 DEF Register

LEMMA CreateQueryStep ==
    ASSUME Inv, NEW r \in Request, CreateQuery(r)
    PROVE  Inv'
<1>1. UNCHANGED commits
  BY DEF CreateQuery
<1>2. CASE Answered(r)
  BY <1>1, <1>2, AnsweredStep
<1>3. CASE /\ ~Taken(Users, reqs[r].draft)
           /\ reqs' = [reqs EXCEPT ![r].pc = "createCommit",
                                   ![r].start = Now]
  <2> DEFINE q == [reqs[r] EXCEPT !.pc = "createCommit", !.start = Now]
             p == reqs[r]
  <2>1. reqs' = [reqs EXCEPT ![r] = q]
    BY <1>3 DEF Inv
  <2>2. RequestOK(commits, r, p)
    BY DEF Inv
  <2>3. p.pc = "createQuery"
    BY DEF CreateQuery
  <2>4. IsRequest(p)
    BY <2>2 DEF RequestOK
  <2>5. ~Taken(commits[Now].users, p.draft)
    BY <1>3 DEF Users, Now
  <2> HIDE DEF p
  <2> DEFINE q1 == [p EXCEPT !.pc = "createCommit", !.start = Now]
  <2>6. /\ IsRequest(q1)
        /\ q1.pc = "createCommit" /\ q1.op = p.op /\ q1.target = p.target
        /\ q1.draft = p.draft /\ q1.start = Now /\ q1.began = p.began
        /\ q1.zookie = p.zookie
    BY <2>4 DEF IsRequest, Fields
  <2> HIDE DEF q1
  <2>7. Now \in Nat \ {0} /\ Now = Len(commits)
    BY CommitsFacts DEF Inv, Now
  <2>8. RequestTyped(commits, r, q1)
    BY <2>2, <2>6, <2>7 DEF RequestOK, RequestTyped, Pcs
  <2>9. CreateOK(commits, q1)
    BY <2>2, <2>3, <2>5, <2>6, <2>7 DEF RequestOK, CreateOK
  <2>10. UpdateOK(commits, q1) /\ DeleteOK(q1)
    BY <2>6 DEF UpdateOK, DeleteOK
  <2>11. ReadOK(commits, q1)
    BY <2>2, <2>6 DEF RequestOK, ReadOK, OldestOf
  <2>12. RequestOK(commits, r, q1)
    BY <2>6, <2>8, <2>9, <2>10, <2>11 DEF RequestOK
  <2>13. q1 = q
    BY DEF q1, p
  <2> QED
    BY <1>1, <2>1, <2>12, <2>13, QuietStep
<1> QED
  BY <1>2, <1>3 DEF CreateQuery

(* A transaction that is not overtaken writes to a state in which what it  *)
(* has read of a node and of an address is still so.                       *)
LEMMA NotOvertaken ==
    ASSUME Inv, NEW start \in 1 .. Now, NEW keys,
           ~Overtaken(start, keys)
    PROVE  /\ \A i \in Ids : <<"node", i>> \in keys =>
                 Same(i, commits[start].users, Users)
           /\ \A i \in Ids, e \in Email :
                 <<"email", e>> \in keys /\ HasEmail(Users, i, e) =>
                     HasEmail(commits[start].users, i, e)
<1>1. Now \in Nat \ {0} /\ Now = Len(commits)
  BY CommitsFacts DEF Inv, Now
<1>2. \A k \in keys : ~Wrote(commits, k, start, Now)
  <2> SUFFICES ASSUME NEW k \in keys, NEW u \in start + 1 .. Now,
                      k \in commits[u].keys
               PROVE  FALSE
    BY DEF Wrote
  <2> QED
    BY DEF Overtaken
<1>3. Now \in 1 .. Now
  BY <1>1
<1>4. \A i \in Ids : \/ Same(i, commits[start].users, Users)
                     \/ Wrote(commits, <<"node", i>>, start, Now)
  <2>1. NodesKeyed(commits)
    BY DEF Inv, CommitsOK
  <2> QED
    BY <1>1, <1>3, <2>1 DEF NodesKeyed, Users
<1>5. \A i \in Ids, e \in Email :
          HasEmail(Users, i, e) =>
              \/ HasEmail(commits[start].users, i, e)
              \/ Wrote(commits, <<"email", e>>, start, Now)
  <2>1. EmailsKeyed(commits)
    BY DEF Inv, CommitsOK
  <2> QED
    BY <1>1, <1>3, <2>1 DEF EmailsKeyed, Users
<1> QED
  BY <1>2, <1>4, <1>5

LEMMA CreateCommitStep ==
    ASSUME Inv, NEW r \in Request, CreateCommit(r)
    PROVE  Inv'
<1> DEFINE d    == reqs[r].draft
           id   == Now + 1
           keys == Keys(id, d)
           us   == [i \in DOMAIN Users \cup {id} |->
                       IF i = id THEN d ELSE Users[i]]
           start == reqs[r].start
<1>1. CASE Answered(r) /\ UNCHANGED commits
  BY <1>1, AnsweredStep
<1>2. CASE ~Overtaken(start, keys) /\ Commit(r, us, keys)
  <2>1. /\ Now \in Nat \ {0} /\ Now = Len(commits) /\ MaxCommits \in Nat
        /\ Users \in UserSets
    BY CommitsFacts DEF Inv, Now, Users
  <2>2. Now < MaxCommits
    BY <1>2 DEF Commit
  <2>3. id \in Ids
    BY <2>1, <2>2 DEF Ids
  <2>4. /\ start \in 1 .. Now
        /\ d \in User
        /\ ~Taken(commits[start].users, d)
    <3>1. RequestTyped(commits, r, reqs[r]) /\ CreateOK(commits, reqs[r])
      BY DEF Inv, RequestOK
    <3>2. reqs[r].pc = "createCommit"
      BY DEF CreateCommit
    <3>3. reqs[r].start \in 0 .. Len(commits)
      BY <3>1 DEF RequestTyped
    <3>4. d \in User /\ start >= 1 /\ ~Taken(commits[start].users, d)
      BY <3>1, <3>2 DEF CreateOK
    <3> QED
      BY <2>1, <3>3, <3>4
  <2>5. DOMAIN Users \subseteq Ids /\ \A i \in DOMAIN Users : Users[i] \in User
    BY <2>1, UserSetFacts
  <2>6. d.email \in Email /\ d.nickname \in Nickname
    BY <2>4, UserAccountsAssumption DEF User, UserAccountsAssumption
  <2> HIDE DEF start, d
  <2>7. keys = {<<"node", id>>, <<"email", d.email>>,
                <<"nickname", d.nickname>>}
    BY DEF Keys
  <2>8. keys \in SUBSET KeySet
    BY <2>3, <2>6, <2>7 DEF KeySet
  <2> HIDE DEF keys, id
  <2>9. us \in UserSets
    <3>1. DOMAIN Users \cup {id} \in SUBSET Ids
      BY <2>3, <2>5
    <3>2. us \in [DOMAIN Users \cup {id} -> User]
      BY <2>4, <2>5
    <3> QED
      BY <3>1, <3>2, UserSetIntro
  <2>10. \A i \in Ids : Same(i, Users, us) \/ <<"node", i>> \in keys
    BY <2>7 DEF Same
  <2>11. \A i \in Ids, e \in Email :
            HasEmail(us, i, e) =>
                HasEmail(Users, i, e) \/ <<"email", e>> \in keys
    BY <2>7 DEF HasEmail
  <2>12. \A i \in DOMAIN Users : Users[i].email # d.email
    <3> SUFFICES ASSUME NEW i \in DOMAIN Users, Users[i].email = d.email
                 PROVE  FALSE
      OBVIOUS
    <3>1. i \in Ids /\ HasEmail(Users, i, d.email)
      BY <2>5 DEF HasEmail
    <3>2. <<"email", d.email>> \in keys
      BY <2>7
    <3>3. HasEmail(commits[start].users, i, d.email)
      BY <1>2, <2>4, <2>6, <3>1, <3>2, NotOvertaken
    <3> QED
      BY <2>4, <3>3 DEF HasEmail, Taken
  <2>13. UniqueEmails(us)
    <3>1. UniqueEmails(Users)
      BY DEF Inv, CommitsOK, Users
    <3> QED
      BY <2>12, <3>1 DEF UniqueEmails
  <2>14. DOMAIN us \subseteq DOMAIN Users \cup {Len(commits) + 1}
    BY <2>1 DEF id
  <2>15. Latest(commits) = Users
    BY DEF Latest, Users
  <2> HIDE DEF us
  <2>16. MayFollow(commits, us, keys)
    BY <2>1, <2>2, <2>8, <2>9, <2>10, <2>11, <2>13, <2>14, <2>15
       DEF MayFollow
  <2> QED
    BY <1>2, <2>16, CommitStep
<1> QED
  BY <1>1, <1>2 DEF CreateCommit

LEMMA UpdateStep ==
    ASSUME Inv, NEW r \in Request, Update(r)
    PROVE  Inv'
<1>1. UNCHANGED commits
  BY DEF Update
<1>2. CASE Answered(r)
  BY <1>1, <1>2, AnsweredStep
<1>3. ASSUME NEW i \in Ids \cap 1 .. Now,
             NEW in \in HttpUpdates \cup GrpcUpdates,
             Begin(r, [Idle EXCEPT !.pc = "updateRead", !.op = "update",
                                   !.target = i, !.input = in])
      PROVE  Inv'
  <2> DEFINE q == [Idle EXCEPT !.pc = "updateRead", !.op = "update",
                               !.target = i, !.input = in]
  <2>1. in \in HttpUpdates
    BY DEF GrpcUpdates
  <2>2. /\ IsRequest(q)
        /\ q.pc = "updateRead" /\ q.op = "update" /\ q.target = i
        /\ q.input = in /\ q.draft = None /\ q.start = 0 /\ q.began = 0
        /\ q.zookie = NoZookie
    BY DEF Idle, IsRequest, Fields
  <2>3. reqs' = [reqs EXCEPT ![r] = q]
    BY <1>3 DEF Begin
  <2> HIDE DEF q
  <2>4. Len(commits) \in Nat \ {0}
    BY CommitsFacts DEF Inv
  <2>5. "update" \in Ops[r]
    BY DEF Update, Idles
  <2>6. RequestTyped(commits, r, q)
    BY <2>2, <2>4, <2>5 DEF RequestTyped, NoZookie, Pcs
  <2>7. CreateOK(commits, q) /\ UpdateOK(commits, q) /\ DeleteOK(q)
    BY <2>1, <2>2 DEF CreateOK, UpdateOK, DeleteOK
  <2>8. ReadOK(commits, q)
    BY <2>2 DEF ReadOK, Reads
  <2>9. RequestOK(commits, r, q)
    BY <2>2, <2>6, <2>7, <2>8 DEF RequestOK
  <2> QED
    BY <1>1, <2>3, <2>9, QuietStep
<1> QED
  BY <1>2, <1>3 DEF Update

LEMMA DeleteStep ==
    ASSUME Inv, NEW r \in Request, Delete(r)
    PROVE  Inv'
<1>1. UNCHANGED commits
  BY DEF Delete
<1>2. CASE Answered(r)
  BY <1>1, <1>2, AnsweredStep
<1>3. ASSUME NEW i \in Ids \cap 1 .. Now,
             Begin(r, [Idle EXCEPT !.pc = "deleteLookup", !.op = "delete",
                                   !.target = i])
      PROVE  Inv'
  <2> DEFINE q == [Idle EXCEPT !.pc = "deleteLookup", !.op = "delete",
                               !.target = i]
  <2>1. /\ IsRequest(q)
        /\ q.pc = "deleteLookup" /\ q.op = "delete" /\ q.target = i
        /\ q.draft = None /\ q.start = 0 /\ q.began = 0
        /\ q.zookie = NoZookie
    BY DEF Idle, IsRequest, Fields
  <2>2. reqs' = [reqs EXCEPT ![r] = q]
    BY <1>3 DEF Begin
  <2> HIDE DEF q
  <2>3. Len(commits) \in Nat \ {0}
    BY CommitsFacts DEF Inv
  <2>4. "delete" \in Ops[r]
    BY DEF Delete, Idles
  <2>5. RequestTyped(commits, r, q)
    BY <2>1, <2>3, <2>4 DEF RequestTyped, NoZookie, Pcs
  <2>6. CreateOK(commits, q) /\ UpdateOK(commits, q) /\ DeleteOK(q)
    BY <2>1 DEF CreateOK, UpdateOK, DeleteOK
  <2>7. ReadOK(commits, q)
    BY <2>1 DEF ReadOK, Reads
  <2>8. RequestOK(commits, r, q)
    BY <2>1, <2>5, <2>6, <2>7 DEF RequestOK
  <2> QED
    BY <1>1, <2>2, <2>8, QuietStep
<1> QED
  BY <1>2, <1>3 DEF Delete

LEMMA DraftTyped ==
    ASSUME NEW u \in User, NEW in \in HttpUpdates
    PROVE  DraftOf(u, in) \in Draft
<1>1. /\ in.nickname \in Nickname \cup {Empty, NotGiven}
      /\ in.country \in Country \cup {Empty, NotGiven}
  BY DEF HttpUpdates
<1>2. u.email \in {Lower[e] : e \in Email} /\ u.nickname \in Nickname
      /\ u.country \in Country
  BY DEF User
<1>3. Given(in.nickname, u.nickname) \in Nickname \cup {Empty}
  BY <1>1, <1>2 DEF Given
<1>4. Given(in.country, u.country) \in Country \cup {Empty}
  BY <1>1, <1>2 DEF Given
<1> QED
  BY <1>2, <1>3, <1>4 DEF DraftOf, Draft

(* What an update makes of the user it has read: the fields it was not     *)
(* given, and those it was given empty, keep what is stored.               *)
LEMMA MergedFields ==
    ASSUME NEW u \in User, NEW in \in HttpUpdates
    PROVE  LET new == Merged(u, DraftOf(u, in))
           IN  /\ new \in User
               /\ new.email = u.email
               /\ new.password = u.password
               /\ in.nickname = NotGiven => new.nickname = u.nickname
               /\ in.country = NotGiven => new.country = u.country
<1> DEFINE d   == DraftOf(u, in)
           new == Merged(u, d)
           F   == {"email", "nickname", "country", "password"}
<1>1. /\ in.nickname \in Nickname \cup {Empty, NotGiven}
      /\ in.country \in Country \cup {Empty, NotGiven}
  BY DEF HttpUpdates
<1>2. /\ u.email \in {Lower[e] : e \in Email} /\ u.nickname \in Nickname
      /\ u.country \in Country /\ u.password \in Password
  BY DEF User
<1>3. /\ DOMAIN d = F
      /\ d.email = u.email
      /\ d.nickname = Given(in.nickname, u.nickname)
      /\ d.country = Given(in.country, u.country)
      /\ d.password = Empty
  BY DEF DraftOf
<1> HIDE DEF d
<1>4. new = [f \in F |-> IF d[f] = Empty THEN u[f] ELSE d[f]]
  BY <1>3 DEF Merged
<1> HIDE DEF new
<1>5. new.email = u.email /\ new.password = u.password
  BY <1>3, <1>4
<1>6. /\ new.nickname \in Nickname
      /\ in.nickname = NotGiven => new.nickname = u.nickname
  BY <1>1, <1>2, <1>3, <1>4 DEF Given
<1>7. /\ new.country \in Country
      /\ in.country = NotGiven => new.country = u.country
  BY <1>1, <1>2, <1>3, <1>4 DEF Given
<1>8. new = [email |-> new.email, nickname |-> new.nickname,
             country |-> new.country, password |-> new.password]
  BY <1>4
<1>9. new \in User
  BY <1>2, <1>5, <1>6, <1>7, <1>8 DEF User
<1>10. /\ new \in User
       /\ new.email = u.email
       /\ new.password = u.password
       /\ in.nickname = NotGiven => new.nickname = u.nickname
       /\ in.country = NotGiven => new.country = u.country
  BY <1>5, <1>6, <1>7, <1>9
<1> QED
  BY <1>10 DEF new, d

LEMMA UpdateReadStep ==
    ASSUME Inv, NEW r \in Request, UpdateRead(r)
    PROVE  Inv'
<1> DEFINE p == reqs[r]
           i == reqs[r].target
           in == reqs[r].input
           d == [email    |-> Users[i].email,
                 nickname |-> Given(in.nickname, Users[i].nickname),
                 country  |-> Given(in.country, Users[i].country),
                 password |-> Empty]
<1>1. UNCHANGED commits
  BY DEF UpdateRead
<1>2. CASE Answered(r)
  BY <1>1, <1>2, AnsweredStep
<1>3. CASE /\ i \in DOMAIN Users
           /\ reqs' = [reqs EXCEPT ![r].pc = "updateCommit",
                                   ![r].start = Now, ![r].draft = d]
  <2> DEFINE q == [p EXCEPT !.pc = "updateCommit", !.start = Now,
                            !.draft = d]
  <2>1. reqs' = [reqs EXCEPT ![r] = q]
    BY <1>3 DEF Inv
  <2>2. RequestOK(commits, r, p)
    BY DEF Inv
  <2>3. p.pc = "updateRead"
    BY DEF UpdateRead
  <2>4. IsRequest(p) /\ UpdateOK(commits, p)
    BY <2>2 DEF RequestOK
  <2>5. i \in Ids /\ in \in HttpUpdates
    BY <2>3, <2>4 DEF UpdateOK
  <2>6. Now \in Nat \ {0} /\ Now = Len(commits) /\ Users \in UserSets
    BY CommitsFacts DEF Inv, Now, Users
  <2>7. d = DraftOf(Users[i], in)
    BY DEF DraftOf
  <2>8. d \in Draft
    <3>1. Users[i] \in User
      BY <1>3, <2>6, UserSetFacts
    <3> QED
      BY <2>5, <2>7, <3>1, DraftTyped
  <2> HIDE DEF d
  <2> DEFINE p1 == p
             q1 == [p1 EXCEPT !.pc = "updateCommit", !.start = Now,
                              !.draft = d]
  <2>9. p1 = p /\ q1 = q
    OBVIOUS
  <2> HIDE DEF p1
  <2>10. /\ IsRequest(q1)
         /\ q1.pc = "updateCommit" /\ q1.op = p1.op
         /\ q1.target = p1.target /\ q1.input = p1.input
         /\ q1.draft = d /\ q1.start = Now /\ q1.began = p1.began
         /\ q1.zookie = p1.zookie
    BY <2>4, <2>9 DEF IsRequest, Fields
  <2> HIDE DEF q1
  <2>11. RequestTyped(commits, r, q1)
    BY <2>2, <2>6, <2>8, <2>9, <2>10 DEF RequestOK, RequestTyped, Pcs
  <2>12. UpdateOK(commits, q1)
    <3>1. commits[q1.start].users = Users
      BY <2>6, <2>10 DEF Users
    <3> QED
      BY <1>3, <2>5, <2>6, <2>7, <2>9, <2>10, <3>1 DEF UpdateOK
  <2>13. CreateOK(commits, q1) /\ DeleteOK(q1)
    BY <2>10 DEF CreateOK, DeleteOK
  <2>14. ReadOK(commits, q1)
    BY <2>2, <2>9, <2>10 DEF RequestOK, ReadOK, OldestOf
  <2>15. RequestOK(commits, r, q1)
    BY <2>10, <2>11, <2>12, <2>13, <2>14 DEF RequestOK
  <2> QED
    BY <1>1, <2>1, <2>9, <2>15, QuietStep
<1> QED
  BY <1>2, <1>3 DEF UpdateRead

(* An update that commits does so on the user it has read.                 *)
LEMMA UpdatesWhatItRead ==
    ASSUME Inv, NEW r \in Request, reqs[r].pc = "updateCommit",
           ~Overtaken(reqs[r].start,
                Keys(reqs[r].target,
                     commits[reqs[r].start].users[reqs[r].target]))
    PROVE  /\ reqs[r].target \in DOMAIN Users
           /\ reqs[r].input \in HttpUpdates
           /\ Users[reqs[r].target]
                  = commits[reqs[r].start].users[reqs[r].target]
           /\ reqs[r].draft = DraftOf(Users[reqs[r].target], reqs[r].input)
<1> DEFINE i     == reqs[r].target
           start == reqs[r].start
           keys  == Keys(i, commits[start].users[i])
<1>1. RequestTyped(commits, r, reqs[r]) /\ UpdateOK(commits, reqs[r])
  BY DEF Inv, RequestOK
<1>2. /\ i \in Ids
      /\ reqs[r].input \in HttpUpdates
      /\ start >= 1
      /\ i \in DOMAIN commits[start].users
      /\ reqs[r].draft = DraftOf(commits[start].users[i], reqs[r].input)
  BY <1>1 DEF UpdateOK
<1>3. start \in 1 .. Now
  BY <1>1, <1>2 DEF RequestTyped, Now
<1>4. <<"node", i>> \in keys
  BY DEF Keys
<1>5. Same(i, commits[start].users, Users)
  <2> HIDE DEF keys, start, i
  <2>1. ~Overtaken(start, keys)
    BY DEF keys, start, i
  <2> QED
    BY <1>2, <1>3, <1>4, <2>1, NotOvertaken
<1> QED
  BY <1>2, <1>5 DEF Same

LEMMA UpdateCommitStep ==
    ASSUME Inv, NEW r \in Request, UpdateCommit(r)
    PROVE  Inv'
<1> DEFINE i    == reqs[r].target
           start == reqs[r].start
           old  == commits[start].users[i]
           new  == Merged(old, reqs[r].draft)
           keys == Keys(i, old) \cup Keys(i, new)
           us   == [Users EXCEPT ![i] = new]
<1>1. CASE Answered(r) /\ UNCHANGED commits
  BY <1>1, AnsweredStep
<1>2. CASE ~Overtaken(start, keys) /\ Commit(r, us, keys)
  <2>1. /\ Now \in Nat \ {0} /\ Now = Len(commits) /\ MaxCommits \in Nat
        /\ Users \in UserSets
    BY CommitsFacts DEF Inv, Now, Users
  <2>2. Now < MaxCommits
    BY <1>2 DEF Commit
  <2>3. reqs[r].pc = "updateCommit"
    BY DEF UpdateCommit
  <2>4. ~Overtaken(start, Keys(i, old))
    BY <1>2 DEF Overtaken
  <2>5. /\ i \in DOMAIN Users
        /\ reqs[r].input \in HttpUpdates
        /\ old = Users[i]
        /\ reqs[r].draft = DraftOf(Users[i], reqs[r].input)
    BY <2>3, <2>4, UpdatesWhatItRead
  <2>6. DOMAIN Users \subseteq Ids /\ \A j \in DOMAIN Users : Users[j] \in User
    BY <2>1, UserSetFacts
  <2>7. new \in User /\ new.email = Users[i].email
    <3>1. new = Merged(Users[i], DraftOf(Users[i], reqs[r].input))
      BY <2>5
    <3> QED
      BY <2>5, <2>6, <3>1, MergedFields
  <2>8. old \in User
    BY <2>5, <2>6
  <2> HIDE DEF new, old, i, start
  <2>9. keys = {<<"node", i>>, <<"email", old.email>>,
                <<"nickname", old.nickname>>, <<"email", new.email>>,
                <<"nickname", new.nickname>>}
    BY DEF Keys
  <2>10. keys \in SUBSET KeySet
    <3>1. \A u \in User : u.email \in Email /\ u.nickname \in Nickname
      BY UserAccountsAssumption DEF User, UserAccountsAssumption
    <3>2. i \in Ids
      BY <2>5, <2>6
    <3> QED
      BY <2>7, <2>8, <2>9, <3>1, <3>2 DEF KeySet
  <2> HIDE DEF keys
  <2>11. us \in UserSets
    <3>1. us \in [DOMAIN Users -> User]
      <4>1. Users \in [DOMAIN Users -> User]
        BY <2>1 DEF UserSets
      <4> QED
        BY <2>5, <2>7, <4>1
    <3> QED
      BY <2>6, <3>1, UserSetIntro
  <2>12. /\ DOMAIN us = DOMAIN Users
         /\ us[i] = new
         /\ \A j \in DOMAIN Users \ {i} : us[j] = Users[j]
    BY <2>5
  <2> HIDE DEF us
  <2>13. \A j \in Ids : Same(j, Users, us) \/ <<"node", j>> \in keys
    BY <2>9, <2>12 DEF Same
  <2>14. \A j \in DOMAIN Users : us[j].email = Users[j].email
    BY <2>7, <2>12
  <2>15. \A j \in Ids, e \in Email :
            HasEmail(us, j, e) =>
                HasEmail(Users, j, e) \/ <<"email", e>> \in keys
    BY <2>12, <2>14 DEF HasEmail
  <2>16. UniqueEmails(us)
    <3>1. UniqueEmails(Users)
      BY DEF Inv, CommitsOK, Users
    <3> QED
      BY <2>12, <2>14, <3>1 DEF UniqueEmails
  <2>17. DOMAIN us \subseteq DOMAIN Users \cup {Len(commits) + 1}
    BY <2>12
  <2>18. Latest(commits) = Users
    BY DEF Latest, Users
  <2>19. MayFollow(commits, us, keys)
    BY <2>1, <2>2, <2>10, <2>11, <2>13, <2>15, <2>16, <2>17, <2>18
       DEF MayFollow
  <2>20. Commit(r, us, keys)
    BY <1>2 DEF us, keys, new, old, i, start
  <2> QED
    BY <2>19, <2>20, CommitStep
<1> QED
  BY <1>1, <1>2 DEF UpdateCommit

LEMMA DeleteLookupStep ==
    ASSUME Inv, NEW r \in Request, DeleteLookup(r)
    PROVE  Inv'
<1>1. UNCHANGED commits
  BY DEF DeleteLookup
<1>2. CASE Answered(r)
  BY <1>1, <1>2, AnsweredStep
<1>3. CASE reqs' = [reqs EXCEPT ![r].pc = "deleteCommit"]
  <2> DEFINE p == reqs[r]
             q == [p EXCEPT !.pc = "deleteCommit"]
  <2>1. reqs' = [reqs EXCEPT ![r] = q]
    BY <1>3 DEF Inv
  <2>2. RequestOK(commits, r, p)
    BY DEF Inv
  <2>3. p.pc = "deleteLookup"
    BY DEF DeleteLookup
  <2>4. IsRequest(p)
    BY <2>2 DEF RequestOK
  <2> HIDE DEF p
  <2>5. /\ IsRequest(q)
        /\ q.pc = "deleteCommit" /\ q.op = p.op /\ q.target = p.target
        /\ q.draft = p.draft /\ q.start = p.start /\ q.began = p.began
        /\ q.zookie = p.zookie
    BY <2>4 DEF IsRequest, Fields
  <2> HIDE DEF q
  <2>6. RequestTyped(commits, r, q)
    BY <2>2, <2>5 DEF RequestOK, RequestTyped, Pcs
  <2>7. CreateOK(commits, q) /\ UpdateOK(commits, q)
    BY <2>5 DEF CreateOK, UpdateOK
  <2>8. DeleteOK(q)
    BY <2>2, <2>3, <2>5 DEF RequestOK, DeleteOK
  <2>9. ReadOK(commits, q)
    BY <2>2, <2>5 DEF RequestOK, ReadOK, OldestOf
  <2>10. RequestOK(commits, r, q)
    BY <2>5, <2>6, <2>7, <2>8, <2>9 DEF RequestOK
  <2> QED
    BY <1>1, <2>1, <2>10, QuietStep
<1> QED
  BY <1>2, <1>3 DEF DeleteLookup

LEMMA DeleteCommitStep ==
    ASSUME Inv, NEW r \in Request, DeleteCommit(r)
    PROVE  Inv'
<1> DEFINE i    == reqs[r].target
           keys == IF i \in DOMAIN Users THEN Keys(i, Users[i])
                                         ELSE {<<"node", i>>}
           us   == [x \in DOMAIN Users \ {i} |-> Users[x]]
<1>1. /\ Now \in Nat \ {0} /\ Now = Len(commits) /\ MaxCommits \in Nat
      /\ Users \in UserSets
  BY CommitsFacts DEF Inv, Now, Users
<1>2. Commit(r, us, keys)
  BY DEF DeleteCommit
<1>3. Now < MaxCommits
  BY <1>2 DEF Commit
<1>4. i \in Ids
  <2>1. DeleteOK(reqs[r])
    BY DEF Inv, RequestOK
  <2> QED
    BY <2>1 DEF DeleteOK, DeleteCommit
<1>5. DOMAIN Users \subseteq Ids /\ \A j \in DOMAIN Users : Users[j] \in User
  BY <1>1, UserSetFacts
<1> HIDE DEF i
<1>6. <<"node", i>> \in keys
  BY DEF Keys
<1>7. keys \in SUBSET KeySet
  <2>1. \A u \in User : u.email \in Email /\ u.nickname \in Nickname
    BY UserAccountsAssumption DEF User, UserAccountsAssumption
  <2>2. CASE i \in DOMAIN Users
    <3>1. keys = {<<"node", i>>, <<"email", Users[i].email>>,
                  <<"nickname", Users[i].nickname>>}
      BY <2>2 DEF Keys
    <3> QED
      BY <1>4, <1>5, <2>1, <2>2, <3>1 DEF KeySet
  <2>3. CASE i \notin DOMAIN Users
    BY <1>4, <2>3 DEF KeySet
  <2> QED
    BY <2>2, <2>3
<1> HIDE DEF keys
<1>8. us \in UserSets
  <2>1. us \in [DOMAIN Users \ {i} -> User]
    BY <1>5
  <2>2. DOMAIN Users \ {i} \in SUBSET Ids
    BY <1>5
  <2> QED
    BY <2>1, <2>2, UserSetIntro
<1>9. /\ DOMAIN us = DOMAIN Users \ {i}
      /\ \A j \in DOMAIN us : us[j] = Users[j]
  OBVIOUS
<1> HIDE DEF us
<1>10. \A j \in Ids : Same(j, Users, us) \/ <<"node", j>> \in keys
  BY <1>6, <1>9 DEF Same
<1>11. \A j \in Ids, e \in Email :
          HasEmail(us, j, e) =>
              HasEmail(Users, j, e) \/ <<"email", e>> \in keys
  BY <1>9 DEF HasEmail
<1>12. UniqueEmails(us)
  <2>1. UniqueEmails(Users)
    BY DEF Inv, CommitsOK, Users
  <2> QED
    BY <1>9, <2>1 DEF UniqueEmails
<1>13. DOMAIN us \subseteq DOMAIN Users \cup {Len(commits) + 1}
  BY <1>9
<1>14. Latest(commits) = Users
  BY DEF Latest, Users
<1>15. MayFollow(commits, us, keys)
  BY <1>1, <1>3, <1>7, <1>8, <1>10, <1>11, <1>12, <1>13, <1>14
     DEF MayFollow
<1> QED
  BY <1>2, <1>15, CommitStep

(* A read that begins relies on its zookie alone.                          *)
LEMMA ReadBegins ==
    ASSUME Inv, NEW r \in Request, NEW q, IsRequest(q),
           q.pc = "query", q.op \in Reads, q.op \in Ops[r],
           q.target \in Ids \cup {0}, q.draft = None, q.start = 0,
           q.began \in 0 .. Now, q.zookie \in NoZookie .. Now,
           OldestOf(q) >= 1,
           reqs' = [reqs EXCEPT ![r] = q], UNCHANGED commits
    PROVE  Inv'
<1>1. Now = Len(commits) /\ Now \in Nat
  BY CommitsFacts DEF Inv, Now
<1>2. RequestTyped(commits, r, q)
  BY <1>1 DEF RequestTyped, Pcs
<1>3. CreateOK(commits, q) /\ UpdateOK(commits, q) /\ DeleteOK(q)
  BY DEF CreateOK, UpdateOK, DeleteOK
<1>4. ReadOK(commits, q)
  BY DEF ReadOK
<1>5. RequestOK(commits, r, q)
  BY <1>2, <1>3, <1>4 DEF RequestOK
<1> QED
  BY <1>5, QuietStep

LEMMA LoginStep ==
    ASSUME Inv, NEW r \in Request, Login(r)
    PROVE  Inv'
<1>1. UNCHANGED commits
  BY DEF Login
<1>2. CASE Answered(r)
  BY <1>1, <1>2, AnsweredStep
<1>3. ASSUME NEW in \in Credentials,
             Begin(r, [Idle EXCEPT !.pc = "query", !.op = "login",
                                   !.input = Normalised(in),
                                   !.zookie = StrongRead, !.began = Now])
      PROVE  Inv'
  <2> DEFINE d == Normalised(in)
             q == [Idle EXCEPT !.pc = "query", !.op = "login",
                               !.input = d,
                               !.zookie = StrongRead, !.began = Now]
  <2> HIDE DEF d
  <2>1. /\ IsRequest(q)
        /\ q.pc = "query" /\ q.op = "login" /\ q.target = 0
        /\ q.draft = None /\ q.start = 0 /\ q.began = Now
        /\ q.zookie = StrongRead
    BY DEF Idle, IsRequest, Fields
  <2>2. reqs' = [reqs EXCEPT ![r] = q]
    BY <1>3 DEF Begin, d
  <2> HIDE DEF q
  <2>3. Now \in Nat \ {0}
    BY CommitsFacts DEF Inv, Now
  <2>4. q.op \in Reads /\ q.op \in Ops[r]
    BY <2>1 DEF Reads, Login, Idles
  <2>5. OldestOf(q) >= 1
    BY <2>1, <2>3 DEF OldestOf, StrongRead, NoZookie
  <2>6. q.zookie \in NoZookie .. Now /\ q.began \in 0 .. Now
    BY <2>1, <2>3 DEF StrongRead, NoZookie
  <2> QED
    BY <1>1, <2>1, <2>2, <2>4, <2>5, <2>6, ReadBegins
<1> QED
  BY <1>2, <1>3 DEF Login

LEMMA GetUserStep ==
    ASSUME Inv, NEW r \in Request, GetUser(r)
    PROVE  Inv'
<1>1. PICK i \in Ids, z \in ReadZookies :
          Begin(r, [Idle EXCEPT !.pc = "query", !.op = "get", !.target = i,
                                !.zookie = z])
  BY DEF GetUser
<1> DEFINE q == [Idle EXCEPT !.pc = "query", !.op = "get", !.target = i,
                             !.zookie = z]
<1>2. /\ IsRequest(q)
      /\ q.pc = "query" /\ q.op = "get" /\ q.target = i
      /\ q.draft = None /\ q.start = 0 /\ q.began = 0
      /\ q.zookie = z
  BY DEF Idle, IsRequest, Fields
<1>3. reqs' = [reqs EXCEPT ![r] = q]
  BY <1>1 DEF Begin
<1> HIDE DEF q
<1>4. Now \in Nat \ {0}
  BY CommitsFacts DEF Inv, Now
<1>5. q.op \in Reads /\ q.op \in Ops[r]
  BY <1>2 DEF Reads, GetUser, Idles
<1>6. OldestOf(q) >= 1
  BY <1>2, <1>4 DEF OldestOf, ReadZookies, StrongRead, NoZookie
<1>7. q.zookie \in NoZookie .. Now /\ q.began \in 0 .. Now
  BY <1>2, <1>4 DEF ReadZookies, NoZookie
<1>8. UNCHANGED commits
  BY DEF GetUser
<1> QED
  BY <1>2, <1>3, <1>5, <1>6, <1>7, <1>8, ReadBegins

LEMMA ListUsersStep ==
    ASSUME Inv, NEW r \in Request, ListUsers(r)
    PROVE  Inv'
<1>1. PICK in \in ListFilter, z \in ReadZookies :
          Begin(r, [Idle EXCEPT !.pc = "query", !.op = "list", !.input = in,
                                !.zookie = z])
  BY DEF ListUsers
<1> DEFINE q == [Idle EXCEPT !.pc = "query", !.op = "list", !.input = in,
                             !.zookie = z]
<1>2. /\ IsRequest(q)
      /\ q.pc = "query" /\ q.op = "list" /\ q.target = 0
      /\ q.draft = None /\ q.start = 0 /\ q.began = 0
      /\ q.zookie = z
  BY DEF Idle, IsRequest, Fields
<1>3. reqs' = [reqs EXCEPT ![r] = q]
  BY <1>1 DEF Begin
<1> HIDE DEF q
<1>4. Now \in Nat \ {0}
  BY CommitsFacts DEF Inv, Now
<1>5. q.op \in Reads /\ q.op \in Ops[r]
  BY <1>2 DEF Reads, ListUsers, Idles
<1>6. OldestOf(q) >= 1
  BY <1>2, <1>4 DEF OldestOf, ReadZookies, StrongRead, NoZookie
<1>7. q.zookie \in NoZookie .. Now /\ q.began \in 0 .. Now
  BY <1>2, <1>4 DEF ReadZookies, NoZookie
<1>8. UNCHANGED commits
  BY DEF ListUsers
<1> QED
  BY <1>2, <1>3, <1>5, <1>6, <1>7, <1>8, ReadBegins

(* A read is answered from a state its zookie allows.                      *)
LEMMA QueryStep ==
    ASSUME Inv, NEW r \in Request, Query(r)
    PROVE  Inv'
<1> DEFINE p == reqs[r]
<1>1. PICK t \in ReadTimes(p.zookie) :
          reqs' = [reqs EXCEPT ![r].pc = "idle",
                               ![r].result = Outcome(p, commits[t].users)]
  BY DEF Query
<1> DEFINE res == Outcome(p, commits[t].users)
           q   == [p EXCEPT !.pc = "idle", !.result = res]
<1>2. reqs' = [reqs EXCEPT ![r] = q]
  BY <1>1 DEF Inv
<1>3. RequestOK(commits, r, p) /\ p.pc = "query"
  BY DEF Inv, Query
<1>4. IsRequest(p) /\ RequestTyped(commits, r, p) /\ ReadOK(commits, p)
  BY <1>3 DEF RequestOK
<1>5. Now \in Nat \ {0} /\ Now = Len(commits)
  BY CommitsFacts DEF Inv, Now
<1>6. t \in OldestOf(p) .. Now
  BY <1>3, <1>4, <1>5
     DEF ReadTimes, OldestOf, RequestTyped, NoZookie, StrongRead
<1> HIDE DEF p
<1>7. res = Outcome(p, commits[t].users)
  OBVIOUS
<1> HIDE DEF res
<1>8. /\ IsRequest(q)
      /\ q.pc = "idle" /\ q.op = p.op /\ q.target = p.target
      /\ q.input = p.input /\ q.draft = p.draft /\ q.start = p.start
      /\ q.began = p.began /\ q.zookie = p.zookie /\ q.result = res
  BY <1>4 DEF IsRequest, Fields
<1> HIDE DEF q
<1>9. RequestTyped(commits, r, q)
  BY <1>4, <1>8 DEF RequestTyped, Pcs
<1>10. CreateOK(commits, q) /\ UpdateOK(commits, q) /\ DeleteOK(q)
  BY <1>8 DEF CreateOK, UpdateOK, DeleteOK
<1>11. OldestOf(q) = OldestOf(p)
  BY <1>8 DEF OldestOf
<1>12. Outcome(q, commits[t].users) = Outcome(p, commits[t].users)
  BY <1>8 DEF Outcome
<1>13. Fresh(commits, q)
  BY <1>5, <1>6, <1>7, <1>8, <1>11, <1>12 DEF Fresh
<1>14. ReadOK(commits, q)
  BY <1>4, <1>8, <1>11, <1>13 DEF ReadOK
<1>15. RequestOK(commits, r, q)
  BY <1>8, <1>9, <1>10, <1>14 DEF RequestOK
<1>16. UNCHANGED commits
  BY DEF Query
<1> QED
  BY <1>2, <1>15, <1>16, QuietStep

LEMMA CallFailsStep ==
    ASSUME Inv, NEW r \in Request, CallFails(r)
    PROVE  Inv'
BY AnsweredStep DEF CallFails

-----------------------------------------------------------------------------
LEMMA InitInv ==
    ASSUME Init
    PROVE  Inv
<1> DEFINE us == [id \in {} |-> None]
           c  == [users |-> us, keys |-> {}]
<1>1. us \in UserSets
  BY DEF UserSets
<1>2. DOMAIN us = {}
  OBVIOUS
<1> HIDE DEF us
<1>3. c \in CommitRecord
  BY <1>1 DEF CommitRecord
<1>4. c.users = us
  OBVIOUS
<1> HIDE DEF c
<1>5. commits = <<c>>
  BY DEF Init, c, us
<1>6. commits \in Seq(CommitRecord) /\ Len(commits) = 1 /\ commits[1] = c
  BY <1>3, <1>5
<1>7. NodesKeyed(commits)
  BY <1>6 DEF NodesKeyed, Same
<1>8. EmailsKeyed(commits)
  BY <1>6 DEF EmailsKeyed
<1>9. KeptSinceCreated(commits)
  BY <1>2, <1>4, <1>6 DEF KeptSinceCreated
<1>10. UniqueEmails(commits[1].users)
  BY <1>2, <1>4, <1>6 DEF UniqueEmails
<1>11. CommitsOK(commits)
  BY <1>6, <1>7, <1>8, <1>9, <1>10, UserAccountsAssumption
     DEF CommitsOK, UserAccountsAssumption
<1>12. reqs = [r \in Request |-> Idle]
  BY DEF Init
<1>13. \A r \in Request : RequestOK(commits, r, reqs[r])
  BY <1>11, <1>12, IdleOK
<1> QED
  BY <1>11, <1>12, <1>13 DEF Inv

(* The inductive invariant: the commits are a history in which every       *)
(* change has written its conflict keys, and each request relies on a      *)
(* state of it.                                                            *)
THEOREM Accounts == Spec => []Inv
<1>1. Init => Inv
  BY InitInv
<1>2. Inv /\ [Next]_vars => Inv'
  <2> SUFFICES ASSUME Inv, [Next]_vars
               PROVE  Inv'
    OBVIOUS
  <2>1. CASE UNCHANGED vars
    BY <2>1 DEF Inv, vars
  <2>2. ASSUME NEW r \in Request, Arrive(r)
        PROVE  Inv'
    BY <2>2, RegisterStep, UpdateStep, DeleteStep, LoginStep, GetUserStep,
       ListUsersStep
       DEF Arrive
  <2>3. ASSUME NEW r \in Request, Step(r)
        PROVE  Inv'
    BY <2>3, CreateQueryStep, CreateCommitStep, UpdateReadStep,
       UpdateCommitStep, DeleteLookupStep, DeleteCommitStep, QueryStep,
       CallFailsStep
       DEF Step
  <2> QED
    BY <2>1, <2>2, <2>3 DEF Next
<1> QED
  BY <1>1, <1>2, PTL DEF Spec

(* Every stored user is complete, whatever the inputs left out, and each   *)
(* request has the fields of its next call (Create, Update).               *)
THEOREM TypeCorrect == Spec => []TypeOK
<1>1. ASSUME Inv
      PROVE  TypeOK
  <2>1. Now \in 1 .. MaxCommits /\ Now = Len(commits)
    BY <1>1, CommitsFacts DEF Inv, Now
  <2>2. commits \in Seq(CommitRecord)
    BY <1>1 DEF Inv, CommitsOK
  <2>3. \A r \in Request : RequestTyped(commits, r, reqs[r])
    BY <1>1 DEF Inv, RequestOK
  <2> QED
    BY <2>1, <2>2, <2>3
       DEF TypeOK, CommitRecord, UserSets, KeySet, RequestTyped, Pcs
<1> QED
  BY <1>1, Accounts, PTL

(* No interleaving of registrations, updates and deletions stores an       *)
(* address twice: a registration that is not aborted has seen the address  *)
(* free and nobody has written its index entry since (Repository.Create).  *)
THEOREM EmailsAreUnique == Spec => []EmailsUnique
<1>1. ASSUME Inv
      PROVE  EmailsUnique
  BY <1>1 DEF Inv, CommitsOK, UniqueEmails, EmailsUnique, Users
<1> QED
  BY <1>1, Accounts, PTL

(* No commit brings back a user that another has deleted: the update that  *)
(* read it is aborted on the key of its node (Repository.Update, Delete).  *)
THEOREM DeletedStay == Spec => []DeletedStaysDeleted
<1>1. ASSUME Inv
      PROVE  DeletedStaysDeleted
  BY <1>1 DEF Inv, CommitsOK, KeptSinceCreated, DeletedStaysDeleted, Now
<1> QED
  BY <1>1, Accounts, PTL

(* A read is answered from a state no older than the commit its zookie     *)
(* names, a login from one no older than itself (newReadTxn).              *)
THEOREM ReadsFresh == Spec => []ReadsAreFresh
<1>1. ASSUME Inv
      PROVE  ReadsAreFresh
  <2> SUFFICES ASSUME NEW r \in Request, ~Active(r), reqs[r].op \in Reads
               PROVE  \E t \in Oldest(r) .. Now :
                         reqs[r].result = Outcome(reqs[r], commits[t].users)
    BY DEF ReadsAreFresh, Reads
  <2>1. ReadOK(commits, reqs[r])
    BY <1>1 DEF Inv, RequestOK
  <2>2. Fresh(commits, reqs[r])
    BY <2>1 DEF ReadOK, Active
  <2>3. Oldest(r) = OldestOf(reqs[r])
    BY DEF Oldest, OldestOf, NoZookie, StrongRead
  <2> QED
    BY <2>2, <2>3 DEF Fresh, Now
<1> QED
  BY <1>1, Accounts, PTL

-----------------------------------------------------------------------------
(* A step changes no other request than the one it is of.                  *)
LEMMA OneRequestMoves ==
    ASSUME Inv, NEW x \in Request, Arrive(x) \/ Step(x),
           NEW r \in Request, r # x
    PROVE  reqs'[r] = reqs[r]
<1>1. \A q : reqs' = [reqs EXCEPT ![x] = q] => reqs'[r] = reqs[r]
  BY DEF Inv
<1>2. Answered(x) => reqs'[r] = reqs[r]
  BY <1>1 DEF Answered
<1>3. \A q : Begin(x, q) => reqs'[r] = reqs[r]
  BY <1>1 DEF Begin
<1>4. CASE Arrive(x)
  BY <1>2, <1>3, <1>4
     DEF Arrive, Register, Update, Delete, Login, GetUser, ListUsers
<1>5. CASE CreateQuery(x) \/ UpdateRead(x) \/ DeleteLookup(x) \/ Query(x)
  BY <1>2, <1>5 DEF CreateQuery, UpdateRead, DeleteLookup, Query, Inv
<1>6. CASE CreateCommit(x) \/ UpdateCommit(x) \/ DeleteCommit(x)
              \/ CallFails(x)
  BY <1>2, <1>6 DEF CreateCommit, UpdateCommit, DeleteCommit, CallFails,
                    Commit
<1> QED
  BY <1>4, <1>5, <1>6 DEF Step

(* An update that commits changes the fields it was given, of the user it  *)
(* is for, and nothing that another has committed: its transaction is      *)
(* aborted by any commit on the node since its read (Repository.Update).   *)
THEOREM OnlyGiven == Spec => OnlyGivenFieldsChange
<1> DEFINE Kept(r) ==
               LET i == reqs[r].target IN
               /\ DOMAIN Users' = DOMAIN Users
               /\ \A x \in DOMAIN Users \ {i} : Users'[x] = Users[x]
               /\ \A f \in {"email", "password", "nickname", "country"} :
                     \/ f \in {"nickname", "country"}
                        /\ reqs[r].input[f] # NotGiven
                     \/ Users'[i][f] = Users[i][f]
<1>1. ASSUME Inv, NEW r \in Request, UpdateCommit(r), commits' # commits
      PROVE  Kept(r)
  <2> DEFINE i    == reqs[r].target
             in   == reqs[r].input
             start == reqs[r].start
             old  == commits[start].users[i]
             new  == Merged(old, reqs[r].draft)
             keys == Keys(i, old) \cup Keys(i, new)
             us   == [Users EXCEPT ![i] = new]
  <2>1. ~Overtaken(start, keys) /\ Commit(r, us, keys)
    BY <1>1 DEF UpdateCommit
  <2>2. ~Overtaken(start, Keys(i, old))
    BY <2>1 DEF Overtaken
  <2>3. /\ i \in DOMAIN Users
        /\ in \in HttpUpdates
        /\ old = Users[i]
        /\ reqs[r].draft = DraftOf(Users[i], in)
    <3>1. reqs[r].pc = "updateCommit"
      BY <1>1 DEF UpdateCommit
    <3> QED
      BY <1>1, <2>2, <3>1, UpdatesWhatItRead
  <2>4. Users[i] \in User
    <3>1. Users \in UserSets
      BY <1>1, CommitsFacts DEF Inv, Users
    <3> QED
      BY <2>3, <3>1, UserSetFacts
  <2>5. /\ new.email = Users[i].email
        /\ new.password = Users[i].password
        /\ in.nickname = NotGiven => new.nickname = Users[i].nickname
        /\ in.country = NotGiven => new.country = Users[i].country
    <3>1. new = Merged(Users[i], DraftOf(Users[i], in))
      BY <2>3
    <3> QED
      BY <2>3, <2>4, <3>1, MergedFields
  <2> HIDE DEF keys, new, old, start
  <2>6. Users' = us
    <3> DEFINE c == [users |-> us, keys |-> keys]
    <3>1. c.users = us
      OBVIOUS
    <3>2. commits' = Append(commits, c)
      BY <2>1 DEF Commit
    <3> HIDE DEF c, us
    <3>3. commits \in Seq(CommitRecord) /\ Len(commits) \in Nat
      BY <1>1, CommitsFacts DEF Inv, CommitsOK
    <3>4. Len(commits') = Len(commits) + 1
          /\ commits'[Len(commits) + 1] = c
      BY <3>2, <3>3
    <3> QED
      BY <3>1, <3>4 DEF Users
  <2>7. /\ DOMAIN us = DOMAIN Users
        /\ us[i] = new
        /\ \A x \in DOMAIN Users \ {i} : us[x] = Users[x]
    BY <2>3
  <2> HIDE DEF us
  <2>8. \A f \in {"email", "password", "nickname", "country"} :
            \/ f \in {"nickname", "country"} /\ in[f] # NotGiven
            \/ Users'[i][f] = Users[i][f]
    BY <2>5, <2>6, <2>7
  <2> QED
    BY <2>6, <2>7, <2>8
<1>2. ASSUME Inv, Next, NEW r \in Request, reqs[r].pc = "updateCommit",
             reqs'[r] # reqs[r], commits' # commits
      PROVE  UpdateCommit(r)
  <2>1. PICK x \in Request : Arrive(x) \/ Step(x)
    BY <1>2 DEF Next
  <2>2. x = r
    BY <1>2, <2>1, OneRequestMoves
  <2>3. ~Arrive(r)
    BY <1>2 DEF Arrive, Register, Update, Delete, Login, GetUser, ListUsers
  <2>4. Step(r)
    BY <2>1, <2>2, <2>3
  <2> QED
    BY <1>2, <2>4
       DEF Step, CreateQuery, CreateCommit, UpdateRead, DeleteLookup,
           DeleteCommit, Query, CallFails
<1>3. ASSUME Inv, [Next]_vars
      PROVE  [\A r \in Request :
                 (reqs[r].pc = "updateCommit" /\ reqs'[r] # reqs[r]
                     /\ commits' # commits) => Kept(r)]_vars
  <2>1. CASE UNCHANGED vars
    BY <2>1
  <2>2. CASE Next
    <3> HIDE DEF Kept
    <3> QED
      BY <1>1, <1>2, <1>3, <2>2
  <2> QED
    BY <1>3, <2>1, <2>2
<1> QED
  BY <1>3, Accounts, PTL DEF Spec, OnlyGivenFieldsChange

-----------------------------------------------------------------------------
(* The arithmetic of pages: page k of size s holds the ranks from          *)
(* (k - 1) * s to k * s - 1.                                               *)
LEMMA ProductOrder ==
    ASSUME NEW a \in Int, NEW b \in Int, NEW s \in Nat \ {0}, a * s < b * s
    PROVE  a < b
OBVIOUS

LEMMA QuotientBounds ==
    ASSUME NEW n \in Nat, NEW s \in Nat \ {0}
    PROVE  /\ n \div s \in Nat
           /\ (n \div s) * s <= n
           /\ n < (n \div s) * s + s
OBVIOUS

LEMMA ProductSteps ==
    ASSUME NEW a \in Int, NEW s \in Nat
    PROVE  /\ (a - 1) * s = a * s - s
           /\ (a + 1) * s = a * s + s
OBVIOUS

OnPage(b, s, p) == b \in (p - 1) * s .. (p - 1) * s + s - 1

PageCount(n, s) == (n + s - 1) \div s

LEMMA OnePageOfRank ==
    ASSUME NEW n \in Nat, NEW s \in Nat \ {0}, NEW b \in 0 .. n - 1
    PROVE  \E k \in 1 .. PageCount(n, s) :
              \A p \in Nat \ {0} : OnPage(b, s, p) <=> p = k
<1> DEFINE q == b \div s
           m == PageCount(n, s)
<1>1. b \in Nat /\ n + s - 1 \in Nat /\ b + s <= n + s - 1
  OBVIOUS
<1>2. q \in Nat /\ q * s <= b /\ b < q * s + s
  BY <1>1, QuotientBounds
<1>3. m \in Nat /\ n + s - 1 < m * s + s
  BY <1>1, QuotientBounds DEF PageCount
<1> HIDE DEF q, m
<1>4. (q + 1) * s = q * s + s /\ (m + 1) * s = m * s + s
  BY <1>2, <1>3, ProductSteps
<1>5. q * s \in Nat /\ m * s \in Nat
  BY <1>2, <1>3
<1>6. (q + 1) * s < (m + 1) * s
  BY <1>1, <1>2, <1>3, <1>4, <1>5
<1>7. q + 1 < m + 1
  BY <1>2, <1>3, <1>6, ProductOrder
<1>8. q + 1 \in 1 .. m
  BY <1>2, <1>3, <1>7
<1>9. ASSUME NEW p \in Nat \ {0}
      PROVE  OnPage(b, s, p) <=> p = q + 1
  <2>1. (p - 1) * s \in Nat /\ p * s \in Nat /\ (p - 1) * s = p * s - s
    BY ProductSteps
  <2>2. ASSUME b \in (p - 1) * s .. (p - 1) * s + s - 1
        PROVE  p = q + 1
    <3>1. (p - 1) * s <= b /\ b < p * s
      BY <1>1, <2>1, <2>2
    <3>2. (p - 1) * s < (q + 1) * s
      BY <1>1, <1>2, <1>4, <1>5, <2>1, <3>1
    <3>3. p - 1 < q + 1
      BY <1>2, <3>2, ProductOrder
    <3>4. q * s < p * s
      BY <1>1, <1>2, <1>5, <2>1, <3>1
    <3>5. q < p
      BY <1>2, <3>4, ProductOrder
    <3> QED
      BY <1>2, <3>3, <3>5
  <2>3. ASSUME p = q + 1
        PROVE  b \in (p - 1) * s .. (p - 1) * s + s - 1
    <3>1. p - 1 = q
      BY <1>2, <2>3
    <3> QED
      BY <1>1, <1>2, <1>5, <3>1
  <2> QED
    BY <2>2, <2>3 DEF OnPage
<1> QED
  BY <1>8, <1>9 DEF m

(* Walking the pages of a list at any page size shows every user that      *)
(* matches exactly once: the ranks of the users are cut into pages without *)
(* a gap and without an overlap (Repository.List, ListFilter.Normalise).   *)
THEOREM PagesShowEachOnce == Spec => []PagesPartition
<1>1. ASSUME Inv
      PROVE  PagesPartition
  <2> SUFFICES ASSUME NEW in \in ListFilter,
                      NEW i \in Matching(Users, in)
               PROVE  Cardinality({p \in 1 .. Page(Users, in).pages :
                          i \in Page(Users, [in EXCEPT !.page = p]).users})
                      = 1
    BY DEF PagesPartition
  <2> DEFINE all  == Matching(Users, in)
             n    == Cardinality(all)
             s    == SizeOf(in)
             before == Cardinality({j \in all : j < i})
             at(p) == [in EXCEPT !.page = p]
  <2>1. all \subseteq Ids
    <3>1. Users \in UserSets
      BY <1>1, CommitsFacts DEF Inv, Users
    <3> QED
      BY <3>1, UserSetFacts DEF Matching
  <2>2. IsFiniteSet(all)
    <3>1. IsFiniteSet(2 .. MaxCommits)
      BY FS_Interval, UserAccountsAssumption DEF UserAccountsAssumption
    <3> QED
      BY <2>1, <3>1, FS_Subset DEF Ids
  <2>3. n \in Nat
    BY <2>2, FS_CardinalityType
  <2>4. before \in 0 .. n - 1
    <3> DEFINE T == {j \in all : j < i}
    <3>1. T \in SUBSET all /\ T # all
      <4>1. i \in all /\ i \in Int
        BY <2>1 DEF Ids
      <4>2. i \notin T
        BY <4>1
      <4> QED
        BY <4>1, <4>2
    <3> HIDE DEF T
    <3>2. Cardinality(T) \in Nat
      BY <2>2, <3>1, FS_Subset, FS_CardinalityType
    <3>3. Cardinality(T) <= n /\ Cardinality(T) # n
      BY <2>2, <3>1, FS_Subset
    <3>4. Cardinality(T) \in 0 .. n - 1
      BY <2>3, <3>2, <3>3
    <3> QED
      BY <3>4 DEF T
  <2>5. /\ in.page \in Int /\ in.pageSize \in Int
        /\ \A p : /\ at(p).page = p
                  /\ at(p).pageSize = in.pageSize
                  /\ at(p).country = in.country
    BY UserAccountsAssumption DEF ListFilter, UserAccountsAssumption
  <2>6. s \in Nat \ {0}
    BY <2>5, UserAccountsAssumption DEF SizeOf, UserAccountsAssumption
  <2>7. i \in all
    OBVIOUS
  <2>8. Page(Users, in).pages = PageCount(n, s)
    <3>1. all # {}
      BY <2>7
    <3> QED
      BY <3>1 DEF Page, PageCount
  <2>9. \A p \in Nat \ {0} :
           i \in Page(Users, at(p)).users
               <=> OnPage(before, s, p)
    <3> SUFFICES ASSUME NEW p \in Nat \ {0}
                 PROVE  i \in Page(Users, at(p)).users
                            <=> OnPage(before, s, p)
      OBVIOUS
    <3>1. Matching(Users, at(p)) = all
      BY <2>5 DEF Matching
    <3>2. SizeOf(at(p)) = s /\ PageOf(at(p)) = p
      BY <2>5 DEF SizeOf, PageOf
    <3> DEFINE pg == at(p)
    <3> HIDE DEF pg
    <3>3. Page(Users, pg).users =
              {x \in Matching(Users, pg) :
                  Cardinality({j \in Matching(Users, pg) : j < x}) \in
                      (PageOf(pg) - 1) * SizeOf(pg) ..
                      (PageOf(pg) - 1) * SizeOf(pg) + SizeOf(pg) - 1}
      BY DEF Page
    <3>4. Matching(Users, pg) = all /\ SizeOf(pg) = s /\ PageOf(pg) = p
      BY <3>1, <3>2 DEF pg
    <3>5. i \in Page(Users, pg).users <=> OnPage(before, s, p)
      BY <2>7, <3>3, <3>4 DEF OnPage
    <3> QED
      BY <3>5 DEF pg
  <2> DEFINE m == PageCount(n, s)
  <2> HIDE DEF n, s, before, at
  <2>10. PICK k \in 1 .. m :
            \A p \in Nat \ {0} : OnPage(before, s, p) <=> p = k
    BY <2>3, <2>4, <2>6, OnePageOfRank
  <2> HIDE DEF m
  <2>11. {p \in 1 .. m : i \in Page(Users, at(p)).users} = {k}
    BY <2>9, <2>10
  <2>12. Cardinality({p \in 1 .. m : i \in Page(Users, at(p)).users}) = 1
    BY <2>11, FS_Singleton
  <2> QED
    BY <2>8, <2>12 DEF m, at
<1> QED
  BY <1>1, Accounts, PTL
=============================================================================
