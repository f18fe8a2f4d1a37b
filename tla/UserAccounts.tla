---------------------------- MODULE UserAccounts ----------------------------
(***************************************************************************)
(* The user accounts: AuthService (internal/service/auth.go) over the      *)
(* user nodes that Repository (internal/repository/dgraph/repository.go)   *)
(* keeps in Dgraph, behind the HTTP and the gRPC server.                   *)
(*                                                                         *)
(* Dgraph is modelled as this code relies on it.  The committed states     *)
(* form a sequence, and the index of a state in it is its commit           *)
(* timestamp.  A transaction reads the state of its start timestamp, and   *)
(* its commit aborts when a conflict key it writes has been written since: *)
(* the node itself, and the index entry of a predicate that is @upsert in  *)
(* the schema (user.email, user.nickname).  A best-effort read may be      *)
(* served from any earlier state, any other read sees the latest.          *)
(*                                                                         *)
(* A user is identified with the timestamp of the commit that created it:  *)
(* its UUID and its uid are minted once and never used again.              *)
(* user.active is true in every node, for nothing sets it to false; the    *)
(* first name, the last name and the country are updated alike, and one of *)
(* them, the country, stands for the three.                                *)
(***************************************************************************)
EXTENDS Integers, Sequences, FiniteSets

CONSTANTS
    Email,           \* addresses, as clients spell them
    Lower,           \* strings.ToLower, on those
    Nickname, Country,
    Password,        \* passwords; a hash matches the one it was made of
    Empty,           \* the empty string, a field that is not set
    NotGiven,        \* a nil field of UpdateUserInput
    None,            \* no user, no input
    Request,         \* the clients, each with at most one request under way
    Ops,             \* the operations each client asks for in this instance
    DefaultPageSize, \* 20 in the program
    MaxPageSize,     \* 100 in the program
    PageArgs,        \* the pairs of page and page_size clients ask for
    MaxCommits       \* bound: the length of the commit sequence

ASSUME UserAccountsAssumption ==
    /\ Lower \in [Email -> Email]
    /\ \A e \in Email : Lower[Lower[e]] = Lower[e]
    /\ Empty \notin Email \cup Nickname \cup Country \cup Password
    /\ NotGiven \notin Nickname \cup Country \cup {Empty}
    /\ DefaultPageSize \in 1 .. MaxPageSize /\ MaxPageSize \in Nat
    /\ PageArgs \subseteq Int \X Int
    /\ Ops \in [Request -> SUBSET {"register", "update", "delete", "login",
                                   "get", "list"}]
    /\ MaxCommits \in Nat \ {0}

VARIABLES
    commits,  \* the committed states, with the conflict keys each one wrote
    reqs      \* the requests

vars == <<commits, reqs>>

-----------------------------------------------------------------------------
(* The zookies of a read: none, the empty token of StrongRead, or the      *)
(* token of a commit.                                                      *)
NoZookie == -1
StrongRead == 0
HasToken(z) == z > 0

Ids == 2 .. MaxCommits

User ==
    [email    : {Lower[e] : e \in Email},
     nickname : Nickname,
     country  : Country,
     password : Password]

(* dgraphUser as Update fills and writes it: an empty field is absent.     *)
Draft ==
    [email    : {Lower[e] : e \in Email} \cup {Empty},
     nickname : Nickname \cup {Empty},
     country  : Country \cup {Empty},
     password : Password \cup {Empty}]

(* The inputs CreateUserInput.Validate and LoginInput.Validate accept ...  *)
Registration ==
    [email : Email, nickname : Nickname, country : Country,
     password : Password]

Credentials == [email : Email, password : Password]

(* ... in which they lower-case the address.                               *)
Normalised(in) == [in EXCEPT !.email = Lower[@]]

(* The fields of PUT /users/{id}: JSON tells an absent field from an empty *)
(* one.                                                                    *)
HttpUpdates ==
    [nickname : Nickname \cup {Empty, NotGiven},
     country  : Country \cup {Empty, NotGiven}]

(* The gRPC UpdateUser takes an empty field for one that is not given.     *)
GrpcUpdates ==
    {in \in HttpUpdates : in.nickname # Empty /\ in.country # Empty}

ListFilter ==
    {[country |-> c, page |-> p[1], pageSize |-> p[2]] :
        c \in Country \cup {Empty}, p \in PageArgs}

Users == commits[Len(commits)].users
Now   == Len(commits)

-----------------------------------------------------------------------------
Idle ==
    [pc |-> "idle", op |-> "none", target |-> 0, input |-> None,
     draft |-> None, start |-> 0, began |-> 0, zookie |-> NoZookie,
     result |-> None]

Init ==
    /\ commits = <<[users |-> [id \in {} |-> None], keys |-> {}]>>
    /\ reqs = [r \in Request |-> Idle]

Active(r)    == reqs[r].pc # "idle"
Idles(r, op) == ~Active(r) /\ op \in Ops[r]

(* The request of r is answered; of a write, or of a refusal, nothing is   *)
(* kept.                                                                   *)
Answered(r) == reqs' = [reqs EXCEPT ![r] = Idle]

Begin(r, fields) == reqs' = [reqs EXCEPT ![r] = fields]

(* Faulty variant: the index entries are no conflict keys.                 *)
Keys_NoUpsert(id, u) == {<<"node", id>>}

(* The conflict keys of a user's node and of its @upsert index entries.    *)
Keys(id, u) ==
    {<<"node", id>>, <<"email", u.email>>, <<"nickname", u.nickname>>}

Overtaken(start, keys) ==
    \E t \in start + 1 .. Now : commits[t].keys \cap keys # {}

(* A commit that leaves users us.  Whether its answer, with the zookie of  *)
(* the commit, reaches the client makes no difference to the server.       *)
Commit(r, us, keys) ==
    /\ Now < MaxCommits
    /\ commits' = Append(commits, [users |-> us, keys |-> keys])
    /\ Answered(r)

-----------------------------------------------------------------------------
(* POST /auth/register: the input is validated, then Create is called.     *)
Register(r) ==
    /\ Idles(r, "register")
    /\ \/ \E in \in Registration :
             Begin(r, [Idle EXCEPT !.pc = "createQuery", !.op = "register",
                                   !.draft = Normalised(in)])
       \/ Answered(r)  \* ErrInvalidInput
    /\ UNCHANGED commits

(* The condition of the upsert block: @if(eq(len(email), 0) AND            *)
(* eq(len(nickname), 0)) fails.                                            *)
Taken(us, d) ==
    \E id \in DOMAIN us :
        us[id].email = d.email \/ us[id].nickname = d.nickname

(* Repository.Create: the query of the upsert block and its condition.     *)
CreateQuery(r) ==
    /\ reqs[r].pc = "createQuery"
    /\ IF Taken(Users, reqs[r].draft)
       THEN Answered(r)  \* ErrUserAlreadyExists
       ELSE reqs' = [reqs EXCEPT ![r].pc = "createCommit", ![r].start = Now]
    /\ UNCHANGED commits

(* Repository.Create: the mutation and its commit.                         *)
CreateCommit(r) ==
    LET d    == reqs[r].draft
        id   == Now + 1
        keys == Keys(id, d)
    IN  /\ reqs[r].pc = "createCommit"
        /\ IF Overtaken(reqs[r].start, keys)
           THEN Answered(r) /\ UNCHANGED commits
           ELSE Commit(r, [i \in DOMAIN Users \cup {id} |->
                              IF i = id THEN d ELSE Users[i]], keys)

-----------------------------------------------------------------------------
(* PUT and DELETE /users/{id}: the user the request is for must be the     *)
(* caller, whose session may have outlived that user.                      *)
Update(r) ==
    /\ Idles(r, "update")
    /\ \E caller \in Ids \cap 1 .. Now :
          \/ \E in \in HttpUpdates \cup GrpcUpdates :
                Begin(r, [Idle EXCEPT !.pc = "updateRead", !.op = "update",
                                      !.target = caller, !.input = in])
          \/ Answered(r)  \* ErrUnauthorized: for another user
    /\ UNCHANGED commits

Delete(r) ==
    /\ Idles(r, "delete")
    /\ \E caller \in Ids \cap 1 .. Now :
          \/ Begin(r, [Idle EXCEPT !.pc = "deleteLookup", !.op = "delete",
                                   !.target = caller])
          \/ Answered(r)  \* ErrUnauthorized: for another user
    /\ UNCHANGED commits

Given(v, old) == IF v = NotGiven THEN old ELSE v

(* Repository.Update: the read, which does not ask for the password hash,  *)
(* and the fields of the input put over it.                                *)
UpdateRead(r) ==
    LET i == reqs[r].target
        in == reqs[r].input
    IN  /\ reqs[r].pc = "updateRead"
        /\ IF i \in DOMAIN Users
           THEN reqs' = [reqs EXCEPT
                   ![r].pc = "updateCommit",
                   ![r].start = Now,
                   ![r].draft =
                       [email    |-> Users[i].email,
                        nickname |-> Given(in.nickname, Users[i].nickname),
                        country  |-> Given(in.country, Users[i].country),
                        password |-> Empty]]
           ELSE Answered(r)  \* ErrUserNotFound
        /\ UNCHANGED commits

(* Faulty variant: without omitempty an empty field is written.            *)
Merged_Empty(old, d) == d

(* A node after a mutation of the fields of d that are not empty           *)
(* (omitempty): the others keep what is stored.                            *)
Merged(old, d) ==
    [f \in DOMAIN d |-> IF d[f] = Empty THEN old[f] ELSE d[f]]

(* Faulty variant: the mutation runs in a transaction of its own.          *)
UpdateCommit_NewTxn(r) ==
    LET i   == reqs[r].target
        d   == reqs[r].draft
        old == IF i \in DOMAIN Users THEN Users[i] ELSE d
    IN  /\ reqs[r].pc = "updateCommit"
        /\ Commit(r, [x \in DOMAIN Users \cup {i} |->
                         IF x = i THEN Merged(old, d) ELSE Users[x]],
                  Keys(i, old) \cup Keys(i, d))

(* Repository.Update: the mutation of the same transaction, and its        *)
(* commit.  It is aborted by any commit on the node since the read.        *)
UpdateCommit(r) ==
    LET i    == reqs[r].target
        old  == commits[reqs[r].start].users[i]
        new  == Merged(old, reqs[r].draft)
        keys == Keys(i, old) \cup Keys(i, new)
    IN  /\ reqs[r].pc = "updateCommit"
        /\ IF Overtaken(reqs[r].start, keys)
           THEN Answered(r) /\ UNCHANGED commits
           ELSE Commit(r, [Users EXCEPT ![i] = new], keys)

(* Repository.Delete: the uid is looked up in a transaction of its own ... *)
DeleteLookup(r) ==
    /\ reqs[r].pc = "deleteLookup"
    /\ IF reqs[r].target \in DOMAIN Users
       THEN reqs' = [reqs EXCEPT ![r].pc = "deleteCommit"]
       ELSE Answered(r)  \* ErrUserNotFound
    /\ UNCHANGED commits

(* ... and the node is removed in another, if it is still there.           *)
DeleteCommit(r) ==
    LET i == reqs[r].target
    IN  /\ reqs[r].pc = "deleteCommit"
        /\ Commit(r, [x \in DOMAIN Users \ {i} |-> Users[x]],
                  IF i \in DOMAIN Users THEN Keys(i, Users[i])
                                        ELSE {<<"node", i>>})

-----------------------------------------------------------------------------
(* POST /auth/login asks for a strong read whatever the client holds.      *)
Login(r) ==
    /\ Idles(r, "login")
    /\ \/ \E in \in Credentials :
             Begin(r, [Idle EXCEPT !.pc = "query", !.op = "login",
                                   !.input = Normalised(in),
                                   !.zookie = StrongRead, !.began = Now])
       \/ Answered(r)  \* ErrInvalidInput
    /\ UNCHANGED commits

(* The X-Zookie header is optional.  The zookie a client holds is that of  *)
(* the latest commit: an older one asks for less.                          *)
ReadZookies == {NoZookie, Now}

(* GET /users/{id}                                                         *)
GetUser(r) ==
    /\ Idles(r, "get")
    /\ \E i \in Ids, z \in ReadZookies :
          Begin(r, [Idle EXCEPT !.pc = "query", !.op = "get", !.target = i,
                                !.zookie = z])
    /\ UNCHANGED commits

(* GET /users                                                              *)
ListUsers(r) ==
    /\ Idles(r, "list")
    /\ \E in \in ListFilter, z \in ReadZookies :
          Begin(r, [Idle EXCEPT !.pc = "query", !.op = "list", !.input = in,
                                !.zookie = z])
    /\ UNCHANGED commits

(* ListFilter.Normalise                                                    *)
PageOf(in) == IF in.page < 1 THEN 1 ELSE in.page
SizeOf(in) == CASE in.pageSize < 1           -> DefaultPageSize
                [] in.pageSize > MaxPageSize -> MaxPageSize
                [] OTHER                     -> in.pageSize

Matching(us, in) ==
    {i \in DOMAIN us : in.country \in {Empty, us[i].country}}

(* Faulty variant: the first page is page 0.                               *)
Page_FromZero(us, in) ==
    LET all == Matching(us, in)
        offset == PageOf(in) * SizeOf(in)
        before(i) == Cardinality({j \in all : j < i})
    IN  [users |-> {i \in all : before(i) \in
                                  offset .. offset + SizeOf(in) - 1},
         total |-> Cardinality(all),
         pages |-> IF all = {} THEN 1
                   ELSE (Cardinality(all) + SizeOf(in) - 1) \div SizeOf(in)]

(* Repository.List on one state: the users are in the order of their uids, *)
(* and pages is the quotient rounded up, at least 1.                       *)
Page(us, in) ==
    LET all == Matching(us, in)
        offset == (PageOf(in) - 1) * SizeOf(in)
        before(i) == Cardinality({j \in all : j < i})
    IN  [users |-> {i \in all : before(i) \in
                                  offset .. offset + SizeOf(in) - 1},
         total |-> Cardinality(all),
         pages |-> IF all = {} THEN 1
                   ELSE (Cardinality(all) + SizeOf(in) - 1) \div SizeOf(in)]

(* Faulty variant: the empty token of StrongRead is taken for no zookie.   *)
ReadTimes_Token(z) == IF HasToken(z) THEN {Now} ELSE 1 .. Now

(* newReadTxn: the states a read with zookie z may be served from.         *)
ReadTimes(z) == IF z = NoZookie THEN 1 .. Now ELSE {Now}

(* What GetUser, Login or ListUsers tells the client of a state.  A login  *)
(* with the wrong password learns what one with an unknown address does.   *)
Outcome(q, us) ==
    CASE q.op = "get"   -> IF q.target \in DOMAIN us THEN us[q.target]
                                                     ELSE None
      [] q.op = "login" -> LET found == {i \in DOMAIN us :
                                            us[i].email = q.input.email /\
                                            us[i].password = q.input.password}
                           IN  IF found = {} THEN None
                               ELSE us[CHOOSE i \in found : TRUE]
      [] q.op = "list"  -> Page(us, q.input)

(* Repository.GetByID, GetByEmail or List, and the answer made of it.      *)
Query(r) ==
    /\ reqs[r].pc = "query"
    /\ \E t \in ReadTimes(reqs[r].zookie) :
          LET res == Outcome(reqs[r], commits[t].users)
          IN  reqs' = [reqs EXCEPT ![r].pc = "idle", ![r].result = res]
    /\ UNCHANGED commits

(* A call of Dgraph fails without effect, or its request is cancelled.     *)
CallFails(r) ==
    /\ Active(r)
    /\ Answered(r)
    /\ UNCHANGED commits

Arrive(r) ==
    Register(r) \/ Update(r) \/ Delete(r) \/ Login(r) \/ GetUser(r)
                \/ ListUsers(r)

Step(r) ==
    CreateQuery(r) \/ CreateCommit(r) \/ UpdateRead(r) \/ UpdateCommit(r)
                   \/ DeleteLookup(r) \/ DeleteCommit(r) \/ Query(r)
                   \/ CallFails(r)

Next == \E r \in Request : Arrive(r) \/ Step(r)

Spec == Init /\ [][Next]_vars

-----------------------------------------------------------------------------
(* Every stored user is complete: it has all its fields, whatever an       *)
(* update left empty, and an address in lower case.                        *)
TypeOK ==
    /\ commits \in Seq([users : UNION {[S -> User] : S \in SUBSET Ids},
                        keys : SUBSET (({"node"} \X Ids)
                                       \cup ({"email"} \X Email)
                                       \cup ({"nickname"} \X Nickname))])
    /\ Now \in 1 .. MaxCommits
    /\ \A r \in Request :
          /\ reqs[r].pc \in {"idle", "createQuery", "createCommit",
                "updateRead", "updateCommit", "deleteLookup", "deleteCommit",
                "query"}
          /\ reqs[r].op \in Ops[r] \cup {"none"}
          /\ reqs[r].target \in Ids \cup {0}
          /\ reqs[r].draft \in Draft \cup {None}
          /\ reqs[r].start \in 0 .. Now /\ reqs[r].began \in 0 .. Now
          /\ reqs[r].zookie \in NoZookie .. Now

(* No two users have the same address, however registrations overlap with  *)
(* each other, with updates and with deletions, and whatever case the      *)
(* addresses are spelled in ("prevent duplicates even under concurrent     *)
(* registration", Repository.Create).                                      *)
EmailsUnique ==
    \A i, j \in DOMAIN Users : Users[i].email = Users[j].email => i = j

(* A user that was deleted is not brought back by an update that had read  *)
(* it before (Repository.Update, Repository.Delete).                       *)
DeletedStaysDeleted ==
    \A t \in 1 .. Now : \A i \in DOMAIN commits[t].users :
        \A s \in i .. t : i \in DOMAIN commits[s].users

(* "Only non-nil fields in input are written" (UserRepository.Update): an  *)
(* update changes no other user, keeps the address and the password, and   *)
(* does not undo what another update of the user has committed to a field  *)
(* it was not given.                                                       *)
OnlyGivenFieldsChange ==
    [][\A r \in Request :
          LET i == reqs[r].target IN
          (reqs[r].pc = "updateCommit" /\ reqs'[r] # reqs[r]
              /\ commits' # commits)
          => /\ DOMAIN Users' = DOMAIN Users
             /\ \A x \in DOMAIN Users \ {i} : Users'[x] = Users[x]
             /\ \A f \in {"email", "password", "nickname", "country"} :
                   \/ f \in {"nickname", "country"}
                      /\ reqs[r].input[f] # NotGiven
                   \/ Users'[i][f] = Users[i][f]]_vars

(* The oldest state the answer of r may be of: the commit its zookie       *)
(* names, and for a login the latest one when it began.                    *)
Oldest(r) ==
    CASE reqs[r].zookie = NoZookie   -> 1
      [] reqs[r].zookie = StrongRead -> reqs[r].began
      [] OTHER                       -> reqs[r].zookie

(* A client that attaches the zookie of its write reads that write or what *)
(* came after it, and a login never decides on a state older than itself:  *)
(* no login for a user deleted before (newReadTxn, Login, GetUser, List).  *)
ReadsAreFresh ==
    \A r \in Request :
        ~Active(r) /\ reqs[r].op \in {"get", "login", "list"}
        => \E t \in Oldest(r) .. Now :
              reqs[r].result = Outcome(reqs[r], commits[t].users)

(* The pages 1 to pages of a list, at any page size asked for, show every  *)
(* user that matches exactly once (Repository.List, ListFilter.Normalise). *)
PagesPartition ==
    \A in \in ListFilter :
        \A i \in Matching(Users, in) :
            Cardinality({p \in 1 .. Page(Users, in).pages :
                i \in Page(Users, [in EXCEPT !.page = p]).users}) = 1

(* "Return domain.ErrUserAlreadyExists on unique-constraint violations"    *)
(* (UserRepository), where Create takes the nickname to be one: no two     *)
(* users have the same nickname.  Update does not look for another user    *)
(* with the nickname it is given.                                          *)
NicknamesUnique ==
    \A i, j \in DOMAIN Users : Users[i].nickname = Users[j].nickname => i = j
=============================================================================
