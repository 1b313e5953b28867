----------------------------- MODULE UserToken ------------------------------
(***************************************************************************)
(* The login sessions of one user (auth/data/user_token.go) on a cache     *)
(* shared by many requests.  A session is a marker key with a time to live *)
(* and a field of the user's index hash that holds its tokens.  A request  *)
(* makes several cache calls, each atomic by itself; indexMu only covers   *)
(* writes of the index and the reading of all sessions.  A token is named  *)
(* by its session, its kind and the time it was issued.                    *)
(***************************************************************************)
EXTENDS Integers, FiniteSets

CONSTANTS Sessions, Workers,
          Stores,     \* which of "memory" and "redis" to start with
          AccessTTL, RefreshTTL, Grace,
          Second,     \* ticks of the clock in a second
          MaxTime,    \* the clock stops here (bound)
          MaxCalls,   \* operations called in all (bound)
          None

ASSUME StoreNames == Stores \subseteq {"memory", "redis"}
ASSUME Terms == {AccessTTL, RefreshTTL, Grace, Second} \subseteq Nat \ {0} /\ MaxTime \in Nat /\ MaxCalls \in Nat
Operations == {"login", "rotateAccess", "rotateRefresh", "logout", "removeAll", "check"}
ASSUME NoneIsFresh == None \notin Sessions \cup Workers \cup Operations
\* The TokenSession of a session: its tokens and when they end.
Token == [access : Int, accessUntil : Int, refresh : Int, refreshUntil : Int,
          previous : Int \cup {None}, previousUntil : Int]
ASSUME NoneIsNoToken == None \notin Token

VARIABLES store,   \* the cache in use
          clock,
          marker,  \* when the session key expires, Absent if it is not stored
          index,   \* the hash: TokenSession of each session, or None
          mu,      \* the worker that holds indexMu over several calls, or None
          pc,      \* the next cache call of a worker
          op,      \* what it was called for
          sid,     \* the session it works on
          copy,    \* the TokenSession it is about to save; for a check, the token
          todo,    \* entries of the snapshot it has not looked at
          found,   \* sessions of the snapshot it has found alive
          status,  \* of a session: "new", "opening", "open", "closing", "closed"
          mixed,   \* sessions two rotations of which have overlapped
          calls,   \* operations called so far
          duty,    \* sessions open when this RemoveToken was called
          truths   \* what a check's right answer has been since it was called

shared == <<store, clock, marker, index, mu>>
worker == <<pc, op, sid, copy, todo, found>>
ghosts == <<status, mixed, duty>>
vars == <<shared, worker, calls, ghosts, truths>>

Absent == -1
Forever == MaxTime + AccessTTL + RefreshTTL + Second + 1
Later(a, b) == IF a < b THEN b ELSE a
Earlier(a, b) == IF a < b THEN a ELSE b
Rotations == {"rotateAccess", "rotateRefresh"}
End(t) == Later(t.accessUntil, t.refreshUntil)

Init == /\ store \in Stores /\ clock = 0
        /\ marker = [s \in Sessions |-> Absent] /\ index = [s \in Sessions |-> None]
        /\ mu = None
        /\ pc = [w \in Workers |-> "idle"] /\ op = [w \in Workers |-> None]
        /\ sid = [w \in Workers |-> None] /\ copy = [w \in Workers |-> None]
        /\ todo = [w \in Workers |-> {}] /\ found = [w \in Workers |-> {}]
        /\ status = [s \in Sessions |-> "new"] /\ mixed = {} /\ calls = 0
        /\ duty = [w \in Workers |-> {}] /\ truths = [w \in Workers |-> {}]
-----------------------------------------------------------------------------
(* The cache.  Both caches keep a key through the instant it expires in;   *)
(* the memory cache leaves an expired key in its map until somebody looks. *)

Exists(s) == marker[s] # Absent /\ clock <= marker[s]
Swept(s) == IF Exists(s) THEN marker ELSE [marker EXCEPT ![s] = Absent]

Set(s, term) == marker' = [marker EXCEPT ![s] = clock + term]
Del(s) == marker' = [marker EXCEPT ![s] = Absent]

ExpireMakesKey(s, until) ==      \* mutant: a rotation sets the key anew
    marker' = [marker EXCEPT ![s] = until]

\* What go-redis makes of a term that is not over: whole seconds, cut down, but
\* one at least.
WholeSeconds(term) == IF term < Second THEN Second ELSE (term \div Second) * Second

\* Expire never makes a key.  The memory cache keeps the term exactly, takes
\* one that is over for no expiry, and finds expired keys too.  Redis deletes
\* the key when the term is over, and is else given whole seconds of what is
\* left of it: time.Until may read the clock within the tick, a little late.
Expire(s, until) ==
    \/ /\ store = "memory"
       /\ marker' = IF marker[s] = Absent THEN marker
                    ELSE [marker EXCEPT ![s] = IF until <= clock THEN Forever ELSE until]
    \/ /\ store = "redis"
       /\ \E late \in {0, 1} :
             marker' = IF ~Exists(s) THEN marker
                       ELSE [marker EXCEPT ![s] = IF until <= clock THEN Absent
                                                  ELSE clock + WholeSeconds(until - clock - late)]

HSet(s, t) == mu = None /\ index' = [index EXCEPT ![s] = t]
HDel(s) == mu = None /\ index' = [index EXCEPT ![s] = None]
-----------------------------------------------------------------------------
Goto(w, label) == pc' = [pc EXCEPT ![w] = label]
\* The call returns; what it held locally is gone.
Return(w) == /\ Goto(w, "idle")
             /\ op' = [op EXCEPT ![w] = None] /\ sid' = [sid EXCEPT ![w] = None]
             /\ copy' = [copy EXCEPT ![w] = None]
             /\ todo' = [todo EXCEPT ![w] = {}] /\ found' = [found EXCEPT ![w] = {}]
Call(w, what, s, first) ==
    /\ pc[w] = "idle" /\ Goto(w, first)
    /\ calls < MaxCalls /\ calls' = calls + 1
    /\ op' = [op EXCEPT ![w] = what] /\ sid' = [sid EXCEPT ![w] = s]
    /\ UNCHANGED <<shared, todo, found>>

(* GenerateTokenForSession: the marker first, then the index.              *)
Login(w, s) == /\ status[s] = "new" /\ Call(w, "login", s, "mark")
               /\ copy' = [copy EXCEPT ![w] = [access |-> clock, accessUntil |-> clock + AccessTTL,
                                               refresh |-> clock, refreshUntil |-> clock + RefreshTTL,
                                               previous |-> None, previousUntil |-> 0]]
               /\ status' = [status EXCEPT ![s] = "opening"]
               /\ UNCHANGED <<mixed, duty>>
Mark(w) == /\ pc[w] = "mark" /\ Set(sid[w], Later(AccessTTL, RefreshTTL)) /\ Goto(w, "list")
           /\ UNCHANGED <<store, clock, index, mu, op, sid, copy, todo, found, ghosts>>
List(w) == /\ pc[w] = "list" /\ HSet(sid[w], copy[w]) /\ Return(w)
           /\ status' = [status EXCEPT ![sid[w]] = "open"]
           /\ UNCHANGED <<store, clock, marker, mu, mixed, duty>>

(* GenerateAccessTokenForSession and GenerateRefreshTokenForSession.       *)
Rotate(w, what, s) ==
    /\ status[s] \in {"open", "closing", "closed"} /\ Call(w, what, s, "exists")
    /\ mixed' = mixed \cup {t \in {s} : \E v \in Workers : op[v] \in Rotations /\ sid[v] = s}
    /\ UNCHANGED <<copy, status, duty>>
Look(w) == /\ pc[w] = "exists" /\ marker' = Swept(sid[w])
           /\ IF Exists(sid[w]) THEN Goto(w, "load") /\ UNCHANGED <<op, sid, copy, todo, found>>
              ELSE Return(w)
           /\ UNCHANGED <<store, clock, index, mu, ghosts>>

NewAccess(t) == [t EXCEPT !.access = clock, !.accessUntil = clock + AccessTTL,
                          !.previous = t.access,
                          !.previousUntil = Earlier(t.accessUntil, clock + Grace)]
NewRefresh(t) == [t EXCEPT !.refresh = clock, !.refreshUntil = clock + RefreshTTL]

Load(w) == /\ pc[w] = "load"
           /\ IF index[sid[w]] = None THEN Return(w)
              ELSE /\ copy' = [copy EXCEPT ![w] = IF op[w] = "rotateAccess" THEN NewAccess(index[sid[w]])
                                                  ELSE NewRefresh(index[sid[w]])]
                   /\ Goto(w, "store") /\ UNCHANGED <<op, sid, todo, found>>
           /\ UNCHANGED <<shared, ghosts>>
Store(w) == /\ pc[w] = "store" /\ HSet(sid[w], copy[w]) /\ Goto(w, "extend")
            /\ UNCHANGED <<store, clock, marker, mu, op, sid, copy, todo, found, ghosts>>
ExtendToAccessTerm(w) ==         \* mutant: forgets the term of the refresh token
    /\ pc[w] = "extend" /\ Expire(sid[w], copy[w].accessUntil) /\ Return(w)
    /\ UNCHANGED <<store, clock, index, mu, ghosts>>
Extend(w) == /\ pc[w] = "extend" /\ Expire(sid[w], End(copy[w])) /\ Return(w)
             /\ UNCHANGED <<store, clock, index, mu, ghosts>>
-----------------------------------------------------------------------------
(* RemoveTokenForSession, also for each session RemoveToken found.         *)
Logout(w, s) == /\ status[s] = "open" /\ Call(w, "logout", s, "unmark")
                /\ status' = [status EXCEPT ![s] = "closing"]
                /\ UNCHANGED <<copy, mixed, duty>>
Unmark(w) == /\ pc[w] = "unmark" /\ Del(sid[w]) /\ Goto(w, "unlist")
             /\ UNCHANGED <<store, clock, index, mu, op, sid, copy, todo, found, ghosts>>
Unlist(w) == /\ pc[w] = "unlist" /\ HDel(sid[w])
             /\ status' = [status EXCEPT ![sid[w]] = "closed"]
             /\ IF op[w] = "removeAll" THEN Goto(w, "next") /\ UNCHANGED <<op, sid, copy, todo, found>>
                ELSE Return(w)
             /\ UNCHANGED <<store, clock, marker, mu, mixed, duty>>

(* A check is made with a token that is in the index when it is called.   *)
(* getTokenSessions: under indexMu, the entries and then each one's marker. *)
RemoveToken(w) == /\ Call(w, "removeAll", None, "snapshot")
                  /\ duty' = [duty EXCEPT ![w] = {s \in Sessions : status[s] = "open"}]
                  /\ UNCHANGED <<copy, status, mixed>>
IsTokenValid(w, s, kind, issued) ==
    /\ index[s] # None /\ Call(w, "check", s, "snapshot")
    /\ issued \in (IF kind = "refresh" THEN {index[s].refresh}
                   ELSE {index[s].access, index[s].previous} \ {None})
    /\ copy' = [copy EXCEPT ![w] = [kind |-> kind, issued |-> issued, now |-> clock]]
    /\ UNCHANGED ghosts
Snapshot(w) == /\ pc[w] = "snapshot" /\ mu = None /\ mu' = w
               /\ todo' = [todo EXCEPT ![w] = {s \in Sessions : index[s] # None}]
               /\ Goto(w, "sift")
               /\ UNCHANGED <<store, clock, marker, index, op, sid, copy, found, ghosts>>
SiftByAccessTerm(w, s) ==        \* mutant: prunes sessions whose access token is over
    /\ pc[w] = "sift" /\ s \in todo[w]
    /\ todo' = [todo EXCEPT ![w] = @ \ {s}]
    /\ marker' = Swept(s)
    /\ IF Exists(s) /\ clock < index[s].accessUntil
       THEN found' = [found EXCEPT ![w] = @ \cup {s}] /\ UNCHANGED index
       ELSE index' = [index EXCEPT ![s] = None] /\ UNCHANGED found
    /\ UNCHANGED <<store, clock, mu, pc, op, sid, copy, ghosts>>
Sift(w, s) == /\ pc[w] = "sift" /\ s \in todo[w]
              /\ todo' = [todo EXCEPT ![w] = @ \ {s}]
              /\ marker' = Swept(s)
              /\ IF Exists(s) THEN found' = [found EXCEPT ![w] = @ \cup {s}] /\ UNCHANGED index
                 ELSE index' = [index EXCEPT ![s] = None] /\ UNCHANGED found
              /\ UNCHANGED <<store, clock, mu, pc, op, sid, copy, ghosts>>
\* Whether the token c asks about counts by the entry t: an access token is
\* judged at the time the call began, a refresh token now.
Counts(c, t) ==
    IF c.kind = "refresh" THEN t.refresh = c.issued /\ clock < t.refreshUntil
    ELSE \/ t.access = c.issued /\ c.now < t.accessUntil
         \/ t.previous = c.issued /\ c.now < t.previousUntil
AcceptedWhenReplaced(w) ==       \* mutant: a replaced token never ends
    /\ sid[w] \in found[w]
    /\ \/ Counts(copy[w], index[sid[w]])
       \/ copy[w].kind = "access" /\ copy[w].issued = index[sid[w]].previous
\* A check accepts a token of a session it has found.
Accepted(w) == sid[w] \in found[w] /\ Counts(copy[w], index[sid[w]])
Answer(w) == /\ pc[w] = "sift" /\ op[w] = "check" /\ todo[w] = {} /\ mu' = None
             /\ Return(w) /\ UNCHANGED <<store, clock, marker, index, ghosts>>

Sifted(w) == /\ pc[w] = "sift" /\ op[w] = "removeAll" /\ todo[w] = {} /\ mu' = None
             /\ Goto(w, "next")
             /\ UNCHANGED <<store, clock, marker, index, op, sid, copy, todo, found, ghosts>>
NextOne(w, s) == /\ pc[w] = "next" /\ s \in found[w] /\ Goto(w, "unmark")
                 /\ found' = [found EXCEPT ![w] = @ \ {s}]
                 /\ sid' = [sid EXCEPT ![w] = s]
                 /\ status' = [status EXCEPT ![s] = "closing"]
                 /\ UNCHANGED <<shared, op, copy, todo, mixed, duty>>
RemovedFirst(w) ==               \* mutant: returns with sessions left
    /\ pc[w] = "next" /\ Return(w)
    /\ duty' = [duty EXCEPT ![w] = {}]
    /\ UNCHANGED <<shared, status, mixed>>
RemovedAll(w) == /\ pc[w] = "next" /\ found[w] = {} /\ Return(w)
                 /\ duty' = [duty EXCEPT ![w] = {}]
                 /\ UNCHANGED <<shared, status, mixed>>
-----------------------------------------------------------------------------
Tick == /\ clock < MaxTime /\ clock' = clock + 1
        /\ UNCHANGED <<store, marker, index, mu, worker, ghosts>>

\* A cache call fails and takes effect nowhere, and the operation returns its
\* error.  (A call that fails before the first write leaves nothing behind.)
Fail(w) == /\ pc[w] \in {"list", "extend", "unlist", "next"} /\ Return(w)
           /\ mixed' = mixed \cup {s \in {sid[w]} : pc[w] = "extend"}
           /\ duty' = [duty EXCEPT ![w] = {}]
           /\ UNCHANGED <<shared, status>>

Begin == \E w \in Workers :
            \/ RemoveToken(w)
            \/ \E s \in Sessions :
                  \/ Login(w, s) \/ Logout(w, s)
                  \/ \E what \in Rotations : Rotate(w, what, s)
                  \/ \E kind \in {"access", "refresh"}, issued \in 0..MaxTime : IsTokenValid(w, s, kind, issued)

Continue == /\ \/ Tick
               \/ \E w \in Workers :
                     \/ Mark(w) \/ List(w) \/ Look(w) \/ Load(w) \/ Store(w) \/ Extend(w)
                     \/ Unmark(w) \/ Unlist(w) \/ Snapshot(w) \/ Answer(w)
                     \/ Sifted(w) \/ RemovedAll(w) \/ Fail(w)
                     \/ \E s \in Sessions : Sift(w, s) \/ NextOne(w, s)
            /\ UNCHANGED calls

\* Whether the token a check was given counts at this moment.
RightAnswer(w) == /\ Exists(sid[w]) /\ index[sid[w]] # None
                  /\ Counts(copy[w], index[sid[w]])

\* A check sees every moment from its call to its return.
Observe == truths' = [w \in Workers |->
             IF op'[w] # "check" THEN {}
             ELSE truths[w] \cup {RightAnswer(w)'}]

Next == (Begin \/ Continue) /\ Observe
Spec == Init /\ [][Next]_vars
-----------------------------------------------------------------------------
\* A revocation is final: once RemoveTokenForSession has returned, no rotation
\* that was under way makes the session valid again (user_token.go:127, 157:
\* Expire only extends a marker that is still there).
RevokedStaysRevoked == \A s \in Sessions : status[s] = "closed" => ~Exists(s)

\* A session that was opened and not revoked stays listed as long as its
\* marker lives: neither the pruning of getTokenSessions nor a login or a
\* rotation in between loses the entry RemoveToken and the checks depend on.
OpenSessionsListed == \A s \in Sessions : status[s] = "open" /\ Exists(s) => index[s] # None

\* RemoveToken reaches every session whose login had returned when it was
\* called, whatever other requests do meanwhile.
RemoveTokenReachesAll ==
    [][\A w \in Workers : RemovedAll(w) => \A s \in duty[w] : ~Exists(s)]_vars

\* The marker covers the tokens of its session: with no rotation under way,
\* none that overlapped another and none that failed half-way, the session key
\* outlives every token of the index in the memory cache; in Redis, which is
\* given whole seconds, it ends a second early at most.
Lag == IF store = "redis" THEN Second ELSE 0
MarkerCoversTokens ==
    \A s \in Sessions :
        (/\ status[s] = "open" /\ Exists(s) /\ s \notin mixed
         /\ \A w \in Workers : op[w] \in Rotations => sid[w] # s)
        => marker[s] + Lag >= End(index[s])

\* A check accepts only a token that counted at some moment of the call, and
\* refuses only one that did not, although it reads the clock, the index and
\* each marker at different moments.
ChecksAreHonest ==
    [][\A w \in Workers : Answer(w) => Accepted(w) \in truths[w]]_vars
=============================================================================
