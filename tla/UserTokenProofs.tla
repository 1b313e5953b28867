-------------------------- MODULE UserTokenProofs ---------------------------
(***************************************************************************)
(* Proofs about auth/data/user_token.go for any sessions, requests and     *)
(* terms, on both caches.  A revoked session stays revoked because its     *)
(* marker is only ever made by its login, which had ended before anybody   *)
(* could revoke it: everything else that writes the marker keeps an absent *)
(* one absent.                                                             *)
(***************************************************************************)
EXTENDS UserToken, TLAPS

Labels == {"idle", "mark", "list", "exists", "load", "store", "extend",
           "unmark", "unlist", "snapshot", "sift", "next"}
Question == [kind : {"access", "refresh"}, issued : Int, now : Int]
Opening == {"mark", "list"}
Working == {"exists", "load", "store", "extend", "unmark", "unlist"}
Removing == {"snapshot", "sift", "next", "unmark", "unlist"}
Started == {"open", "closing", "closed"}

Typed == /\ clock \in Int
         /\ marker \in [Sessions -> Int]
         /\ index \in [Sessions -> Token \cup {None}]
         /\ pc \in [Workers -> Labels]
         /\ op \in [Workers -> Operations \cup {None}]
         /\ sid \in [Workers -> Sessions \cup {None}]
         /\ copy \in [Workers -> Token \cup Question \cup {None}]
         /\ \A w \in Workers : pc[w] \in {"list", "mark", "store", "extend"} => copy[w] \in Token
         /\ todo \in [Workers -> SUBSET Sessions]
         /\ found \in [Workers -> SUBSET Sessions]
         /\ duty \in [Workers -> SUBSET Sessions]
         /\ status \in [Sessions -> {"new", "opening"} \cup Started]

\* A login under way is the only one of its session, and nobody else works on it.
OpeningAlone ==
  \A w \in Workers : pc[w] \in Opening =>
    /\ sid[w] \in Sessions /\ status[sid[w]] = "opening"
    /\ \A v \in Workers : pc[v] \in Opening /\ sid[v] = sid[w] => v = w

\* Rotations and revocations work on sessions whose login has returned, and only
\* such sessions are listed or found.
WorkingOnStarted ==
  /\ \A w \in Workers : pc[w] \in Working => sid[w] \in Sessions /\ status[sid[w]] \in Started
  /\ \A w \in Workers : \A s \in todo[w] \cup found[w] : status[s] \in Started
  /\ \A s \in Sessions : index[s] # None => status[s] \in Started

\* The index loses a session only after its marker is gone for good.
MarkedIsListed ==
  \A s \in Sessions : status[s] \in Started /\ marker[s] # Absent => index[s] # None

RevokedIsUnmarked ==
  /\ \A w \in Workers : pc[w] = "unlist" => marker[sid[w]] = Absent
  /\ \A s \in Sessions : status[s] = "closed" => marker[s] = Absent

\* What a RemoveToken still has to do about a session it must reach.
Ahead(w, s) == \/ pc[w] = "snapshot"
               \/ pc[w] = "sift" /\ s \in todo[w]
               \/ pc[w] \in {"sift", "next", "unmark", "unlist"} /\ s \in found[w]
               \/ pc[w] = "unmark" /\ sid[w] = s
DutyAhead ==
  \A w \in Workers : \A s \in duty[w] :
    /\ op[w] = "removeAll" /\ pc[w] \in Removing
    /\ status[s] \in Started
    /\ marker[s] = Absent \/ Ahead(w, s)

IInv == /\ Typed
        /\ OpeningAlone
        /\ WorkingOnStarted
        /\ MarkedIsListed
        /\ RevokedIsUnmarked
        /\ DutyAhead
-----------------------------------------------------------------------------
LEMMA InitIInv == Init => IInv
  BY DEF Init, IInv, Typed, OpeningAlone, WorkingOnStarted, MarkedIsListed, RevokedIsUnmarked,
     DutyAhead, Ahead, Labels, Opening, Working, Removing, Started, Absent

(* GenerateTokenForSession takes a session ID nobody has used.             *)
LEMMA LoginIInv ==
  ASSUME IInv, NEW w \in Workers, NEW s \in Sessions, Login(w, s)
  PROVE  IInv'
  <1> USE DEF Login, Call, Goto, shared, worker, ghosts, IInv, Labels, Opening, Working, Removing, Started
  <1>1. [access |-> clock, accessUntil |-> clock + AccessTTL,
         refresh |-> clock, refreshUntil |-> clock + RefreshTTL,
         previous |-> None, previousUntil |-> 0] \in Token
    BY Terms DEF Typed, Token
  <1>2. Typed'
    BY <1>1 DEF Typed, Operations, Question, OpeningAlone, WorkingOnStarted, Absent
  <1>3. OpeningAlone'
    BY <1>1 DEF OpeningAlone, WorkingOnStarted, Typed, Absent
  <1>4. WorkingOnStarted'
    BY <1>1 DEF WorkingOnStarted, OpeningAlone, Typed, Absent
  <1>5. MarkedIsListed'
    BY <1>1 DEF MarkedIsListed, WorkingOnStarted, OpeningAlone, Typed, Absent
  <1>6. RevokedIsUnmarked'
    BY <1>1 DEF RevokedIsUnmarked, OpeningAlone, WorkingOnStarted, Typed, Absent
  <1>7. DutyAhead'
    BY <1>1 DEF DutyAhead, Ahead, OpeningAlone, WorkingOnStarted, Typed, Absent
  <1> QED
    BY <1>2, <1>3, <1>4, <1>5, <1>6, <1>7

(* The login makes the marker: nobody works on its session yet.            *)
LEMMA MarkIInv ==
  ASSUME IInv, NEW w \in Workers, Mark(w)
  PROVE  IInv'
  <1> USE DEF Mark, Set, Goto, Later, shared, worker, ghosts, IInv, Labels, Opening, Working, Removing, Started
  <1>1. Typed'
    BY Terms DEF Typed, OpeningAlone
  <1>2. OpeningAlone'
    BY DEF OpeningAlone, WorkingOnStarted, Typed, Absent
  <1>3. WorkingOnStarted'
    BY DEF WorkingOnStarted, OpeningAlone, Typed, Absent
  <1>4. MarkedIsListed'
    BY DEF MarkedIsListed, WorkingOnStarted, OpeningAlone, Typed, Absent
  <1>5. RevokedIsUnmarked'
    BY DEF RevokedIsUnmarked, OpeningAlone, WorkingOnStarted, Typed, Absent
  <1>6. DutyAhead'
    BY DEF DutyAhead, Ahead, OpeningAlone, WorkingOnStarted, Typed, Absent
  <1> QED
    BY <1>1, <1>2, <1>3, <1>4, <1>5, <1>6

(* With its entry in the index the session is open.                        *)
LEMMA ListIInv ==
  ASSUME IInv, NEW w \in Workers, List(w)
  PROVE  IInv'
  <1> USE DEF List, HSet, Return, Goto, shared, worker, ghosts, IInv, Labels, Opening, Working, Removing, Started
  <1>1. Typed'
    BY DEF Typed, Operations, Question, OpeningAlone, WorkingOnStarted, Absent
  <1>2. OpeningAlone'
    BY DEF OpeningAlone, WorkingOnStarted, Typed, Absent
  <1>3. WorkingOnStarted'
    BY DEF WorkingOnStarted, OpeningAlone, Typed, Absent
  <1>4. MarkedIsListed'
    BY NoneIsNoToken DEF MarkedIsListed, WorkingOnStarted, OpeningAlone, Typed, Absent
  <1>5. RevokedIsUnmarked'
    BY DEF RevokedIsUnmarked, OpeningAlone, WorkingOnStarted, Typed, Absent
  <1>6. DutyAhead'
    BY DEF DutyAhead, Ahead, OpeningAlone, WorkingOnStarted, Typed, Absent
  <1> QED
    BY <1>1, <1>2, <1>3, <1>4, <1>5, <1>6

(* A rotation is called.                                                   *)
LEMMA RotateIInv ==
  ASSUME IInv, NEW w \in Workers, NEW what \in Rotations, NEW s \in Sessions, Rotate(w, what, s)
  PROVE  IInv'
  <1> USE DEF Rotate, Call, Goto, Rotations, shared, worker, ghosts, IInv, Labels, Opening, Working, Removing, Started
  <1>1. Typed'
    BY DEF Typed, Operations, Question, OpeningAlone, WorkingOnStarted, Absent
  <1>2. OpeningAlone'
    BY DEF OpeningAlone, WorkingOnStarted, Typed, Absent
  <1>3. WorkingOnStarted'
    BY DEF WorkingOnStarted, OpeningAlone, Typed, Absent
  <1>4. MarkedIsListed'
    BY DEF MarkedIsListed, WorkingOnStarted, OpeningAlone, Typed, Absent
  <1>5. RevokedIsUnmarked'
    BY DEF RevokedIsUnmarked, OpeningAlone, WorkingOnStarted, Typed, Absent
  <1>6. DutyAhead'
    BY DEF DutyAhead, Ahead, OpeningAlone, WorkingOnStarted, Typed, Absent
  <1> QED
    BY <1>1, <1>2, <1>3, <1>4, <1>5, <1>6

(* It looks for the marker, and may sweep an expired one.                  *)
LEMMA LookIInv ==
  ASSUME IInv, NEW w \in Workers, Look(w)
  PROVE  IInv'
  <1> USE DEF Look, Swept, Exists, Return, Goto, shared, worker, ghosts, IInv, Labels, Opening, Working, Removing, Started
  <1>1. Typed'
    <2>1. marker' \in [Sessions -> Int]
      BY DEF Typed, WorkingOnStarted, Absent
    <2> QED
      BY <2>1 DEF Typed, Operations
  <1>2. OpeningAlone'
    BY DEF OpeningAlone, WorkingOnStarted, Typed, Absent
  <1>3. WorkingOnStarted'
    BY DEF WorkingOnStarted, OpeningAlone, Typed, Absent
  <1>4. MarkedIsListed'
    BY DEF MarkedIsListed, WorkingOnStarted, OpeningAlone, Typed, Absent
  <1>5. RevokedIsUnmarked'
    BY DEF RevokedIsUnmarked, OpeningAlone, WorkingOnStarted, Typed, Absent
  <1>6. DutyAhead'
    BY DEF DutyAhead, Ahead, OpeningAlone, WorkingOnStarted, Typed, Absent
  <1> QED
    BY <1>1, <1>2, <1>3, <1>4, <1>5, <1>6

(* It reads the session and changes its copy.                              *)
LEMMA LoadIInv ==
  ASSUME IInv, NEW w \in Workers, Load(w)
  PROVE  IInv'
  <1> USE DEF Load, Return, Goto, shared, worker, ghosts, IInv, Labels, Opening, Working, Removing, Started
  <1>1. ASSUME NEW t \in Token
        PROVE  NewAccess(t) \in Token /\ NewRefresh(t) \in Token
    <2>1. clock \in Int /\ clock + AccessTTL \in Int /\ clock + RefreshTTL \in Int
      BY Terms DEF Typed
    <2>2. Earlier(t.accessUntil, clock + Grace) \in Int
      BY Terms DEF Typed, Earlier, Token
    <2>3. NewAccess(t) \in Token
      BY <2>1, <2>2 DEF NewAccess, Token
    <2>4. NewRefresh(t) \in Token
      BY <2>1 DEF NewRefresh, Token
    <2> QED
      BY <2>3, <2>4
  <1>2. Typed'
    <2>1. copy' \in [Workers -> Token \cup Question \cup {None}]
      BY <1>1 DEF Typed, WorkingOnStarted
    <2>2. pc'[w] = "store" => copy'[w] \in Token
      BY <1>1 DEF Typed, WorkingOnStarted
    <2> QED
      BY <2>1, <2>2 DEF Typed
  <1>3. OpeningAlone'
    BY DEF OpeningAlone, WorkingOnStarted, Typed, Absent
  <1>4. WorkingOnStarted'
    BY DEF WorkingOnStarted, OpeningAlone, Typed, Absent
  <1>5. MarkedIsListed'
    BY DEF MarkedIsListed, WorkingOnStarted, OpeningAlone, Typed, Absent
  <1>6. RevokedIsUnmarked'
    BY DEF RevokedIsUnmarked, OpeningAlone, WorkingOnStarted, Typed, Absent
  <1>7. DutyAhead'
    BY DEF DutyAhead, Ahead, OpeningAlone, WorkingOnStarted, Typed, Absent
  <1> QED
    BY <1>2, <1>3, <1>4, <1>5, <1>6, <1>7

(* The copy is saved, also of a session revoked meanwhile.                 *)
LEMMA StoreIInv ==
  ASSUME IInv, NEW w \in Workers, Store(w)
  PROVE  IInv'
  <1> USE DEF Store, HSet, Goto, shared, worker, ghosts, IInv, Labels, Opening, Working, Removing, Started
  <1>1. Typed'
    BY DEF Typed, Operations, Question, OpeningAlone, WorkingOnStarted, Absent
  <1>2. OpeningAlone'
    BY DEF OpeningAlone, WorkingOnStarted, Typed, Absent
  <1>3. WorkingOnStarted'
    BY DEF WorkingOnStarted, OpeningAlone, Typed, Absent
  <1>4. MarkedIsListed'
    BY NoneIsNoToken DEF MarkedIsListed, WorkingOnStarted, OpeningAlone, Typed, Absent
  <1>5. RevokedIsUnmarked'
    BY DEF RevokedIsUnmarked, OpeningAlone, WorkingOnStarted, Typed, Absent
  <1>6. DutyAhead'
    BY DEF DutyAhead, Ahead, OpeningAlone, WorkingOnStarted, Typed, Absent
  <1> QED
    BY <1>1, <1>2, <1>3, <1>4, <1>5, <1>6

(* Whole seconds fall short of a term by less than one.                    *)
LEMMA WholeSecondsTerm ==
  ASSUME NEW term \in Int
  PROVE  WholeSeconds(term) \in Int /\ WholeSeconds(term) >= Second /\ WholeSeconds(term) > term - Second
  <1>1. Second \in Nat /\ Second > 0
    BY Terms
  <1>2. CASE term < Second
    BY <1>1, <1>2 DEF WholeSeconds
  <1>3. CASE term >= Second
    <2>1. PICK q \in Int : q = term \div Second
      BY <1>1
    <2>2. /\ q * Second <= term
          /\ q * Second > term - Second
      BY <1>1, <2>1
    <2>3. q >= 1
      BY <1>1, <1>3, <2>2
    <2>4. q * Second \in Int /\ q * Second >= Second
      BY <1>1, <2>3
    <2> QED BY <1>1, <1>3, <2>1, <2>2, <2>4 DEF WholeSeconds
  <1> QED BY <1>1, <1>2, <1>3

(* Expire never makes a key, in either cache.                              *)
LEMMA ExpireKeepsAbsent ==
  ASSUME marker \in [Sessions -> Int], clock \in Int,
         NEW s \in Sessions, NEW until \in Int, Expire(s, until)
  PROVE  /\ marker' \in [Sessions -> Int]
         /\ \A t \in Sessions : marker[t] = Absent => marker'[t] = Absent
  <1>1. CASE store = "memory"
    BY <1>1, Terms DEF Expire, Absent, Forever
  <1>2. CASE store = "redis"
    <2>1. PICK late \in {0, 1} :
            marker' = IF ~Exists(s) THEN marker
                      ELSE [marker EXCEPT ![s] = IF until <= clock THEN Absent
                                                 ELSE clock + WholeSeconds(until - clock - late)]
      BY <1>2 DEF Expire
    <2>2. WholeSeconds(until - clock - late) \in Int
      BY WholeSecondsTerm
    <2> QED BY <2>1, <2>2 DEF Exists, Absent
  <1> QED BY <1>1, <1>2 DEF Expire

(* The marker is extended if there is one.                                 *)
LEMMA ExtendIInv ==
  ASSUME IInv, NEW w \in Workers, Extend(w)
  PROVE  IInv'
  <1> USE DEF Extend, Return, Goto, shared, worker, ghosts, IInv, Labels, Opening, Working, Removing, Started
  <1>1. /\ marker' \in [Sessions -> Int]
        /\ \A s \in Sessions : marker[s] = Absent => marker'[s] = Absent
    <2>1. sid[w] \in Sessions /\ End(copy[w]) \in Int
      BY DEF WorkingOnStarted, Typed, End, Later, Token
    <2> QED
      BY <2>1, ExpireKeepsAbsent DEF Typed
  <1>2. Typed'
    BY <1>1 DEF Typed, Operations, Question, OpeningAlone, WorkingOnStarted, Absent
  <1>3. OpeningAlone'
    BY <1>1 DEF OpeningAlone, WorkingOnStarted, Typed, Absent
  <1>4. WorkingOnStarted'
    BY <1>1 DEF WorkingOnStarted, OpeningAlone, Typed, Absent
  <1>5. MarkedIsListed'
    BY <1>1 DEF MarkedIsListed, WorkingOnStarted, OpeningAlone, Typed, Absent
  <1>6. RevokedIsUnmarked'
    BY <1>1 DEF RevokedIsUnmarked, OpeningAlone, WorkingOnStarted, Typed, Absent
  <1>7. DutyAhead'
    BY <1>1 DEF DutyAhead, Ahead, OpeningAlone, WorkingOnStarted, Typed, Absent
  <1> QED
    BY <1>2, <1>3, <1>4, <1>5, <1>6, <1>7

(* RemoveTokenForSession is called.                                        *)
LEMMA LogoutIInv ==
  ASSUME IInv, NEW w \in Workers, NEW s \in Sessions, Logout(w, s)
  PROVE  IInv'
  <1> USE DEF Logout, Call, Goto, shared, worker, ghosts, IInv, Labels, Opening, Working, Removing, Started
  <1>1. Typed'
    BY DEF Typed, Operations, Question, OpeningAlone, WorkingOnStarted, Absent
  <1>2. OpeningAlone'
    BY DEF OpeningAlone, WorkingOnStarted, Typed, Absent
  <1>3. WorkingOnStarted'
    BY DEF WorkingOnStarted, OpeningAlone, Typed, Absent
  <1>4. MarkedIsListed'
    BY DEF MarkedIsListed, WorkingOnStarted, OpeningAlone, Typed, Absent
  <1>5. RevokedIsUnmarked'
    BY DEF RevokedIsUnmarked, OpeningAlone, WorkingOnStarted, Typed, Absent
  <1>6. DutyAhead'
    BY DEF DutyAhead, Ahead, OpeningAlone, WorkingOnStarted, Typed, Absent
  <1> QED
    BY <1>1, <1>2, <1>3, <1>4, <1>5, <1>6

(* It deletes the marker.                                                  *)
LEMMA UnmarkIInv ==
  ASSUME IInv, NEW w \in Workers, Unmark(w)
  PROVE  IInv'
  <1> USE DEF Unmark, Del, Goto, shared, worker, ghosts, IInv, Labels, Opening, Working, Removing, Started
  <1>1. Typed'
    BY DEF Typed, Operations, Question, OpeningAlone, WorkingOnStarted, Absent
  <1>2. OpeningAlone'
    BY DEF OpeningAlone, WorkingOnStarted, Typed, Absent
  <1>3. WorkingOnStarted'
    BY DEF WorkingOnStarted, OpeningAlone, Typed, Absent
  <1>4. MarkedIsListed'
    BY DEF MarkedIsListed, WorkingOnStarted, OpeningAlone, Typed, Absent
  <1>5. RevokedIsUnmarked'
    BY DEF RevokedIsUnmarked, OpeningAlone, WorkingOnStarted, Typed, Absent
  <1>6. DutyAhead'
    BY DEF DutyAhead, Ahead, OpeningAlone, WorkingOnStarted, Typed, Absent
  <1> QED
    BY <1>1, <1>2, <1>3, <1>4, <1>5, <1>6

(* It deletes the entry; with that the session is closed.                  *)
LEMMA UnlistIInv ==
  ASSUME IInv, NEW w \in Workers, Unlist(w)
  PROVE  IInv'
  <1> USE DEF Unlist, HDel, Return, Goto, shared, worker, ghosts, IInv, Labels, Opening, Working, Removing, Started
  <1>1. Typed'
    <2>1. status' \in [Sessions -> {"new", "opening"} \cup Started]
      BY DEF Typed
    <2>2. index' \in [Sessions -> Token \cup {None}]
      BY DEF Typed
    <2>3. CASE op[w] = "removeAll"
      BY <2>1, <2>2, <2>3 DEF Typed
    <2>4. CASE op[w] # "removeAll"
      BY <2>1, <2>2, <2>4 DEF Typed
    <2> QED
      BY <2>3, <2>4
  <1>2. OpeningAlone'
    BY DEF OpeningAlone, WorkingOnStarted, Typed, Absent
  <1>3. WorkingOnStarted'
    BY DEF WorkingOnStarted, OpeningAlone, Typed, Absent
  <1>4. MarkedIsListed'
    BY DEF MarkedIsListed, RevokedIsUnmarked, WorkingOnStarted, OpeningAlone, Typed, Absent
  <1>5. RevokedIsUnmarked'
    BY DEF RevokedIsUnmarked, OpeningAlone, WorkingOnStarted, Typed, Absent
  <1>6. DutyAhead'
    BY DEF DutyAhead, Ahead, OpeningAlone, WorkingOnStarted, Typed, Absent
  <1> QED
    BY <1>1, <1>2, <1>3, <1>4, <1>5, <1>6

(* RemoveToken is called: it must reach every session open now.            *)
LEMMA RemoveTokenIInv ==
  ASSUME IInv, NEW w \in Workers, RemoveToken(w)
  PROVE  IInv'
  <1> USE DEF RemoveToken, Call, Goto, shared, worker, ghosts, IInv, Labels, Opening, Working, Removing, Started
  <1>1. Typed'
    BY DEF Typed, Operations, Question, OpeningAlone, WorkingOnStarted, Absent
  <1>2. OpeningAlone'
    BY DEF OpeningAlone, WorkingOnStarted, Typed, Absent
  <1>3. WorkingOnStarted'
    BY DEF WorkingOnStarted, OpeningAlone, Typed, Absent
  <1>4. MarkedIsListed'
    BY DEF MarkedIsListed, WorkingOnStarted, OpeningAlone, Typed, Absent
  <1>5. RevokedIsUnmarked'
    BY DEF RevokedIsUnmarked, OpeningAlone, WorkingOnStarted, Typed, Absent
  <1>6. DutyAhead'
    BY DEF DutyAhead, Ahead, OpeningAlone, WorkingOnStarted, Typed, Absent
  <1> QED
    BY <1>1, <1>2, <1>3, <1>4, <1>5, <1>6

(* A check is called.                                                      *)
LEMMA IsTokenValidIInv ==
  ASSUME IInv, NEW w \in Workers, NEW s \in Sessions, NEW kind \in {"access", "refresh"}, NEW issued \in 0..MaxTime, IsTokenValid(w, s, kind, issued)
  PROVE  IInv'
  <1> USE DEF IsTokenValid, Call, Goto, shared, worker, ghosts, IInv, Labels, Opening, Working, Removing, Started
  <1>1. Typed'
    BY DEF Typed, Operations, Question, OpeningAlone, WorkingOnStarted, Absent
  <1>2. OpeningAlone'
    BY DEF OpeningAlone, WorkingOnStarted, Typed, Absent
  <1>3. WorkingOnStarted'
    BY DEF WorkingOnStarted, OpeningAlone, Typed, Absent
  <1>4. MarkedIsListed'
    BY DEF MarkedIsListed, WorkingOnStarted, OpeningAlone, Typed, Absent
  <1>5. RevokedIsUnmarked'
    BY DEF RevokedIsUnmarked, OpeningAlone, WorkingOnStarted, Typed, Absent
  <1>6. DutyAhead'
    BY DEF DutyAhead, Ahead, OpeningAlone, WorkingOnStarted, Typed, Absent
  <1> QED
    BY <1>1, <1>2, <1>3, <1>4, <1>5, <1>6

(* getTokenSessions reads the index.                                       *)
LEMMA SnapshotIInv ==
  ASSUME IInv, NEW w \in Workers, Snapshot(w)
  PROVE  IInv'
  <1> USE DEF Snapshot, Goto, shared, worker, ghosts, IInv, Labels, Opening, Working, Removing, Started
  <1>1. Typed'
    BY DEF Typed, Operations, Question, OpeningAlone, WorkingOnStarted, Absent
  <1>2. OpeningAlone'
    BY DEF OpeningAlone, WorkingOnStarted, Typed, Absent
  <1>3. WorkingOnStarted'
    BY DEF WorkingOnStarted, OpeningAlone, Typed, Absent
  <1>4. MarkedIsListed'
    BY DEF MarkedIsListed, WorkingOnStarted, OpeningAlone, Typed, Absent
  <1>5. RevokedIsUnmarked'
    BY DEF RevokedIsUnmarked, OpeningAlone, WorkingOnStarted, Typed, Absent
  <1>6. DutyAhead'
    BY DEF DutyAhead, Ahead, MarkedIsListed, OpeningAlone, WorkingOnStarted, Typed, Absent
  <1> QED
    BY <1>1, <1>2, <1>3, <1>4, <1>5, <1>6

(* It keeps a session with a marker and prunes one without.                *)
LEMMA SiftIInv ==
  ASSUME IInv, NEW w \in Workers, NEW s \in Sessions, Sift(w, s)
  PROVE  IInv'
  <1> USE DEF Sift, Swept, Exists, shared, worker, ghosts, IInv, Labels, Opening, Working, Removing, Started
  <1>1. Typed'
    <2>1. marker' \in [Sessions -> Int]
      BY DEF Typed, Absent
    <2>2. index' \in [Sessions -> Token \cup {None}]
      BY DEF Typed
    <2> QED
      BY <2>1, <2>2 DEF Typed
  <1>2. OpeningAlone'
    BY DEF OpeningAlone, WorkingOnStarted, Typed, Absent
  <1>3. WorkingOnStarted'
    BY DEF WorkingOnStarted, OpeningAlone, Typed, Absent
  <1>4. MarkedIsListed'
    BY DEF MarkedIsListed, WorkingOnStarted, OpeningAlone, Typed, Absent
  <1>5. RevokedIsUnmarked'
    BY DEF RevokedIsUnmarked, OpeningAlone, WorkingOnStarted, Typed, Absent
  <1>6. DutyAhead'
    BY DEF DutyAhead, Ahead, OpeningAlone, WorkingOnStarted, Typed, Absent
  <1> QED
    BY <1>1, <1>2, <1>3, <1>4, <1>5, <1>6

(* The check returns.                                                      *)
LEMMA AnswerIInv ==
  ASSUME IInv, NEW w \in Workers, Answer(w)
  PROVE  IInv'
  <1> USE DEF Answer, Return, Goto, shared, worker, ghosts, IInv, Labels, Opening, Working, Removing, Started
  <1>1. Typed'
    BY DEF Typed, Operations, Question, OpeningAlone, WorkingOnStarted, Absent
  <1>2. OpeningAlone'
    BY DEF OpeningAlone, WorkingOnStarted, Typed, Absent
  <1>3. WorkingOnStarted'
    BY DEF WorkingOnStarted, OpeningAlone, Typed, Absent
  <1>4. MarkedIsListed'
    BY DEF MarkedIsListed, WorkingOnStarted, OpeningAlone, Typed, Absent
  <1>5. RevokedIsUnmarked'
    BY DEF RevokedIsUnmarked, OpeningAlone, WorkingOnStarted, Typed, Absent
  <1>6. DutyAhead'
    BY DEF DutyAhead, Ahead, OpeningAlone, WorkingOnStarted, Typed, Absent
  <1> QED
    BY <1>1, <1>2, <1>3, <1>4, <1>5, <1>6

(* RemoveToken has its list.                                               *)
LEMMA SiftedIInv ==
  ASSUME IInv, NEW w \in Workers, Sifted(w)
  PROVE  IInv'
  <1> USE DEF Sifted, Goto, shared, worker, ghosts, IInv, Labels, Opening, Working, Removing, Started
  <1>1. Typed'
    BY DEF Typed, Operations, Question, OpeningAlone, WorkingOnStarted, Absent
  <1>2. OpeningAlone'
    BY DEF OpeningAlone, WorkingOnStarted, Typed, Absent
  <1>3. WorkingOnStarted'
    BY DEF WorkingOnStarted, OpeningAlone, Typed, Absent
  <1>4. MarkedIsListed'
    BY DEF MarkedIsListed, WorkingOnStarted, OpeningAlone, Typed, Absent
  <1>5. RevokedIsUnmarked'
    BY DEF RevokedIsUnmarked, OpeningAlone, WorkingOnStarted, Typed, Absent
  <1>6. DutyAhead'
    BY DEF DutyAhead, Ahead, OpeningAlone, WorkingOnStarted, Typed, Absent
  <1> QED
    BY <1>1, <1>2, <1>3, <1>4, <1>5, <1>6

(* RemoveToken turns to the next session it found.                         *)
LEMMA NextOneIInv ==
  ASSUME IInv, NEW w \in Workers, NEW s \in Sessions, NextOne(w, s)
  PROVE  IInv'
  <1> USE DEF NextOne, Goto, shared, worker, ghosts, IInv, Labels, Opening, Working, Removing, Started
  <1>1. Typed'
    BY DEF Typed, Operations, Question, OpeningAlone, WorkingOnStarted, Absent
  <1>2. OpeningAlone'
    BY DEF OpeningAlone, WorkingOnStarted, Typed, Absent
  <1>3. WorkingOnStarted'
    BY DEF WorkingOnStarted, OpeningAlone, Typed, Absent
  <1>4. MarkedIsListed'
    BY DEF MarkedIsListed, WorkingOnStarted, OpeningAlone, Typed, Absent
  <1>5. RevokedIsUnmarked'
    BY DEF RevokedIsUnmarked, OpeningAlone, WorkingOnStarted, Typed, Absent
  <1>6. DutyAhead'
    BY DEF DutyAhead, Ahead, OpeningAlone, WorkingOnStarted, Typed, Absent
  <1> QED
    BY <1>1, <1>2, <1>3, <1>4, <1>5, <1>6

(* RemoveToken returns.                                                    *)
LEMMA RemovedAllIInv ==
  ASSUME IInv, NEW w \in Workers, RemovedAll(w)
  PROVE  IInv'
  <1> USE DEF RemovedAll, Return, Goto, shared, worker, ghosts, IInv, Labels, Opening, Working, Removing, Started
  <1>1. Typed'
    BY DEF Typed, Operations, Question, OpeningAlone, WorkingOnStarted, Absent
  <1>2. OpeningAlone'
    BY DEF OpeningAlone, WorkingOnStarted, Typed, Absent
  <1>3. WorkingOnStarted'
    BY DEF WorkingOnStarted, OpeningAlone, Typed, Absent
  <1>4. MarkedIsListed'
    BY DEF MarkedIsListed, WorkingOnStarted, OpeningAlone, Typed, Absent
  <1>5. RevokedIsUnmarked'
    BY DEF RevokedIsUnmarked, OpeningAlone, WorkingOnStarted, Typed, Absent
  <1>6. DutyAhead'
    BY DEF DutyAhead, Ahead, OpeningAlone, WorkingOnStarted, Typed, Absent
  <1> QED
    BY <1>1, <1>2, <1>3, <1>4, <1>5, <1>6

(* A cache call fails and the operation returns.                           *)
LEMMA FailIInv ==
  ASSUME IInv, NEW w \in Workers, Fail(w)
  PROVE  IInv'
  <1> USE DEF Fail, Return, Goto, shared, worker, ghosts, IInv, Labels, Opening, Working, Removing, Started
  <1>1. Typed'
    BY DEF Typed, Operations, Question, OpeningAlone, WorkingOnStarted, Absent
  <1>2. OpeningAlone'
    BY DEF OpeningAlone, WorkingOnStarted, Typed, Absent
  <1>3. WorkingOnStarted'
    BY DEF WorkingOnStarted, OpeningAlone, Typed, Absent
  <1>4. MarkedIsListed'
    BY DEF MarkedIsListed, WorkingOnStarted, OpeningAlone, Typed, Absent
  <1>5. RevokedIsUnmarked'
    BY DEF RevokedIsUnmarked, OpeningAlone, WorkingOnStarted, Typed, Absent
  <1>6. DutyAhead'
    BY DEF DutyAhead, Ahead, OpeningAlone, WorkingOnStarted, Typed, Absent
  <1> QED
    BY <1>1, <1>2, <1>3, <1>4, <1>5, <1>6

(* The clock ticks: expiry changes nothing that is stored.                 *)
LEMMA TickIInv ==
  ASSUME IInv, Tick
  PROVE  IInv'
  BY DEF Tick, worker, ghosts, IInv, Typed, OpeningAlone, WorkingOnStarted, MarkedIsListed,
     RevokedIsUnmarked, DutyAhead, Ahead

LEMMA NextIInv == IInv /\ [Next]_vars => IInv'
  <1> SUFFICES ASSUME IInv, [Next]_vars
               PROVE  IInv'
    OBVIOUS
  <1>1. CASE Begin
    BY <1>1, RemoveTokenIInv, LoginIInv, LogoutIInv, RotateIInv, IsTokenValidIInv DEF Begin
  <1>2. CASE Continue
    BY <1>2, TickIInv, MarkIInv, ListIInv, LookIInv, LoadIInv, StoreIInv, ExtendIInv, UnmarkIInv,
       UnlistIInv, SnapshotIInv, AnswerIInv, SiftedIInv, RemovedAllIInv, FailIInv, SiftIInv, NextOneIInv
       DEF Continue
  <1>3. CASE UNCHANGED vars
    BY <1>3 DEF vars, shared, worker, ghosts, IInv, Typed, OpeningAlone, WorkingOnStarted,
       MarkedIsListed, RevokedIsUnmarked, DutyAhead, Ahead
  <1> QED
    BY <1>1, <1>2, <1>3 DEF Next

(* The inductive invariant holds of every behaviour.                       *)
THEOREM Invariance == Spec => []IInv
  BY InitIInv, NextIInv, PTL DEF Spec

(* Once RemoveTokenForSession has returned, its session stays revoked,     *)
(* whatever rotations, logins and checks were under way.                   *)
THEOREM RevocationIsFinal == Spec => []RevokedStaysRevoked
  <1>1. IInv => RevokedStaysRevoked
    BY DEF IInv, RevokedIsUnmarked, RevokedStaysRevoked, Exists
  <1> QED
    BY <1>1, Invariance, PTL

(* getTokenSessions prunes no session that is open and has its marker.     *)
THEOREM OpenStaysListed == Spec => []OpenSessionsListed
  <1>1. IInv => OpenSessionsListed
    BY DEF IInv, MarkedIsListed, OpenSessionsListed, Exists, Started
  <1> QED
    BY <1>1, Invariance, PTL

(* When RemoveToken returns, every session that was open when it was       *)
(* called is revoked or has run out.                                       *)
THEOREM RemovalIsComplete == Spec => RemoveTokenReachesAll
  <1>1. ASSUME IInv, NEW w \in Workers, RemovedAll(w), NEW s \in duty[w]
        PROVE  ~Exists(s)
    BY <1>1 DEF IInv, DutyAhead, Ahead, RemovedAll, Exists
  <1>2. IInv /\ [Next]_vars => [\A w \in Workers : RemovedAll(w) => \A s \in duty[w] : ~Exists(s)]_vars
    BY <1>1
  <1> QED
    BY <1>2, Invariance, PTL DEF Spec, RemoveTokenReachesAll
-----------------------------------------------------------------------------
(* What a check finds out.  getTokenSessions holds indexMu from the reading *)
(* of the index to the last marker, so the entry a check has found is still *)
(* there when it answers.                                                  *)
LockHeld == \A w \in Workers : pc[w] = "sift" => mu = w
Asked == \A w \in Workers :
  /\ op[w] = "check" => /\ pc[w] \in {"snapshot", "sift"} /\ sid[w] \in Sessions
                        /\ copy[w] \in Question
  /\ pc[w] \in {"idle", "snapshot"} => found[w] = {}
Apart == \A w \in Workers : todo[w] \cap found[w] = {}

Seen == \A w \in Workers : op[w] = "check" =>
  (RightAnswer(w) => TRUE \in truths[w]) /\ (~RightAnswer(w) => FALSE \in truths[w])

\* Each answer that is still possible was right at some moment.
Judged(w) == /\ sid[w] \in todo[w] \cup found[w] => index[sid[w]] # None
             /\ sid[w] \notin todo[w] \cup found[w] => FALSE \in truths[w]
             /\ Accepted(w) => TRUE \in truths[w]
JudgedSoFar == \A w \in Workers : op[w] = "check" /\ pc[w] = "sift" => Judged(w)

CInv == IInv /\ LockHeld /\ Asked /\ Apart /\ Seen /\ JudgedSoFar

(* indexMu is held by the one that sifts, and only a check that is being   *)
(* made has a question.                                                    *)
LEMMA LockAndQuestion ==
  ASSUME IInv, LockHeld, Asked, Apart, Begin \/ Continue
  PROVE  LockHeld' /\ Asked' /\ Apart'
  <1> USE NoneIsFresh DEF Goto, shared, worker, ghosts, IInv, Typed, LockHeld, Asked, Apart, Labels, Operations
  <1>1. ASSUME NEW w \in Workers, RemoveToken(w)
        PROVE  LockHeld' /\ Asked' /\ Apart'
    BY <1>1 DEF RemoveToken, Call
  <1>2. ASSUME NEW w \in Workers, NEW s \in Sessions, Login(w, s)
        PROVE  LockHeld' /\ Asked' /\ Apart'
    BY <1>2 DEF Login, Call
  <1>3. ASSUME NEW w \in Workers, NEW s \in Sessions, Logout(w, s)
        PROVE  LockHeld' /\ Asked' /\ Apart'
    BY <1>3 DEF Logout, Call
  <1>4. ASSUME NEW w \in Workers, NEW s \in Sessions, NEW what \in Rotations, Rotate(w, what, s)
        PROVE  LockHeld' /\ Asked' /\ Apart'
    BY <1>4 DEF Rotate, Call, Rotations
  <1>5. ASSUME NEW w \in Workers, NEW s \in Sessions, NEW kind \in {"access", "refresh"}, NEW issued \in 0..MaxTime, IsTokenValid(w, s, kind, issued)
        PROVE  LockHeld' /\ Asked' /\ Apart'
    BY <1>5 DEF IsTokenValid, Call, Question
  <1>6. ASSUME NEW w \in Workers, Mark(w)
        PROVE  LockHeld' /\ Asked' /\ Apart'
    BY <1>6 DEF Mark
  <1>7. ASSUME NEW w \in Workers, List(w)
        PROVE  LockHeld' /\ Asked' /\ Apart'
    BY <1>7 DEF List, Return
  <1>8. ASSUME NEW w \in Workers, Look(w)
        PROVE  LockHeld' /\ Asked' /\ Apart'
    BY <1>8 DEF Look, Return
  <1>9. ASSUME NEW w \in Workers, Load(w)
        PROVE  LockHeld' /\ Asked' /\ Apart'
    BY <1>9 DEF Load, Return
  <1>10. ASSUME NEW w \in Workers, Store(w)
        PROVE  LockHeld' /\ Asked' /\ Apart'
    BY <1>10 DEF Store
  <1>11. ASSUME NEW w \in Workers, Extend(w)
        PROVE  LockHeld' /\ Asked' /\ Apart'
    BY <1>11 DEF Extend, Return
  <1>12. ASSUME NEW w \in Workers, Unmark(w)
        PROVE  LockHeld' /\ Asked' /\ Apart'
    BY <1>12 DEF Unmark
  <1>13. ASSUME NEW w \in Workers, Unlist(w)
        PROVE  LockHeld' /\ Asked' /\ Apart'
    BY <1>13 DEF Unlist, Return
  <1>14. ASSUME NEW w \in Workers, Snapshot(w)
        PROVE  LockHeld' /\ Asked' /\ Apart'
    BY <1>14 DEF Snapshot
  <1>15. ASSUME NEW w \in Workers, Answer(w)
        PROVE  LockHeld' /\ Asked' /\ Apart'
    BY <1>15 DEF Answer, Return
  <1>16. ASSUME NEW w \in Workers, Sifted(w)
        PROVE  LockHeld' /\ Asked' /\ Apart'
    BY <1>16 DEF Sifted
  <1>17. ASSUME NEW w \in Workers, RemovedAll(w)
        PROVE  LockHeld' /\ Asked' /\ Apart'
    BY <1>17 DEF RemovedAll, Return
  <1>18. ASSUME NEW w \in Workers, Fail(w)
        PROVE  LockHeld' /\ Asked' /\ Apart'
    BY <1>18 DEF Fail, Return
  <1>19. ASSUME NEW w \in Workers, NEW s \in Sessions, Sift(w, s)
        PROVE  LockHeld' /\ Asked' /\ Apart'
    BY <1>19 DEF Sift
  <1>20. ASSUME NEW w \in Workers, NEW s \in Sessions, NextOne(w, s)
        PROVE  LockHeld' /\ Asked' /\ Apart'
    BY <1>20 DEF NextOne
  <1>21. ASSUME Tick PROVE LockHeld' /\ Asked' /\ Apart'
    BY <1>21 DEF Tick
  <1> QED
    BY <1>1, <1>2, <1>3, <1>4, <1>5, <1>6, <1>7, <1>8, <1>9, <1>10, <1>11, <1>12, <1>13, <1>14,
       <1>15, <1>16, <1>17, <1>18, <1>19, <1>20, <1>21 DEF Begin, Continue

(* While one request sifts, others leave it and the index alone.           *)
Quiet(w) == /\ pc[w] = "sift" /\ op[w] = "check" /\ index' = index
            /\ <<sid'[w], copy'[w], todo'[w], found'[w]>> = <<sid[w], copy[w], todo[w], found[w]>>
            /\ clock <= clock'
LEMMA OnlyItsOwnSteps ==
  ASSUME IInv, LockHeld, Begin \/ Continue, NEW w \in Workers, op'[w] = "check", pc'[w] = "sift"
  PROVE  Snapshot(w) \/ (\E r \in Sessions : Sift(w, r)) \/ Quiet(w)
  <1> USE NoneIsFresh DEF Goto, shared, worker, ghosts, IInv, Typed, LockHeld, Labels, Operations, Quiet
  <1>1. ASSUME NEW v \in Workers, RemoveToken(v)
        PROVE  Snapshot(w) \/ (\E r \in Sessions : Sift(w, r)) \/ Quiet(w)
    BY <1>1 DEF RemoveToken, Call
  <1>2. ASSUME NEW v \in Workers, NEW s \in Sessions, Login(v, s)
        PROVE  Snapshot(w) \/ (\E r \in Sessions : Sift(w, r)) \/ Quiet(w)
    BY <1>2 DEF Login, Call
  <1>3. ASSUME NEW v \in Workers, NEW s \in Sessions, Logout(v, s)
        PROVE  Snapshot(w) \/ (\E r \in Sessions : Sift(w, r)) \/ Quiet(w)
    BY <1>3 DEF Logout, Call
  <1>4. ASSUME NEW v \in Workers, NEW s \in Sessions, NEW what \in Rotations, Rotate(v, what, s)
        PROVE  Snapshot(w) \/ (\E r \in Sessions : Sift(w, r)) \/ Quiet(w)
    BY <1>4 DEF Rotate, Call
  <1>5. ASSUME NEW v \in Workers, NEW s \in Sessions, NEW kind \in {"access", "refresh"}, NEW issued \in 0..MaxTime, IsTokenValid(v, s, kind, issued)
        PROVE  Snapshot(w) \/ (\E r \in Sessions : Sift(w, r)) \/ Quiet(w)
    BY <1>5 DEF IsTokenValid, Call
  <1>6. ASSUME NEW v \in Workers, Mark(v)
        PROVE  Snapshot(w) \/ (\E r \in Sessions : Sift(w, r)) \/ Quiet(w)
    BY <1>6 DEF Mark
  <1>7. ASSUME NEW v \in Workers, List(v)
        PROVE  Snapshot(w) \/ (\E r \in Sessions : Sift(w, r)) \/ Quiet(w)
    BY <1>7 DEF List, Return, HSet
  <1>8. ASSUME NEW v \in Workers, Look(v)
        PROVE  Snapshot(w) \/ (\E r \in Sessions : Sift(w, r)) \/ Quiet(w)
    BY <1>8 DEF Look, Return
  <1>9. ASSUME NEW v \in Workers, Load(v)
        PROVE  Snapshot(w) \/ (\E r \in Sessions : Sift(w, r)) \/ Quiet(w)
    BY <1>9 DEF Load, Return
  <1>10. ASSUME NEW v \in Workers, Store(v)
        PROVE  Snapshot(w) \/ (\E r \in Sessions : Sift(w, r)) \/ Quiet(w)
    BY <1>10 DEF Store, HSet
  <1>11. ASSUME NEW v \in Workers, Extend(v)
        PROVE  Snapshot(w) \/ (\E r \in Sessions : Sift(w, r)) \/ Quiet(w)
    BY <1>11 DEF Extend, Return
  <1>12. ASSUME NEW v \in Workers, Unmark(v)
        PROVE  Snapshot(w) \/ (\E r \in Sessions : Sift(w, r)) \/ Quiet(w)
    BY <1>12 DEF Unmark
  <1>13. ASSUME NEW v \in Workers, Unlist(v)
        PROVE  Snapshot(w) \/ (\E r \in Sessions : Sift(w, r)) \/ Quiet(w)
    BY <1>13 DEF Unlist, Return, HDel
  <1>14. ASSUME NEW v \in Workers, Snapshot(v)
        PROVE  Snapshot(w) \/ (\E r \in Sessions : Sift(w, r)) \/ Quiet(w)
    <2>1. CASE v = w
      BY <1>14, <2>1
    <2>2. CASE v # w
      BY <1>14, <2>2 DEF Snapshot
    <2> QED
      BY <2>1, <2>2
  <1>15. ASSUME NEW v \in Workers, Answer(v)
        PROVE  Snapshot(w) \/ (\E r \in Sessions : Sift(w, r)) \/ Quiet(w)
    BY <1>15 DEF Answer, Return
  <1>16. ASSUME NEW v \in Workers, Sifted(v)
        PROVE  Snapshot(w) \/ (\E r \in Sessions : Sift(w, r)) \/ Quiet(w)
    BY <1>16 DEF Sifted
  <1>17. ASSUME NEW v \in Workers, RemovedAll(v)
        PROVE  Snapshot(w) \/ (\E r \in Sessions : Sift(w, r)) \/ Quiet(w)
    BY <1>17 DEF RemovedAll, Return
  <1>18. ASSUME NEW v \in Workers, Fail(v)
        PROVE  Snapshot(w) \/ (\E r \in Sessions : Sift(w, r)) \/ Quiet(w)
    BY <1>18 DEF Fail, Return
  <1>19. ASSUME NEW v \in Workers, NEW s \in Sessions, Sift(v, s)
        PROVE  Snapshot(w) \/ (\E r \in Sessions : Sift(w, r)) \/ Quiet(w)
    <2>1. CASE v = w
      BY <1>19, <2>1
    <2>2. CASE v # w
      BY <1>19, <2>2 DEF Sift
    <2> QED
      BY <2>1, <2>2
  <1>20. ASSUME NEW v \in Workers, NEW s \in Sessions, NextOne(v, s)
        PROVE  Snapshot(w) \/ (\E r \in Sessions : Sift(w, r)) \/ Quiet(w)
    BY <1>20 DEF NextOne
  <1>21. CASE Tick
    BY <1>21 DEF Tick
  <1> QED
    BY <1>1, <1>2, <1>3, <1>4, <1>5, <1>6, <1>7, <1>8, <1>9, <1>10, <1>11, <1>12, <1>13, <1>14,
       <1>15, <1>16, <1>17, <1>18, <1>19, <1>20, <1>21 DEF Begin, Continue

(* A check sees what it left behind and the state it comes to.             *)
LEMMA SeenGrows ==
  ASSUME Next, Asked', NEW w \in Workers, op'[w] = "check"
  PROVE  /\ truths[w] \subseteq truths'[w]
         /\ RightAnswer(w)' => TRUE \in truths'[w]
         /\ ~RightAnswer(w)' => FALSE \in truths'[w]
  <1>1. truths'[w] = truths[w] \cup {RightAnswer(w)'}
    BY DEF Next, Observe
  <1>2. RightAnswer(w)' \in BOOLEAN
    BY DEF RightAnswer
  <1> QED
    BY <1>1, <1>2

(* The first reading of the index answers a check of a session that is not *)
(* listed; the reading of a marker answers the others, one way or the      *)
(* other; a refresh token that counts later counted before.                *)
LEMMA JudgedNext ==
  ASSUME CInv, Next, Asked', IInv', NEW w \in Workers, op'[w] = "check", pc'[w] = "sift"
  PROVE  Judged(w)'
  <1>1. truths[w] \subseteq truths'[w]
    BY SeenGrows
  <1>2. CASE Snapshot(w)
    <2>1. /\ op[w] = "check" /\ pc[w] = "snapshot" /\ found'[w] = {} /\ index' = index
          /\ sid'[w] = sid[w] /\ todo'[w] = {s \in Sessions : index[s] # None} /\ sid[w] \in Sessions
      BY <1>2 DEF Snapshot, CInv, Asked, IInv, Typed
    <2>2. sid'[w] \notin todo'[w] => FALSE \in truths'[w]
      BY <2>1, <1>1 DEF CInv, Seen, RightAnswer
    <2> QED
      BY <2>1, <2>2 DEF Judged, Accepted
  <1>3. ASSUME NEW s \in Sessions, Sift(w, s)
        PROVE  Judged(w)'
    <2>1. /\ op[w] = "check" /\ pc[w] = "sift" /\ Judged(w)
          /\ sid'[w] = sid[w] /\ copy'[w] = copy[w] /\ clock' = clock /\ todo'[w] = todo[w] \ {s}
          /\ sid[w] \in Sessions /\ s \in todo[w]
      BY <1>3 DEF Sift, CInv, JudgedSoFar, Asked, IInv, Typed
    <2>2. CASE Exists(s)
      <3>1. index' = index /\ found'[w] = found[w] \cup {s}
        BY <1>3, <2>2 DEF Sift, CInv, IInv, Typed
      <3>2. CASE s = sid[w]
        <4>1. index[s] # None
          BY <2>1, <3>2 DEF Judged
        <4>2. Counts(copy[w], index[s]) => TRUE \in truths[w]
          BY <4>1, <2>1, <2>2, <3>2 DEF CInv, Seen, RightAnswer
        <4>3. Accepted(w)' => Counts(copy[w], index[s])
          BY <3>1, <3>2, <2>1 DEF Accepted, Counts
        <4> QED
          BY <4>1, <4>2, <4>3, <3>1, <3>2, <2>1, <1>1 DEF Judged
      <3>3. CASE s # sid[w]
        <4>1. Accepted(w)' => Accepted(w)
          BY <3>1, <3>3, <2>1 DEF Accepted, Counts
        <4> QED
          BY <4>1, <3>1, <3>3, <2>1, <1>1 DEF Judged
      <3> QED
        BY <3>2, <3>3
    <2>3. CASE ~Exists(s)
      <3>1. index' = [index EXCEPT ![s] = None] /\ found'[w] = found[w]
        BY <1>3, <2>3 DEF Sift
      <3>2. CASE s = sid[w]
        <4>1. FALSE \in truths[w]
          BY <2>1, <2>3, <3>2 DEF CInv, Seen, RightAnswer
        <4>2. sid[w] \notin found[w]
          BY <2>1, <3>2 DEF CInv, Apart
        <4> QED
          BY <4>1, <4>2, <3>1, <3>2, <2>1, <1>1 DEF Judged, Accepted
      <3>3. CASE s # sid[w]
        <4>1. index'[sid[w]] = index[sid[w]]
          BY <3>1, <3>3, <2>1 DEF CInv, IInv, Typed
        <4>2. Accepted(w)' => Accepted(w)
          BY <4>1, <3>1, <2>1 DEF Accepted, Counts
        <4> QED
          BY <4>1, <4>2, <3>1, <3>3, <2>1, <1>1 DEF Judged
      <3> QED
        BY <3>2, <3>3
    <2> QED
      BY <2>2, <2>3
  <1>4. CASE Quiet(w)
    <2>1. /\ op[w] = "check" /\ pc[w] = "sift" /\ Judged(w) /\ index' = index /\ sid[w] \in Sessions
          /\ sid'[w] = sid[w] /\ copy'[w] = copy[w] /\ todo'[w] = todo[w] /\ found'[w] = found[w]
          /\ clock <= clock' /\ clock \in Int /\ clock' \in Int
      BY <1>4 DEF Quiet, CInv, JudgedSoFar, Asked, IInv, Typed
    <2>2. sid[w] \in found[w] => index[sid[w]] \in Token
      BY <2>1 DEF CInv, IInv, Typed, Judged
    <2>3. Accepted(w)' => Accepted(w)
      BY <2>1, <2>2 DEF Accepted, Counts, Token
    <2> QED
      BY <2>1, <2>3, <1>1 DEF Judged
  <1> QED
    BY <1>2, <1>3, <1>4, OnlyItsOwnSteps DEF CInv, Next

LEMMA NextCInv == CInv /\ [Next]_vars => CInv'
  <1> SUFFICES ASSUME CInv, [Next]_vars
               PROVE  CInv'
    OBVIOUS
  <1>1. CASE Next
    <2>1. IInv'
      BY <1>1, NextIInv DEF CInv
    <2>2. LockHeld' /\ Asked' /\ Apart'
      BY <1>1, LockAndQuestion DEF CInv, Next
    <2>3. Seen'
      BY <1>1, <2>2, SeenGrows DEF Seen
    <2>4. JudgedSoFar'
      BY <1>1, <2>1, <2>2, JudgedNext DEF JudgedSoFar
    <2> QED
      BY <2>1, <2>2, <2>3, <2>4 DEF CInv
  <1>2. CASE UNCHANGED vars
    <2>1. IInv'
      BY <1>2, NextIInv DEF CInv
    <2> QED
      BY <1>2, <2>1
         DEF CInv, vars, shared, worker, ghosts, LockHeld, Asked, Apart, Seen, RightAnswer, Exists,
         Counts, JudgedSoFar, Judged, Accepted
  <1> QED
    BY <1>1, <1>2

LEMMA InitCInv == Init => CInv
  BY InitIInv, NoneIsFresh DEF Init, CInv, LockHeld, Asked, Apart, Seen, JudgedSoFar, Operations

(* Every answer of IsAccessTokenValid and IsRefreshTokenValid was right at *)
(* some moment of the call.                                                *)
THEOREM ChecksStayHonest == Spec => ChecksAreHonest
  <1>1. ASSUME CInv, NEW w \in Workers, Answer(w)
        PROVE  Accepted(w) \in truths[w]
    <2>1. op[w] = "check" /\ pc[w] = "sift" /\ todo[w] = {} /\ Judged(w)
      BY <1>1 DEF Answer, CInv, JudgedSoFar
    <2>2. ~Accepted(w) => FALSE \in truths[w]
      <3>1. CASE sid[w] \in found[w]
        BY <3>1, <2>1, <1>1 DEF Accepted, CInv, Seen, RightAnswer
      <3>2. CASE sid[w] \notin found[w]
        BY <3>2, <2>1 DEF Judged
      <3> QED
        BY <3>1, <3>2
    <2>3. Accepted(w) \in BOOLEAN
      BY DEF Accepted
    <2> QED
      BY <2>1, <2>2, <2>3 DEF Judged
  <1>2. CInv /\ [Next]_vars => [\A w \in Workers : Answer(w) => Accepted(w) \in truths[w]]_vars
    BY <1>1
  <1> QED
    BY InitCInv, NextCInv, <1>2, PTL DEF Spec, ChecksAreHonest
-----------------------------------------------------------------------------
(* How long a marker lives.  A rotation saves the tokens first and extends  *)
(* the marker after; only in between may an entry outlive its marker.      *)
Rotating(w, s) == op[w] \in Rotations /\ sid[w] = s

OneRotation ==
  /\ \A w \in Workers : op[w] \in Rotations <=> pc[w] \in {"exists", "load", "store", "extend"}
  /\ \A s \in Sessions \ mixed : \A v, w \in Workers : Rotating(v, s) /\ Rotating(w, s) => v = w

\* A login has made a marker for its tokens before it lists them.
MarkedForTerm ==
  /\ clock <= MaxTime
  /\ \A w \in Workers : pc[w] = "mark" => End(copy[w]) <= clock + Later(AccessTTL, RefreshTTL)
  /\ \A w \in Workers : pc[w] = "list" => End(copy[w]) <= marker[sid[w]]

\* What a rotation has saved is what is listed when it extends the marker.
SavedIsListed ==
  \A w \in Workers : \A s \in Sessions \ mixed :
    pc[w] = "extend" /\ sid[w] = s /\ status[s] = "open" /\ marker[s] # Absent => index[s] = copy[w]

\* Unless a rotation of it is about to extend the marker.
Covered ==
  \A s \in Sessions \ mixed :
    status[s] = "open" /\ Exists(s) /\ (\A w \in Workers : Rotating(w, s) => pc[w] # "extend")
      => marker[s] + Lag >= End(index[s])

MInv == IInv /\ OneRotation /\ MarkedForTerm /\ SavedIsListed /\ Covered

(* Expire leaves other keys alone, and a key that is there then lasts until *)
(* the given time at least, in Redis but for a second: a memory cache takes *)
(* a time that is over for no expiry.                                       *)
LEMMA ExpireOnly ==
  ASSUME marker \in [Sessions -> Int], NEW s \in Sessions, NEW until, Expire(s, until)
  PROVE  \A t \in Sessions \ {s} : marker'[t] = marker[t]
  BY DEF Expire

LEMMA ExpireCovers ==
  ASSUME marker \in [Sessions -> Int], clock \in Int, clock <= MaxTime, clock' = clock,
         NEW s \in Sessions, NEW until \in Int, Expire(s, until)
  PROVE  marker'[s] # Absent /\ clock <= marker'[s] => marker'[s] + Lag >= until
  <1>1. CASE store = "memory"
    BY <1>1, Terms DEF Expire, Absent, Forever, Lag
  <1>2. CASE store = "redis"
    <2>1. PICK late \in {0, 1} :
            marker' = IF ~Exists(s) THEN marker
                      ELSE [marker EXCEPT ![s] = IF until <= clock THEN Absent
                                                 ELSE clock + WholeSeconds(until - clock - late)]
      BY <1>2 DEF Expire
    <2>2. PICK got \in Int : got = WholeSeconds(until - clock - late) /\ got > until - clock - late - Second
      BY WholeSecondsTerm
    <2>3. Second \in Int
      BY Terms
    <2>4. CASE ~Exists(s)
      BY <2>1, <2>4 DEF Exists
    <2>5. CASE Exists(s) /\ until > clock
      BY <1>2, <2>1, <2>2, <2>3, <2>5 DEF Lag
    <2>6. CASE Exists(s) /\ until <= clock
      BY <2>1, <2>6
    <2> QED BY <2>4, <2>5, <2>6
  <1> QED BY <1>1, <1>2 DEF Expire

(* Rotations of a session that have not overlapped are one.                *)
LEMMA KeepsOneRotation ==
  ASSUME IInv, OneRotation, Begin \/ Continue
  PROVE  OneRotation'
  <1> USE NoneIsFresh DEF Goto, shared, worker, ghosts, IInv, Typed, Labels, Operations, Rotations,
          OneRotation, Rotating
  <1>1. ASSUME NEW w \in Workers, RemoveToken(w)
        PROVE  OneRotation'
    BY <1>1 DEF RemoveToken, Call
  <1>2. ASSUME NEW w \in Workers, NEW s \in Sessions, Login(w, s)
        PROVE  OneRotation'
    BY <1>2 DEF Login, Call
  <1>3. ASSUME NEW w \in Workers, NEW s \in Sessions, Logout(w, s)
        PROVE  OneRotation'
    BY <1>3 DEF Logout, Call
  <1>4. ASSUME NEW w \in Workers, NEW s \in Sessions, NEW what \in Rotations, Rotate(w, what, s)
        PROVE  OneRotation'
    BY <1>4 DEF Rotate, Call
  <1>5. ASSUME NEW w \in Workers, NEW s \in Sessions, NEW kind \in {"access", "refresh"},
             NEW issued \in 0..MaxTime, IsTokenValid(w, s, kind, issued)
        PROVE  OneRotation'
    BY <1>5 DEF IsTokenValid, Call
  <1>6. ASSUME NEW w \in Workers, Mark(w)
        PROVE  OneRotation'
    BY <1>6 DEF Mark, Set
  <1>7. ASSUME NEW w \in Workers, List(w)
        PROVE  OneRotation'
    BY <1>7 DEF List, HSet, Return
  <1>8. ASSUME NEW w \in Workers, Look(w)
        PROVE  OneRotation'
    BY <1>8 DEF Look, Swept, Return
  <1>9. ASSUME NEW w \in Workers, Load(w)
        PROVE  OneRotation'
    BY <1>9 DEF Load, Return
  <1>10. ASSUME NEW w \in Workers, Store(w)
        PROVE  OneRotation'
    BY <1>10 DEF Store, HSet
  <1>11. ASSUME NEW w \in Workers, Extend(w)
        PROVE  OneRotation'
    BY <1>11 DEF Extend, Return
  <1>12. ASSUME NEW w \in Workers, Unmark(w)
        PROVE  OneRotation'
    BY <1>12 DEF Unmark, Del
  <1>13. ASSUME NEW w \in Workers, Unlist(w)
        PROVE  OneRotation'
    BY <1>13 DEF Unlist, HDel, Return
  <1>14. ASSUME NEW w \in Workers, Snapshot(w)
        PROVE  OneRotation'
    BY <1>14 DEF Snapshot
  <1>15. ASSUME NEW w \in Workers, Answer(w)
        PROVE  OneRotation'
    BY <1>15 DEF Answer, Return
  <1>16. ASSUME NEW w \in Workers, Sifted(w)
        PROVE  OneRotation'
    BY <1>16 DEF Sifted
  <1>17. ASSUME NEW w \in Workers, RemovedAll(w)
        PROVE  OneRotation'
    BY <1>17 DEF RemovedAll, Return
  <1>18. ASSUME NEW w \in Workers, Fail(w)
        PROVE  OneRotation'
    BY <1>18 DEF Fail, Return
  <1>19. ASSUME NEW w \in Workers, NEW s \in Sessions, Sift(w, s)
        PROVE  OneRotation'
    BY <1>19 DEF Sift, Swept
  <1>20. ASSUME NEW w \in Workers, NEW s \in Sessions, NextOne(w, s)
        PROVE  OneRotation'
    BY <1>20 DEF NextOne
  <1>21. ASSUME Tick
        PROVE  OneRotation'
    BY <1>21 DEF Tick
  <1>22. Begin \/ Continue
    OBVIOUS
  <1> QED
    BY ONLY <1>1, <1>2, <1>3, <1>4, <1>5, <1>6, <1>7, <1>8, <1>9, <1>10, <1>11, <1>12, <1>13,
       <1>14, <1>15, <1>16, <1>17, <1>18, <1>19, <1>20, <1>21, <1>22 DEF Begin, Continue

(* Only a login makes a marker, and nobody else works on its session.      *)
LEMMA KeepsMarkedForTerm ==
  ASSUME IInv, MarkedForTerm, Begin \/ Continue
  PROVE  MarkedForTerm'
  <1> USE Terms, NoneIsFresh DEF Goto, shared, worker, ghosts, IInv, Typed, Labels, Operations, Rotations,
          OpeningAlone, WorkingOnStarted, Opening, Working, Started, MarkedForTerm
  <1>1. ASSUME NEW w \in Workers, RemoveToken(w)
        PROVE  MarkedForTerm'
    BY <1>1 DEF RemoveToken, Call
  <1>2. ASSUME NEW w \in Workers, NEW s \in Sessions, Login(w, s)
        PROVE  MarkedForTerm'
    <2>1. End(copy'[w]) <= clock + Later(AccessTTL, RefreshTTL)
      BY ONLY <1>2, Terms, clock \in Int, copy \in [Workers -> Token \cup Question \cup {None}]
      DEF Login, Call, End, Later, Token
    <2> QED BY <1>2, <2>1 DEF Login, Call
  <1>3. ASSUME NEW w \in Workers, NEW s \in Sessions, Logout(w, s)
        PROVE  MarkedForTerm'
    BY <1>3 DEF Logout, Call
  <1>4. ASSUME NEW w \in Workers, NEW s \in Sessions, NEW what \in Rotations, Rotate(w, what, s)
        PROVE  MarkedForTerm'
    BY <1>4 DEF Rotate, Call
  <1>5. ASSUME NEW w \in Workers, NEW s \in Sessions, NEW kind \in {"access", "refresh"},
             NEW issued \in 0..MaxTime, IsTokenValid(w, s, kind, issued)
        PROVE  MarkedForTerm'
    BY <1>5 DEF IsTokenValid, Call
  <1>6. ASSUME NEW w \in Workers, Mark(w)
        PROVE  MarkedForTerm'
    BY <1>6 DEF Mark, Set
  <1>7. ASSUME NEW w \in Workers, List(w)
        PROVE  MarkedForTerm'
    BY <1>7 DEF List, HSet, Return
  <1>8. ASSUME NEW w \in Workers, Look(w)
        PROVE  MarkedForTerm'
    BY <1>8 DEF Look, Swept, Return
  <1>9. ASSUME NEW w \in Workers, Load(w)
        PROVE  MarkedForTerm'
    BY <1>9 DEF Load, Return
  <1>10. ASSUME NEW w \in Workers, Store(w)
        PROVE  MarkedForTerm'
    BY <1>10 DEF Store, HSet
  <1>11. ASSUME NEW w \in Workers, Extend(w)
        PROVE  MarkedForTerm'
    <2>1. sid[w] \in Sessions /\ End(copy[w]) \in Int
      BY <1>11 DEF Extend, End, Later, Token
    <2>2. \A t \in Sessions \ {sid[w]} : marker'[t] = marker[t]
      BY <1>11, <2>1, ExpireOnly DEF Extend
    <2> QED BY <1>11, <2>1, <2>2 DEF Extend, Return
  <1>12. ASSUME NEW w \in Workers, Unmark(w)
        PROVE  MarkedForTerm'
    BY <1>12 DEF Unmark, Del
  <1>13. ASSUME NEW w \in Workers, Unlist(w)
        PROVE  MarkedForTerm'
    BY <1>13 DEF Unlist, HDel, Return
  <1>14. ASSUME NEW w \in Workers, Snapshot(w)
        PROVE  MarkedForTerm'
    BY <1>14 DEF Snapshot
  <1>15. ASSUME NEW w \in Workers, Answer(w)
        PROVE  MarkedForTerm'
    BY <1>15 DEF Answer, Return
  <1>16. ASSUME NEW w \in Workers, Sifted(w)
        PROVE  MarkedForTerm'
    BY <1>16 DEF Sifted
  <1>17. ASSUME NEW w \in Workers, RemovedAll(w)
        PROVE  MarkedForTerm'
    BY <1>17 DEF RemovedAll, Return
  <1>18. ASSUME NEW w \in Workers, Fail(w)
        PROVE  MarkedForTerm'
    BY <1>18 DEF Fail, Return
  <1>19. ASSUME NEW w \in Workers, NEW s \in Sessions, Sift(w, s)
        PROVE  MarkedForTerm'
    BY <1>19 DEF Sift, Swept
  <1>20. ASSUME NEW w \in Workers, NEW s \in Sessions, NextOne(w, s)
        PROVE  MarkedForTerm'
    BY <1>20 DEF NextOne
  <1>21. ASSUME Tick
        PROVE  MarkedForTerm'
    <2>1. \A w \in Workers : pc[w] = "mark" => End(copy[w]) \in Int
      BY DEF End, Later, Token
    <2>2. Later(AccessTTL, RefreshTTL) \in Int
      BY DEF Later
    <2> QED BY <1>21, <2>1, <2>2 DEF Tick
  <1>22. Begin \/ Continue
    OBVIOUS
  <1> QED
    BY ONLY <1>1, <1>2, <1>3, <1>4, <1>5, <1>6, <1>7, <1>8, <1>9, <1>10, <1>11, <1>12, <1>13,
       <1>14, <1>15, <1>16, <1>17, <1>18, <1>19, <1>20, <1>21, <1>22 DEF Begin, Continue

(* Only another rotation could save something else.                        *)
LEMMA KeepsSavedIsListed ==
  ASSUME IInv, OneRotation, SavedIsListed, Begin \/ Continue
  PROVE  SavedIsListed'
  <1> USE NoneIsFresh DEF Goto, shared, worker, ghosts, IInv, Typed, Labels, Operations, Rotations,
          OpeningAlone, WorkingOnStarted, RevokedIsUnmarked, Opening, Working, Started, OneRotation, Rotating, SavedIsListed
  <1>1. ASSUME NEW w \in Workers, RemoveToken(w)
        PROVE  SavedIsListed'
    BY <1>1 DEF RemoveToken, Call
  <1>2. ASSUME NEW w \in Workers, NEW s \in Sessions, Login(w, s)
        PROVE  SavedIsListed'
    BY <1>2 DEF Login, Call
  <1>3. ASSUME NEW w \in Workers, NEW s \in Sessions, Logout(w, s)
        PROVE  SavedIsListed'
    BY <1>3 DEF Logout, Call
  <1>4. ASSUME NEW w \in Workers, NEW s \in Sessions, NEW what \in Rotations, Rotate(w, what, s)
        PROVE  SavedIsListed'
    BY <1>4 DEF Rotate, Call
  <1>5. ASSUME NEW w \in Workers, NEW s \in Sessions, NEW kind \in {"access", "refresh"},
             NEW issued \in 0..MaxTime, IsTokenValid(w, s, kind, issued)
        PROVE  SavedIsListed'
    BY <1>5 DEF IsTokenValid, Call
  <1>6. ASSUME NEW w \in Workers, Mark(w)
        PROVE  SavedIsListed'
    BY <1>6 DEF Mark, Set
  <1>7. ASSUME NEW w \in Workers, List(w)
        PROVE  SavedIsListed'
    BY <1>7 DEF List, HSet, Return
  <1>8. ASSUME NEW w \in Workers, Look(w)
        PROVE  SavedIsListed'
    BY <1>8 DEF Look, Swept, Return
  <1>9. ASSUME NEW w \in Workers, Load(w)
        PROVE  SavedIsListed'
    BY <1>9 DEF Load, Return
  <1>10. ASSUME NEW w \in Workers, Store(w)
        PROVE  SavedIsListed'
    BY <1>10 DEF Store, HSet
  <1>11. ASSUME NEW w \in Workers, Extend(w)
        PROVE  SavedIsListed'
    <2>1. sid[w] \in Sessions /\ End(copy[w]) \in Int
      BY <1>11 DEF Extend, End, Later, Token
    <2>2. \A t \in Sessions \ {sid[w]} : marker'[t] = marker[t]
      BY <1>11, <2>1, ExpireOnly DEF Extend
    <2>3. marker[sid[w]] = Absent => marker'[sid[w]] = Absent
      BY <1>11, <2>1, ExpireKeepsAbsent DEF Extend
    <2> QED BY <1>11, <2>1, <2>2, <2>3 DEF Extend, Return
  <1>12. ASSUME NEW w \in Workers, Unmark(w)
        PROVE  SavedIsListed'
    BY <1>12 DEF Unmark, Del
  <1>13. ASSUME NEW w \in Workers, Unlist(w)
        PROVE  SavedIsListed'
    BY <1>13 DEF Unlist, HDel, Return
  <1>14. ASSUME NEW w \in Workers, Snapshot(w)
        PROVE  SavedIsListed'
    BY <1>14 DEF Snapshot
  <1>15. ASSUME NEW w \in Workers, Answer(w)
        PROVE  SavedIsListed'
    BY <1>15 DEF Answer, Return
  <1>16. ASSUME NEW w \in Workers, Sifted(w)
        PROVE  SavedIsListed'
    BY <1>16 DEF Sifted
  <1>17. ASSUME NEW w \in Workers, RemovedAll(w)
        PROVE  SavedIsListed'
    BY <1>17 DEF RemovedAll, Return
  <1>18. ASSUME NEW w \in Workers, Fail(w)
        PROVE  SavedIsListed'
    BY <1>18 DEF Fail, Return
  <1>19. ASSUME NEW w \in Workers, NEW s \in Sessions, Sift(w, s)
        PROVE  SavedIsListed'
    BY <1>19 DEF Sift, Swept
  <1>20. ASSUME NEW w \in Workers, NEW s \in Sessions, NextOne(w, s)
        PROVE  SavedIsListed'
    BY <1>20 DEF NextOne
  <1>21. ASSUME Tick
        PROVE  SavedIsListed'
    BY <1>21 DEF Tick
  <1>22. Begin \/ Continue
    OBVIOUS
  <1> QED
    BY ONLY <1>1, <1>2, <1>3, <1>4, <1>5, <1>6, <1>7, <1>8, <1>9, <1>10, <1>11, <1>12, <1>13,
       <1>14, <1>15, <1>16, <1>17, <1>18, <1>19, <1>20, <1>21, <1>22 DEF Begin, Continue

(* A rotation that extends the marker gives it the term of what is listed. *)
LEMMA KeepsCovered ==
  ASSUME IInv, OneRotation, MarkedForTerm, SavedIsListed, Covered, Begin \/ Continue
  PROVE  Covered'
  <1> USE NoneIsFresh DEF Goto, shared, worker, ghosts, IInv, Typed, Labels, Operations, Rotations,
          OpeningAlone, WorkingOnStarted, RevokedIsUnmarked, MarkedIsListed, Opening, Working, Started, OneRotation,
          Rotating, SavedIsListed, MarkedForTerm, Covered, Exists
  <1>0. Lag' = Lag /\ Lag \in Nat
    <2>1. store' = store
      BY DEF Begin, Continue, RemoveToken, Call, Login, Logout, Rotate, IsTokenValid, Mark, List, Look, Load,
             Store, Extend, Unmark, Unlist, Snapshot, Answer, Sifted, RemovedAll, Fail, Sift, NextOne, Tick
    <2> QED BY <2>1, Terms DEF Lag
  <1> USE <1>0
  <1>1. ASSUME NEW w \in Workers, RemoveToken(w)
        PROVE  Covered'
    BY <1>1 DEF RemoveToken, Call
  <1>2. ASSUME NEW w \in Workers, NEW s \in Sessions, Login(w, s)
        PROVE  Covered'
    BY <1>2 DEF Login, Call
  <1>3. ASSUME NEW w \in Workers, NEW s \in Sessions, Logout(w, s)
        PROVE  Covered'
    BY <1>3 DEF Logout, Call
  <1>4. ASSUME NEW w \in Workers, NEW s \in Sessions, NEW what \in Rotations, Rotate(w, what, s)
        PROVE  Covered'
    BY <1>4 DEF Rotate, Call
  <1>5. ASSUME NEW w \in Workers, NEW s \in Sessions, NEW kind \in {"access", "refresh"},
             NEW issued \in 0..MaxTime, IsTokenValid(w, s, kind, issued)
        PROVE  Covered'
    BY <1>5 DEF IsTokenValid, Call
  <1>6. ASSUME NEW w \in Workers, Mark(w)
        PROVE  Covered'
    BY <1>6 DEF Mark, Set
  <1>7. ASSUME NEW w \in Workers, List(w)
        PROVE  Covered'
    <2>1. sid[w] \in Sessions /\ End(copy[w]) \in Int
      BY <1>7 DEF List, End, Later, Token
    <2>2. End(copy[w]) <= marker[sid[w]]
      BY <1>7 DEF List
    <2>3. marker[sid[w]] + Lag >= End(copy[w])
      BY ONLY <1>0, <2>1, <2>2, marker \in [Sessions -> Int]
    <2>4. index' = [index EXCEPT ![sid[w]] = copy[w]] /\ marker' = marker
      BY <1>7 DEF List, HSet
    <2>5. marker'[sid[w]] + Lag >= End(index'[sid[w]])
      BY <2>1, <2>3, <2>4
    <2> QED BY <1>7, <2>1, <2>4, <2>5 DEF List, Return
  <1>8. ASSUME NEW w \in Workers, Look(w)
        PROVE  Covered'
    BY <1>8 DEF Look, Swept, Return
  <1>9. ASSUME NEW w \in Workers, Load(w)
        PROVE  Covered'
    BY <1>9 DEF Load, Return
  <1>10. ASSUME NEW w \in Workers, Store(w)
        PROVE  Covered'
    BY <1>10 DEF Store, HSet
  <1>11. ASSUME NEW w \in Workers, Extend(w)
        PROVE  Covered'
    <2>1. sid[w] \in Sessions /\ End(copy[w]) \in Int
      BY <1>11 DEF Extend, End, Later, Token
    <2>2. \A t \in Sessions \ {sid[w]} : marker'[t] = marker[t]
      BY <1>11, <2>1, ExpireOnly DEF Extend
    <2>3. marker'[sid[w]] # Absent /\ clock <= marker'[sid[w]] => marker'[sid[w]] + Lag >= End(copy[w])
      BY <1>11, <2>1, ExpireCovers DEF Extend
    <2>4. marker[sid[w]] = Absent => marker'[sid[w]] = Absent
      BY <1>11, <2>1, ExpireKeepsAbsent DEF Extend
    <2>5. ASSUME NEW s \in Sessions \ mixed, status[s] = "open", Exists(s)',
                 \A v \in Workers : Rotating(v, s)' => pc'[v] # "extend"
          PROVE  marker'[s] + Lag >= End(index[s])
      <3>1. CASE s = sid[w]
        <4>1. marker[s] # Absent
          BY <1>11, <2>4, <2>5, <3>1 DEF Extend
        <4>2. index[s] = copy[w]
          BY <1>11, <2>5, <3>1, <4>1 DEF Extend
        <4> QED BY <1>11, <2>3, <2>5, <3>1, <4>2 DEF Extend
      <3>2. CASE s # sid[w]
        <4>1. \A v \in Workers : Rotating(v, s) => pc[v] # "extend"
          BY <1>11, <2>5, <3>2 DEF Extend, Return
        <4>2. Exists(s) /\ marker'[s] = marker[s]
          BY <1>11, <2>2, <2>5, <3>2 DEF Extend
        <4> QED BY <2>5, <4>1, <4>2
      <3> QED BY <3>1, <3>2
    <2> QED BY <1>11, <2>5 DEF Extend
  <1>12. ASSUME NEW w \in Workers, Unmark(w)
        PROVE  Covered'
    BY <1>12 DEF Unmark, Del
  <1>13. ASSUME NEW w \in Workers, Unlist(w)
        PROVE  Covered'
    BY <1>13 DEF Unlist, HDel, Return
  <1>14. ASSUME NEW w \in Workers, Snapshot(w)
        PROVE  Covered'
    BY <1>14 DEF Snapshot
  <1>15. ASSUME NEW w \in Workers, Answer(w)
        PROVE  Covered'
    BY <1>15 DEF Answer, Return
  <1>16. ASSUME NEW w \in Workers, Sifted(w)
        PROVE  Covered'
    BY <1>16 DEF Sifted
  <1>17. ASSUME NEW w \in Workers, RemovedAll(w)
        PROVE  Covered'
    BY <1>17 DEF RemovedAll, Return
  <1>18. ASSUME NEW w \in Workers, Fail(w)
        PROVE  Covered'
    BY <1>18 DEF Fail, Return
  <1>19. ASSUME NEW w \in Workers, NEW s \in Sessions, Sift(w, s)
        PROVE  Covered'
    BY <1>19 DEF Sift, Swept
  <1>20. ASSUME NEW w \in Workers, NEW s \in Sessions, NextOne(w, s)
        PROVE  Covered'
    BY <1>20 DEF NextOne
  <1>21. ASSUME Tick
        PROVE  Covered'
    BY <1>21 DEF Tick
  <1>22. Begin \/ Continue
    OBVIOUS
  <1> QED
    BY ONLY <1>1, <1>2, <1>3, <1>4, <1>5, <1>6, <1>7, <1>8, <1>9, <1>10, <1>11, <1>12, <1>13,
       <1>14, <1>15, <1>16, <1>17, <1>18, <1>19, <1>20, <1>21, <1>22 DEF Begin, Continue

LEMMA InitMInv == Init => MInv
  BY InitIInv, NoneIsFresh, Terms
  DEF Init, MInv, OneRotation, MarkedForTerm, SavedIsListed, Covered, Rotating, Rotations, Operations, Exists

LEMMA NextMInv == MInv /\ [Next]_vars => MInv'
  <1> SUFFICES ASSUME MInv, [Next]_vars
               PROVE  MInv'
    OBVIOUS
  <1>1. IInv'
    BY NextIInv DEF MInv
  <1>2. CASE Next
    BY <1>1, <1>2, KeepsOneRotation, KeepsMarkedForTerm, KeepsSavedIsListed, KeepsCovered
       DEF MInv, Next
  <1>3. CASE UNCHANGED vars
    BY <1>1, <1>3
       DEF MInv, vars, shared, worker, ghosts, OneRotation, MarkedForTerm, SavedIsListed, Covered,
       Rotating, Exists, Lag
  <1> QED
    BY <1>2, <1>3

(* The tokens of a session that no rotation is working on, two of which    *)
(* never overlapped and none of which failed half-way, do not outlive its  *)
(* marker in the memory cache, and in Redis by a second at most.           *)
THEOREM TokensAreCovered == Spec => []MarkerCoversTokens
  <1>1. MInv => MarkerCoversTokens
    BY DEF MInv, Covered, MarkerCoversTokens, Rotating
  <1> QED
    BY <1>1, InitMInv, NextMInv, PTL DEF Spec
=============================================================================
