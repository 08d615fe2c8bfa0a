--------------------------- MODULE DeliveryProofs ---------------------------
(***************************************************************************)
(* Proofs about Delivery, for any set of tickets, deliverables, pull       *)
(* requests, agents and observers and any bounds.                          *)
(***************************************************************************)
EXTENDS Delivery, TLAPS

-----------------------------------------------------------------------------
(* The inductive invariant.                                                *)

\* What is certified of a pull request can be read off the forge.
Shown(forge, ev, p) ==
    /\ ev.head <= forge[p].head
    /\ ev.merged => forge[p].merged /\ forge[p].head = ev.head

\* A binding belongs to a generation that exists, for one of its keys, and
\* its evidence was shown by the forge.
RowsOK ==
    \A i \in BindIds : rows[i].t # None =>
        /\ rows[i].pr \in PRs
        /\ rows[i].rev \in 1 .. wf[rows[i].t].rev
        /\ rows[i].key \in contracts[rows[i].t][rows[i].rev].keys
        /\ Shown(prs, rows[i].ev, rows[i].pr)

\* A job is about the ticket its subject belongs to; while its row version
\* is the current one its evidence is no older than the row's; and when a
\* refresh came after it was captured it knows that the due time changed.
JobOK(j) ==
    /\ wf[j.t].rev > 0
    /\ j.sub \in Tickets => j.t = j.sub
    /\ j.sub \in BindIds => rows[j.sub].t = j.t
    /\ j.sub \in BindIds /\ j.got = "ok" =>
          /\ Shown(prs, j.ev, rows[j.sub].pr)
          /\ j.same => /\ rows[j.sub].ev.head <= j.ev.head
                       /\ rows[j.sub].ev.merged => j.ev.merged
    /\ asked[j.sub] => ~j.sameDue

JobsOK == \A o \in Observers : \A j \in obs[o].jobs : JobOK(j)

\* The epoch of a claim never comes back: while it is current, so are the
\* generation it was given for and the contract.
TokenOK(tok, w) ==
    /\ w.rev > 0 /\ tok.epoch <= w.epoch
    /\ tok.epoch = w.epoch => w.rev = tok.rev /\ w.att = tok.att /\ w.disp = "active"

TokensOK == \A a \in Agents : token[a] # None => TokenOK(token[a], wf[token[a].t])

\* A receipt is about a revision that exists, and acceptance comes after
\* integration, for the same delivery.
ReceiptsOK ==
    \A r \in receipts :
        /\ r.rev \in 1 .. wf[r.t].rev
        /\ [r EXCEPT !.ms = "integration"] \in receipts

RevsOK == \A t \in Tickets : /\ wf[t].rev <= MaxRev
                             /\ wf[t].rev = 0 => wf[t].disp = "active"

IInv ==
    /\ TypeOK /\ RevsOK /\ RowsOK /\ JobsOK /\ TokensOK
    /\ ReceiptsOK /\ ReceiptsAreTrue /\ ReceiptsFollowDependencies
    /\ DispositionAgrees /\ FulfilledIsProven /\ RefreshStaysQueued
-----------------------------------------------------------------------------
(* Rows and jobs, updated.                                                 *)

\* The fields of a workflow row the proofs compare.
LEMMA WorkflowType ==
    ASSUME NEW w \in Workflow
    PROVE  w.rev \in Nat /\ w.att \in Nat /\ w.epoch \in Nat /\ w.disp \in Dispositions
BY DEF Workflow

\* Dropping a claim moves the epoch on and nothing else.
LEMMA NoClaimFacts ==
    ASSUME NEW w \in Workflow
    PROVE  /\ NoClaim(w) \in Workflow
           /\ NoClaim(w).rev = w.rev /\ NoClaim(w).att = w.att /\ NoClaim(w).disp = w.disp
           /\ NoClaim(w).epoch = w.epoch + 1 /\ NoClaim(w).ctxDue = w.ctxDue
<1>1. ASSUME NEW e \in Nat
      PROVE  [w EXCEPT !.owner = None, !.live = FALSE, !.epoch = e] \in Workflow
  BY DEF Workflow
<1>2. w.epoch + 1 \in Nat /\ NoClaim(w) = [w EXCEPT !.owner = None, !.live = FALSE, !.epoch = w.epoch + 1]
  BY WorkflowType DEF NoClaim
<1>3. NoClaim(w) \in Workflow
  BY <1>1, <1>2
<1>4. /\ NoClaim(w).rev = w.rev /\ NoClaim(w).att = w.att /\ NoClaim(w).disp = w.disp
      /\ NoClaim(w).epoch = w.epoch + 1 /\ NoClaim(w).ctxDue = w.ctxDue
  BY DEF NoClaim, Workflow
<1> QED BY <1>3, <1>4

\* Dropping the context queues it again and changes nothing else.
LEMMA NoContextFacts ==
    ASSUME NEW w \in Workflow
    PROVE  /\ NoContext(w) \in Workflow
           /\ NoContext(w).rev = w.rev /\ NoContext(w).att = w.att /\ NoContext(w).disp = w.disp
           /\ NoContext(w).epoch = w.epoch /\ NoContext(w).ctxDue = TRUE
BY DEF NoContext, Workflow

\* Every update of a workflow row keeps its shape.
LEMMA WorkflowUpdates ==
    ASSUME NEW w \in Workflow
    PROVE  /\ [w EXCEPT !.rev = @ + 1] \in Workflow
           /\ [w EXCEPT !.att = @ + 1] \in Workflow
           /\ \A d \in Dispositions : [w EXCEPT !.disp = d] \in Workflow
           /\ [w EXCEPT !.ctxDue = TRUE] \in Workflow
           /\ [w EXCEPT !.ctxFresh = FALSE] \in Workflow
           /\ [w EXCEPT !.live = FALSE] \in Workflow
           /\ \A b \in BOOLEAN : /\ [w EXCEPT !.ctxOk = TRUE, !.ctxErr = FALSE, !.ctxFresh = TRUE,
                                              !.ctxDue = b] \in Workflow
                                 /\ [w EXCEPT !.ctxErr = TRUE, !.ctxDue = b] \in Workflow
           /\ \A a \in Agents : [w EXCEPT !.owner = a, !.live = TRUE, !.epoch = @ + 1] \in Workflow
           /\ [w EXCEPT !.owner = None, !.live = FALSE] \in Workflow
<1>1. [w EXCEPT !.rev = @ + 1] \in Workflow /\ [w EXCEPT !.att = @ + 1] \in Workflow
  BY DEF Workflow
<1>2. \A d \in Dispositions : [w EXCEPT !.disp = d] \in Workflow
  BY DEF Workflow
<1>3. [w EXCEPT !.ctxDue = TRUE] \in Workflow
  BY DEF Workflow
<1>4. [w EXCEPT !.ctxFresh = FALSE] \in Workflow
  BY DEF Workflow
<1>5. [w EXCEPT !.live = FALSE] \in Workflow
  BY DEF Workflow
<1>6. ASSUME NEW b \in BOOLEAN
      PROVE  [w EXCEPT !.ctxOk = TRUE, !.ctxErr = FALSE, !.ctxFresh = TRUE, !.ctxDue = b] \in Workflow
  BY DEF Workflow
<1>7. ASSUME NEW b \in BOOLEAN PROVE [w EXCEPT !.ctxErr = TRUE, !.ctxDue = b] \in Workflow
  BY DEF Workflow
<1>8. ASSUME NEW a \in Agents PROVE [w EXCEPT !.owner = a, !.live = TRUE, !.epoch = @ + 1] \in Workflow
  <2>1. ASSUME NEW e \in Nat PROVE [w EXCEPT !.owner = a, !.live = TRUE, !.epoch = e] \in Workflow
    BY DEF Workflow
  <2>2. w.epoch + 1 \in Nat
    BY WorkflowType
  <2> QED BY <2>1, <2>2
<1>9. [w EXCEPT !.owner = None, !.live = FALSE] \in Workflow
  BY DEF Workflow
<1> QED BY <1>1, <1>2, <1>3, <1>4, <1>5, <1>6, <1>7, <1>8, <1>9

\* A new revision: a later one bumps the epoch.
LEMMA AmendedFacts ==
    ASSUME NEW w \in Workflow
    PROVE  /\ Amended(w) \in Workflow /\ Amended(w).rev = w.rev + 1 /\ Amended(w).ctxDue = TRUE
           /\ w.rev = 0 => Amended(w).disp = "active"
           /\ w.rev # 0 => /\ Amended(w).disp = w.disp /\ Amended(w).epoch = w.epoch + 1
<1>1. CASE w.rev = 0
  <2> DEFINE v == [NoWorkflow EXCEPT !.rev = 1, !.att = 1, !.ctxDue = TRUE]
  <2>1. v \in Workflow /\ v.rev = 1 /\ v.ctxDue = TRUE /\ v.disp = "active"
    BY DEF NoWorkflow, Workflow, Dispositions
  <2>2. Amended(w) = v
    BY <1>1 DEF Amended
  <2> HIDE DEF v
  <2> QED BY <1>1, <2>1, <2>2
<1>2. CASE w.rev # 0
  <2> DEFINE v == [w EXCEPT !.rev = @ + 1]
  <2>1. v \in Workflow /\ v.rev = w.rev + 1 /\ v.disp = w.disp /\ v.epoch = w.epoch
    BY WorkflowUpdates DEF Workflow
  <2>2. Amended(w) = NoContext(NoClaim(v))
    BY <1>2 DEF Amended
  <2> HIDE DEF v
  <2>3. /\ NoClaim(v) \in Workflow /\ NoClaim(v).rev = w.rev + 1 /\ NoClaim(v).disp = w.disp
        /\ NoClaim(v).epoch = w.epoch + 1
    BY <2>1, NoClaimFacts
  <2>4. /\ Amended(w) \in Workflow /\ Amended(w).rev = w.rev + 1 /\ Amended(w).ctxDue = TRUE
        /\ Amended(w).disp = w.disp /\ Amended(w).epoch = w.epoch + 1
    BY <2>2, <2>3, NoContextFacts
  <2> QED BY <1>2, <2>4
<1> QED BY <1>1, <1>2

\* A ticket transition: leaving "active" and reopening bump the epoch.
LEMMA MutatedFacts ==
    ASSUME NEW w \in Workflow, NEW d \in Dispositions, NEW reopen \in BOOLEAN
    PROVE  /\ Mutated(w, d, reopen) \in Workflow
           /\ Mutated(w, d, reopen).rev = w.rev /\ Mutated(w, d, reopen).disp = d
           /\ ~reopen => /\ Mutated(w, d, reopen).att = w.att
                         /\ Mutated(w, d, reopen).ctxDue = w.ctxDue
           /\ reopen => Mutated(w, d, reopen).ctxDue = TRUE
           /\ IF reopen \/ d # "active"
              THEN Mutated(w, d, reopen).epoch = w.epoch + 1
              ELSE Mutated(w, d, reopen).epoch = w.epoch
<1> DEFINE w1 == [w EXCEPT !.disp = d]
           w2 == IF reopen \/ d # "active" THEN NoClaim(w1) ELSE w1
           w3 == [w2 EXCEPT !.att = @ + 1]
<1>1. /\ w1 \in Workflow /\ w1.rev = w.rev /\ w1.disp = d /\ w1.att = w.att
      /\ w1.epoch = w.epoch /\ w1.ctxDue = w.ctxDue
  BY WorkflowUpdates DEF Workflow
<1>2. Mutated(w, d, reopen) = IF reopen THEN NoContext(w3) ELSE w2
  BY DEF Mutated
<1> HIDE DEF w1
<1>3. /\ w2 \in Workflow /\ w2.rev = w.rev /\ w2.disp = d /\ w2.att = w.att /\ w2.ctxDue = w.ctxDue
      /\ w2.epoch = IF reopen \/ d # "active" THEN w.epoch + 1 ELSE w.epoch
  BY <1>1, NoClaimFacts
<1> HIDE DEF w2
<1>4. w3 \in Workflow /\ w3.rev = w.rev /\ w3.disp = d /\ w3.epoch = w2.epoch
  BY <1>3, WorkflowUpdates DEF Workflow
<1> HIDE DEF w3
<1> QED BY <1>2, <1>3, <1>4, NoContextFacts

\* Every update of a binding row keeps its shape.
LEMMA BindingUpdates ==
    ASSUME NEW b \in Binding
    PROVE  /\ [b EXCEPT !.active = FALSE] \in Binding
           /\ [b EXCEPT !.due = TRUE] \in Binding
           /\ [b EXCEPT !.fresh = FALSE] \in Binding
           /\ \A ev \in Evidence, due \in BOOLEAN :
                 [b EXCEPT !.ev = ev, !.err = FALSE, !.fresh = TRUE, !.due = due] \in Binding
           /\ \A due \in BOOLEAN : [b EXCEPT !.err = TRUE, !.due = due] \in Binding
BY DEF Binding

\* A new binding has the shape of a row.
LEMMA BoundFacts ==
    ASSUME NEW b \in Binding, NEW t \in Tickets, NEW r \in Nat, NEW n \in Nat, NEW k \in Keys, NEW p \in PRs
    PROVE  [b EXCEPT !.t = t, !.rev = r, !.att = n, !.key = k, !.pr = p,
                     !.active = TRUE, !.due = TRUE] \in Binding
BY DEF Binding

\* Row versions and due times that moved on: the jobs are the same ones, and
\* know it.
Marked(j, S, D) == [j EXCEPT !.same = j.same /\ j.sub \notin S, !.sameDue = j.sameDue /\ j.sub \notin D]

\* A job that was overtaken differs in knowing it only.
LEMMA MarkedFacts ==
    ASSUME NEW j \in Job, NEW S, NEW D
    PROVE  /\ Marked(j, S, D) \in Job
           /\ Marked(j, S, D).sub = j.sub /\ Marked(j, S, D).t = j.t
           /\ Marked(j, S, D).got = j.got /\ Marked(j, S, D).ev = j.ev
           /\ Marked(j, S, D).same = (j.same /\ j.sub \notin S)
           /\ Marked(j, S, D).sameDue = (j.sameDue /\ j.sub \notin D)
<1>1. (j.same /\ j.sub \notin S) \in BOOLEAN /\ (j.sameDue /\ j.sub \notin D) \in BOOLEAN
  OBVIOUS
<1> QED BY <1>1 DEF Marked, Job

\* Overtaking jobs changes neither an observer's state nor its connection.
LEMMA MovedFacts ==
    ASSUME obs \in [Observers -> Observer], NEW S, NEW D
    PROVE  /\ Moved(S, D) \in [Observers -> Observer]
           /\ \A o \in Observers : /\ Moved(S, D)[o].st = obs[o].st
                                   /\ Moved(S, D)[o].conn = obs[o].conn
                                   /\ Moved(S, D)[o].jobs = {Marked(j, S, D) : j \in obs[o].jobs}
<1>1. \A o \in Observers : {Marked(j, S, D) : j \in obs[o].jobs} \in SUBSET Job
  BY MarkedFacts DEF Observer
<1>2. ASSUME NEW v \in Observer, NEW J \in SUBSET Job
      PROVE  /\ [v EXCEPT !.jobs = J] \in Observer
             /\ [v EXCEPT !.jobs = J].st = v.st
             /\ [v EXCEPT !.jobs = J].conn = v.conn
             /\ [v EXCEPT !.jobs = J].jobs = J
  BY DEF Observer
<1>3. Moved(S, D) = [o \in Observers |-> [obs[o] EXCEPT !.jobs = {Marked(j, S, D) : j \in obs[o].jobs}]]
  BY DEF Moved, Marked
<1>4. ASSUME NEW o \in Observers
      PROVE  /\ Moved(S, D)[o] \in Observer /\ Moved(S, D)[o].st = obs[o].st
             /\ Moved(S, D)[o].conn = obs[o].conn
             /\ Moved(S, D)[o].jobs = {Marked(j, S, D) : j \in obs[o].jobs}
  <2> DEFINE J == {Marked(j, S, D) : j \in obs[o].jobs}
  <2>1. J \in SUBSET Job /\ obs[o] \in Observer /\ Moved(S, D)[o] = [obs[o] EXCEPT !.jobs = J]
    BY <1>1, <1>3
  <2> HIDE DEF J
  <2>2. /\ Moved(S, D)[o] \in Observer /\ Moved(S, D)[o].st = obs[o].st
        /\ Moved(S, D)[o].conn = obs[o].conn /\ Moved(S, D)[o].jobs = J
    BY <1>2, <2>1
  <2> QED BY <2>2 DEF J
<1>5. Moved(S, D) \in [Observers -> Observer]
  <2>1. DOMAIN Moved(S, D) = Observers /\ Moved(S, D) = [o \in Observers |-> Moved(S, D)[o]]
    BY <1>3
  <2> QED BY <1>4, <2>1
<1> QED BY <1>4, <1>5
-----------------------------------------------------------------------------
(* What no step takes back: revisions, the terms of a revision, what a     *)
(* binding is for, and what the forge merged.                              *)

SameRow(i) == /\ rows'[i].t = rows[i].t /\ rows'[i].rev = rows[i].rev /\ rows'[i].att = rows[i].att
              /\ rows'[i].key = rows[i].key /\ rows'[i].pr = rows[i].pr

Evolves ==
    /\ \A t \in Tickets : wf[t].rev <= wf'[t].rev
    /\ \A t \in Tickets : \A r \in 1 .. wf[t].rev : contracts'[t][r] = contracts[t][r]
    /\ \A i \in BindIds : rows[i].t # None => SameRow(i)
    /\ \A p \in PRs : /\ prs[p].head <= prs'[p].head
                      /\ prs[p].merged => prs'[p].merged /\ prs'[p].head = prs[p].head

\* What the forge has shown of a pull request it goes on having shown.
LEMMA ShownKept ==
    ASSUME TypeOK, TypeOK', Evolves, NEW ev \in Evidence, NEW p \in PRs, Shown(prs, ev, p)
    PROVE  Shown(prs', ev, p)
<1>1. prs[p].head \in Nat /\ prs'[p].head \in Nat /\ ev.head \in Nat
  BY DEF TypeOK, Evidence
<1> QED BY <1>1 DEF Shown, Evolves

\* Bindings: those whose evidence stays, and new ones.
LEMMA RowsKept ==
    ASSUME TypeOK, TypeOK', RowsOK, Evolves,
           NEW i \in BindIds, rows[i].t # None, rows'[i].ev = rows[i].ev
    PROVE  /\ rows'[i].pr \in PRs
           /\ rows'[i].rev \in 1 .. wf'[rows'[i].t].rev
           /\ rows'[i].key \in contracts'[rows'[i].t][rows'[i].rev].keys
           /\ Shown(prs', rows'[i].ev, rows'[i].pr)
<1>1. /\ rows[i].pr \in PRs /\ rows[i].rev \in 1 .. wf[rows[i].t].rev
      /\ rows[i].key \in contracts[rows[i].t][rows[i].rev].keys
      /\ Shown(prs, rows[i].ev, rows[i].pr) /\ SameRow(i)
  BY DEF RowsOK, Evolves
<1>2. rows[i] \in Binding /\ rows[i].t \in Tickets /\ rows[i].ev \in Evidence
  BY DEF TypeOK, Binding
<1>3. wf[rows[i].t].rev \in Nat /\ wf'[rows[i].t].rev \in Nat /\ wf[rows[i].t].rev <= wf'[rows[i].t].rev
  BY <1>2, WorkflowType DEF TypeOK, Evolves
<1>4. rows[i].rev \in 1 .. wf'[rows[i].t].rev
  BY <1>1, <1>3
<1>5. contracts'[rows[i].t][rows[i].rev] = contracts[rows[i].t][rows[i].rev]
  BY <1>1, <1>2 DEF Evolves
<1>6. Shown(prs', rows[i].ev, rows[i].pr)
  BY <1>1, <1>2, ShownKept
<1> QED BY <1>1, <1>4, <1>5, <1>6 DEF SameRow

\* Jobs: one that was there, with what it now knows.
Continues(k, j) ==
    /\ k.sub = j.sub /\ k.t = j.t /\ k.got = j.got /\ k.ev = j.ev
    /\ k.same => j.same
    /\ k.sameDue => j.sameDue

\* A job in progress stays justified while the rows evolve, if it notices
\* when the row it will write has changed.
LEMMA JobKept ==
    ASSUME TypeOK, TypeOK', RowsOK, Evolves,
           NEW j \in Job, JobOK(j), NEW k \in Job, Continues(k, j),
           k.same /\ k.sub \in BindIds => rows'[k.sub].ev = rows[k.sub].ev,
           asked'[k.sub] => asked[k.sub] \/ ~k.sameDue
    PROVE  JobOK(k)'
<1>1. wf'[k.t].rev > 0 /\ (k.sub \in Tickets => k.t = k.sub)
  <2>1. k.t \in Tickets /\ wf[k.t].rev > 0 /\ (k.sub \in Tickets => k.t = k.sub)
    BY DEF JobOK, Continues, Job
  <2>2. wf[k.t].rev \in Nat /\ wf'[k.t].rev \in Nat /\ wf[k.t].rev <= wf'[k.t].rev
    BY <2>1, WorkflowType DEF TypeOK, Evolves
  <2> QED BY <2>1, <2>2
<1>2. ASSUME k.sub \in BindIds
      PROVE  /\ rows[k.sub].t = k.t /\ rows[k.sub].t # None /\ rows[k.sub].pr \in PRs
             /\ rows'[k.sub].t = k.t /\ rows'[k.sub].pr = rows[k.sub].pr
  <2>1. rows[k.sub].t = k.t /\ k.t \in Tickets
    BY <1>2 DEF JobOK, Continues, Job
  <2>2. rows[k.sub].t # None
    BY <2>1, DeliveryAssumption
  <2> QED BY <1>2, <2>1, <2>2 DEF RowsOK, Evolves, SameRow
<1>3. ASSUME k.sub \in BindIds, k.got = "ok"
      PROVE  /\ Shown(prs', k.ev, rows'[k.sub].pr)
             /\ k.same => /\ rows'[k.sub].ev.head <= k.ev.head
                          /\ rows'[k.sub].ev.merged => k.ev.merged
  <2>1. Shown(prs, k.ev, rows[k.sub].pr) /\ k.ev \in Evidence
    BY <1>3 DEF JobOK, Continues, Job
  <2>2. Shown(prs', k.ev, rows'[k.sub].pr)
    BY <1>2, <1>3, <2>1, ShownKept
  <2>3. k.same => /\ rows'[k.sub].ev.head <= k.ev.head
                  /\ rows'[k.sub].ev.merged => k.ev.merged
    BY <1>3 DEF JobOK, Continues
  <2> QED BY <2>2, <2>3
<1>4. asked'[k.sub] => ~k.sameDue
  BY DEF JobOK, Continues
<1> QED BY <1>1, <1>2, <1>3, <1>4 DEF JobOK

\* Claims: an epoch that stays current keeps its generation and its contract.
LEMMA TokensKept ==
    ASSUME TypeOK, TypeOK', TokensOK, token' = token,
           \A t \in Tickets : wf[t].rev > 0 =>
               /\ wf[t].rev <= wf'[t].rev /\ wf[t].epoch <= wf'[t].epoch
               /\ wf'[t].epoch = wf[t].epoch =>
                     /\ wf'[t].rev = wf[t].rev /\ wf'[t].att = wf[t].att
                     /\ wf[t].disp = "active" => wf'[t].disp = "active"
    PROVE  TokensOK'
<1> SUFFICES ASSUME NEW a \in Agents, token[a] # None
             PROVE  TokenOK(token[a], wf'[token[a].t])
  BY DEF TokensOK
<1>1. token[a] \in Token /\ token[a].t \in Tickets /\ token[a].epoch \in Nat
  BY DEF TypeOK, Token
<1>2. TokenOK(token[a], wf[token[a].t])
  BY DEF TokensOK
<1>3. /\ wf[token[a].t].rev \in Nat /\ wf[token[a].t].epoch \in Nat
      /\ wf'[token[a].t].rev \in Nat /\ wf'[token[a].t].epoch \in Nat
  BY <1>1, WorkflowType DEF TypeOK
<1> QED BY <1>1, <1>2, <1>3 DEF TokenOK
-----------------------------------------------------------------------------
(* Receipts.                                                               *)

\* What the invariants say of one receipt.
Certifies(r) ==
    /\ {rows[d.id].key : d \in r.digest} = contracts[r.t][r.rev].keys
    /\ \A d \in r.digest :
          /\ rows[d.id].t = r.t /\ rows[d.id].rev = r.rev /\ rows[d.id].att = r.att
          /\ prs[rows[d.id].pr].merged /\ prs[rows[d.id].pr].head = d.head
Preceded(r) ==
    \A d \in contracts[r.t][r.rev].deps :
        \E u \in receipts : u.t = d.t /\ u.rev = d.rev /\ u.att = d.att /\ u.ms = d.ms
Placed(r) ==
    /\ r.rev \in 1 .. wf[r.t].rev
    /\ [r EXCEPT !.ms = "integration"] \in receipts

ReceiptsInv == ReceiptsOK /\ ReceiptsAreTrue /\ ReceiptsFollowDependencies

\* The invariant of the ledger, receipt by receipt.
LEMMA ReceiptsOneByOne ==
    ReceiptsInv <=> \A r \in receipts : Certifies(r) /\ Preceded(r) /\ Placed(r)
BY DEF ReceiptsInv, ReceiptsOK, ReceiptsAreTrue, ReceiptsFollowDependencies,
       Certifies, Preceded, Placed

\* A receipt stays true: what it certifies was observed and cannot be undone.
LEMMA ReceiptKept ==
    ASSUME TypeOK, TypeOK', RowsOK, Evolves, ReceiptsInv, receipts \subseteq receipts',
           NEW r \in receipts
    PROVE  (Certifies(r) /\ Preceded(r) /\ Placed(r))'
<1>1. r \in Receipt /\ r.t \in Tickets /\ \A d \in r.digest : d.id \in BindIds
  BY DEF TypeOK, Receipt, Proof
<1>2. Certifies(r) /\ Preceded(r) /\ Placed(r)
  BY ReceiptsOneByOne
<1>3. contracts'[r.t][r.rev] = contracts[r.t][r.rev]
  BY <1>1, <1>2 DEF Placed, Evolves
<1>4. \A d \in r.digest : /\ rows[d.id].t # None /\ rows[d.id].pr \in PRs
                          /\ SameRow(d.id)
  <2>1. \A d \in r.digest : rows[d.id].t # None
    BY <1>1, <1>2, DeliveryAssumption DEF Certifies
  <2> QED BY <1>1, <2>1 DEF RowsOK, Evolves
<1>5. Certifies(r)'
  <2>1. {rows'[d.id].key : d \in r.digest} = {rows[d.id].key : d \in r.digest}
    BY <1>4 DEF SameRow
  <2>2. \A d \in r.digest :
          /\ rows'[d.id].t = r.t /\ rows'[d.id].rev = r.rev /\ rows'[d.id].att = r.att
          /\ prs'[rows'[d.id].pr].merged /\ prs'[rows'[d.id].pr].head = d.head
    BY <1>2, <1>4 DEF SameRow, Certifies, Evolves
  <2> QED BY <1>2, <1>3, <2>1, <2>2 DEF Certifies
<1>6. Preceded(r)'
  BY <1>2, <1>3 DEF Preceded
<1>7. Placed(r)'
  <2>1. wf[r.t].rev \in Nat /\ wf'[r.t].rev \in Nat /\ wf[r.t].rev <= wf'[r.t].rev
    BY <1>1, WorkflowType DEF TypeOK, Evolves
  <2> QED BY <1>2, <2>1 DEF Placed
<1> QED BY <1>5, <1>6, <1>7

\* The ledger stays true over a step that issues no receipt.
LEMMA ReceiptsKept ==
    ASSUME TypeOK, TypeOK', RowsOK, Evolves, ReceiptsInv, receipts' = receipts
    PROVE  ReceiptsInv'
<1>1. \A r \in receipts' : (Certifies(r) /\ Preceded(r) /\ Placed(r))'
  BY ReceiptKept
<1>2. ReceiptsInv' <=> \A r \in receipts' : (Certifies(r) /\ Preceded(r) /\ Placed(r))'
  BY ReceiptsOneByOne DEF ReceiptsInv, ReceiptsOK, ReceiptsAreTrue, ReceiptsFollowDependencies,
       Certifies, Preceded, Placed
<1> QED BY <1>1, <1>2

\* A delivery that satisfies its contract, as the transaction commits it, is
\* what its receipt certifies.
LEMMA NewReceipt ==
    ASSUME TypeOK', RevsOK', RowsOK', UNCHANGED contracts, receipts \subseteq receipts',
           NEW t \in Tickets, wf'[t].rev > 0, Satisfied(rows', wf', t),
           NEW ms \in Milestones, NEW r, r = ReceiptOf(rows', wf', t, ms)
    PROVE  /\ r \in Receipt /\ r.t = t /\ r.rev \in 1 .. wf'[t].rev
           /\ Certifies(r)' /\ Preceded(r)'
<1> DEFINE B == Bound(rows', wf', t)
<1>1. /\ r.t = t /\ r.rev = wf'[t].rev /\ r.att = wf'[t].att /\ r.ms = ms
      /\ r.digest = {[id |-> i, head |-> rows'[i].ev.head, merged |-> rows'[i].ev.merged] : i \in B}
  BY DEF ReceiptOf, Digest
<1>2. wf'[t] \in Workflow /\ wf'[t].rev \in Nat /\ wf'[t].att \in Nat /\ wf'[t].rev \in 1 .. wf'[t].rev
  BY WorkflowType DEF TypeOK
<1>3. ASSUME NEW i \in B
      PROVE  /\ i \in BindIds /\ rows'[i].t = t /\ rows'[i].rev = wf'[t].rev
             /\ rows'[i].att = wf'[t].att /\ rows'[i].ev \in Evidence
             /\ rows'[i].ev.merged
             /\ rows'[i].key \in contracts'[t][wf'[t].rev].keys
             /\ prs'[rows'[i].pr].merged /\ prs'[rows'[i].pr].head = rows'[i].ev.head
  <2>1. i \in BindIds /\ rows'[i].t = t /\ rows'[i].rev = wf'[t].rev /\ rows'[i].att = wf'[t].att
    BY DEF Bound
  <2>2. rows'[i].t # None /\ rows'[i].ev \in Evidence
    BY <2>1, DeliveryAssumption DEF TypeOK, Binding
  <2>3. rows'[i].ev.merged
    BY DEF Satisfied, AllMerged
  <2>4. rows'[i].key \in contracts'[t][wf'[t].rev].keys /\ Shown(prs', rows'[i].ev, rows'[i].pr)
    BY <2>1, <2>2 DEF RowsOK
  <2> QED BY <2>1, <2>2, <2>3, <2>4 DEF Shown
<1>4. r.digest \subseteq Proof
  <2>1. \A i \in B : i \in BindIds /\ rows'[i].ev.head \in Nat /\ rows'[i].ev.merged \in BOOLEAN
    BY <1>3 DEF Evidence
  <2> QED BY <1>1, <2>1 DEF Proof
<1>5. r \in Receipt
  <2>1. r = [t |-> t, rev |-> wf'[t].rev, att |-> wf'[t].att, ms |-> ms, digest |-> Digest(rows', wf', t)]
    BY DEF ReceiptOf
  <2>2. Digest(rows', wf', t) \subseteq Proof
    BY <1>4, <2>1
  <2> QED BY <1>2, <2>1, <2>2 DEF Receipt
<1>6. \A d \in r.digest : /\ d.id \in B /\ d.head = rows'[d.id].ev.head
  <2> HIDE DEF B
  <2> QED BY <1>1
<1>7. \A i \in B : \E d \in r.digest : d.id = i
  <2> HIDE DEF B
  <2> TAKE i \in B
  <2> DEFINE d == [id |-> i, head |-> rows'[i].ev.head, merged |-> rows'[i].ev.merged]
  <2>1. d \in r.digest /\ d.id = i
    BY <1>1
  <2> QED BY <2>1
<1>8. {rows'[d.id].key : d \in r.digest} = contracts'[t][wf'[t].rev].keys
  <2>1. \A k \in contracts[t][wf'[t].rev].keys : \E i \in B : rows'[i].key = k
    BY DEF Satisfied, Missing, Terms
  <2> HIDE DEF B
  <2>2. contracts'[t][wf'[t].rev].keys \subseteq {rows'[d.id].key : d \in r.digest}
    BY <1>7, <2>1
  <2>3. {rows'[d.id].key : d \in r.digest} \subseteq contracts'[t][wf'[t].rev].keys
    BY <1>3, <1>6
  <2> QED BY <2>2, <2>3
<1>9. Certifies(r)'
  <2> HIDE DEF B
  <2>1. \A d \in r.digest :
          /\ rows'[d.id].t = r.t /\ rows'[d.id].rev = r.rev /\ rows'[d.id].att = r.att
          /\ prs'[rows'[d.id].pr].merged /\ prs'[rows'[d.id].pr].head = d.head
    BY <1>1, <1>3, <1>6
  <2> QED BY <1>1, <1>8, <2>1 DEF Certifies
<1>10. Preceded(r)'
  <2>1. ASSUME NEW d \in contracts[t][wf'[t].rev].deps
        PROVE  \E u \in receipts : u.t = d.t /\ u.rev = d.rev /\ u.att = d.att /\ u.ms = d.ms
    <3>1. DependencyMet(rows', wf', d)
      BY DEF Satisfied, DependenciesMet, Terms
    <3>2. /\ ReceiptOf(rows', wf', d.t, d.ms) \in receipts
          /\ wf'[d.t].rev = d.rev /\ wf'[d.t].att = d.att
      BY <3>1 DEF DependencyMet, Has
    <3>3. /\ ReceiptOf(rows', wf', d.t, d.ms).t = d.t /\ ReceiptOf(rows', wf', d.t, d.ms).rev = d.rev
          /\ ReceiptOf(rows', wf', d.t, d.ms).att = d.att /\ ReceiptOf(rows', wf', d.t, d.ms).ms = d.ms
      BY <3>2 DEF ReceiptOf
    <3> QED BY <3>2, <3>3
  <2> QED BY <1>1, <2>1 DEF Preceded
<1> QED BY <1>1, <1>2, <1>5, <1>9, <1>10

\* The delivery that a receipt is about stays the same one.
SameDelivery(t) ==
    /\ wf'[t].rev = wf[t].rev /\ wf'[t].att = wf[t].att
    /\ \A i \in BindIds : rows[i].t = t \/ rows'[i].t = t =>
          SameRow(i) /\ rows'[i].active = rows[i].active /\ rows'[i].ev = rows[i].ev

\* The receipt of a delivery is a function of its rows.
LEMMA SameReceipt ==
    ASSUME NEW t \in Tickets, SameDelivery(t), NEW ms
    PROVE  ReceiptOf(rows', wf', t, ms) = ReceiptOf(rows, wf, t, ms)
<1>1. Bound(rows', wf', t) = Bound(rows, wf, t)
  BY DEF SameDelivery, SameRow, Bound
<1>2. \A i \in Bound(rows, wf, t) : rows'[i].ev = rows[i].ev
  BY DEF SameDelivery, Bound
<1>3. Digest(rows', wf', t) = Digest(rows, wf, t)
  BY <1>1, <1>2 DEF Digest
<1> QED BY <1>3 DEF ReceiptOf, SameDelivery

\* A fulfilled ticket stays proven while its delivery is left alone.
LEMMA FulfilledKept ==
    ASSUME FulfilledIsProven, receipts \subseteq receipts',
           \A t \in Tickets : wf'[t].disp = "fulfilled" =>
               /\ wf[t].disp = "fulfilled"
               /\ status[t] = "closed" => status'[t] = "closed" /\ SameDelivery(t)
    PROVE  FulfilledIsProven'
<1> SUFFICES ASSUME NEW t \in Tickets, wf'[t].disp = "fulfilled"
             PROVE  /\ status'[t] = "closed"
                    /\ ReceiptOf(rows', wf', t, "fulfilled") \in receipts'
                    /\ ReceiptOf(rows', wf', t, "integration") \in receipts'
  BY DEF FulfilledIsProven, Has
<1>1. /\ status[t] = "closed"
      /\ ReceiptOf(rows, wf, t, "fulfilled") \in receipts
      /\ ReceiptOf(rows, wf, t, "integration") \in receipts
  BY DEF FulfilledIsProven, Has
<1>2. status'[t] = "closed" /\ SameDelivery(t)
  BY <1>1
<1> QED BY <1>1, <1>2, SameReceipt

-----------------------------------------------------------------------------
(* Steps that leave contracts, receipts, tokens and dispositions alone.    *)

SameGenerations ==
    \A t \in Tickets : /\ wf'[t].rev = wf[t].rev /\ wf'[t].att = wf[t].att
                       /\ wf'[t].disp = wf[t].disp /\ wf[t].epoch <= wf'[t].epoch

\* Claim tokens stay fenced over a step that changes no generation.
LEMMA TokensRoutine ==
    ASSUME IInv, TypeOK', UNCHANGED token, SameGenerations
    PROVE  TokensOK'
<1>1. \A t \in Tickets : wf[t].rev \in Nat
  BY WorkflowType DEF IInv, TypeOK
<1> QED BY <1>1, TokensKept DEF IInv, SameGenerations

\* A step that issues nothing and changes no generation keeps the invariant,
\* if the rows, the jobs and the tokens stay sound.
LEMMA Routine ==
    ASSUME IInv, TypeOK', UNCHANGED <<status, contracts, receipts>>,
           SameGenerations, Evolves, RowsOK', JobsOK', TokensOK', RefreshStaysQueued',
           \A t \in Tickets : wf[t].disp = "fulfilled" /\ status[t] = "closed" => SameDelivery(t)
    PROVE  IInv'
<1>1. RevsOK' /\ DispositionAgrees'
  BY DEF IInv, RevsOK, DispositionAgrees, SameGenerations
<1>2. ReceiptsInv'
  BY ReceiptsKept DEF IInv, ReceiptsInv
<1>3. FulfilledIsProven'
  BY FulfilledKept DEF IInv, SameGenerations
<1> QED BY <1>1, <1>2, <1>3 DEF IInv, ReceiptsInv

\* What the forge merged stays.
ForgeEvolves ==
    \A p \in PRs : /\ prs[p].head <= prs'[p].head
                   /\ prs[p].merged => prs'[p].merged /\ prs'[p].head = prs[p].head

\* A forge that does not move has moved forward.
LEMMA ForgeStays == ASSUME TypeOK, UNCHANGED prs PROVE ForgeEvolves
BY DEF TypeOK, Evidence, ForgeEvolves

\* A step aside of contracts and rows lets them evolve.
LEMMA AsideEvolves ==
    ASSUME TypeOK, UNCHANGED <<wf, contracts, rows>>, ForgeEvolves
    PROVE  Evolves
<1>1. \A t \in Tickets : wf[t].rev \in Nat
  BY WorkflowType DEF TypeOK
<1> QED BY <1>1 DEF Evolves, SameRow, ForgeEvolves

\* The same bindings and workflows: only the forge or an observer moves.
LEMMA Aside ==
    ASSUME IInv, TypeOK', UNCHANGED <<status, wf, contracts, rows, receipts, token>>,
           ForgeEvolves, JobsOK', RefreshStaysQueued'
    PROVE  IInv'
<1>1. SameGenerations
  <2>1. \A t \in Tickets : wf[t].epoch \in Nat
    BY WorkflowType DEF IInv, TypeOK
  <2> QED BY <2>1 DEF SameGenerations
<1>2. Evolves
  BY AsideEvolves DEF IInv
<1>3. RowsOK'
  <2> SUFFICES ASSUME NEW i \in BindIds, rows'[i].t # None
               PROVE  /\ rows'[i].pr \in PRs
                      /\ rows'[i].rev \in 1 .. wf'[rows'[i].t].rev
                      /\ rows'[i].key \in contracts'[rows'[i].t][rows'[i].rev].keys
                      /\ Shown(prs', rows'[i].ev, rows'[i].pr)
    BY DEF RowsOK
  <2> QED BY <1>2, RowsKept DEF IInv
<1>4. \A t \in Tickets : SameDelivery(t)
  BY DEF SameDelivery, SameRow
<1>5. TokensOK'
  BY <1>1, TokensRoutine
<1> QED BY <1>1, <1>2, <1>3, <1>4, <1>5, Routine

\* The jobs in flight are jobs that were in flight.
LEMMA JobsKept ==
    ASSUME IInv, TypeOK', Evolves, UNCHANGED <<rows, asked>>,
           \A o \in Observers : obs'[o].jobs \subseteq obs[o].jobs
    PROVE  JobsOK'
<1> SUFFICES ASSUME NEW o \in Observers, NEW j \in obs'[o].jobs PROVE JobOK(j)'
  BY DEF JobsOK
<1>1. j \in obs[o].jobs /\ JobOK(j) /\ j \in Job
  BY DEF IInv, JobsOK, TypeOK, Observer
<1> QED BY <1>1, JobKept DEF IInv, Continues

\* The faults counted stay within their bound.
LEMMA FaultFits ==
    ASSUME TypeOK, faults' = faults \/ Fault
    PROVE  faults' \in 0 .. MaxFaults
<1>1. faults \in 0 .. MaxFaults /\ MaxFaults \in Nat
  BY DeliveryAssumption DEF TypeOK
<1> QED BY <1>1 DEF Fault

\* Pushes, reviews and merges happen outside and only move forward.
LEMMA ForgeStep ==
    ASSUME IInv, NEW p \in PRs, Push(p) \/ Review(p) \/ Merge(p)
    PROVE  IInv'
<1>1. UNCHANGED <<status, wf, contracts, rows, receipts, token, lock, obs, asked>>
  BY DEF Push, Review, Merge, obsVars
<1>2. /\ prs \in [PRs -> Evidence] /\ prs[p] \in Evidence
      /\ prs[p].head \in Nat /\ prs[p].merged \in BOOLEAN /\ prs[p].green \in BOOLEAN
  BY DEF IInv, TypeOK, Evidence
<1>3. /\ prs' \in [PRs -> Evidence]
      /\ \A q \in PRs \ {p} : prs'[q] = prs[q]
      /\ prs[p].head <= prs'[p].head
      /\ prs[p].merged => prs'[p].merged /\ prs'[p].head = prs[p].head
  <2>1. CASE Push(p)
    <3>1. ASSUME NEW h \in Nat PROVE [prs[p] EXCEPT !.head = h, !.green = FALSE] \in Evidence
      BY <1>2 DEF Evidence
    <3>2. prs' = [prs EXCEPT ![p] = [prs[p] EXCEPT !.head = prs[p].head + 1, !.green = FALSE]]
      BY <2>1 DEF Push
    <3>3. prs' \in [PRs -> Evidence]
      <4>1. prs[p].head + 1 \in Nat
        BY <1>2
      <4> QED BY <1>2, <3>1, <3>2, <4>1
    <3>4. ~prs[p].merged /\ prs'[p].head = prs[p].head + 1
      BY <1>2, <2>1 DEF Push, Evidence
    <3> QED BY <1>2, <3>2, <3>3, <3>4
  <2>2. CASE Review(p)
    <3>1. ASSUME NEW b \in BOOLEAN PROVE [prs[p] EXCEPT !.green = b] \in Evidence
      BY <1>2 DEF Evidence
    <3>2. (~prs[p].green) \in BOOLEAN /\ prs' = [prs EXCEPT ![p] = [prs[p] EXCEPT !.green = ~prs[p].green]]
      BY <2>2 DEF Review
    <3>3. prs' \in [PRs -> Evidence]
      BY <1>2, <3>1, <3>2
    <3>4. prs'[p].head = prs[p].head /\ prs'[p].merged = prs[p].merged
      BY <1>2, <2>2 DEF Review, Evidence
    <3> QED BY <1>2, <3>2, <3>3, <3>4
  <2>3. CASE Merge(p)
    <3>1. [prs[p] EXCEPT !.merged = TRUE] \in Evidence
      BY <1>2 DEF Evidence
    <3>2. prs' = [prs EXCEPT ![p] = [prs[p] EXCEPT !.merged = TRUE]] /\ ~prs[p].merged
      BY <2>3 DEF Merge
    <3>3. prs' \in [PRs -> Evidence]
      BY <1>2, <3>1, <3>2
    <3>4. prs'[p].head = prs[p].head
      BY <1>2, <2>3 DEF Merge, Evidence
    <3> QED BY <1>2, <3>2, <3>3, <3>4
  <2> QED BY <2>1, <2>2, <2>3
<1>4. ForgeEvolves
  <2>1. \A q \in PRs : prs[q].head \in Nat
    BY DEF IInv, TypeOK, Evidence
  <2> QED BY <1>3, <2>1 DEF ForgeEvolves
<1>5. faults' \in 0 .. MaxFaults
  <2>1. faults' = faults \/ Fault
    BY DEF Push, Review, Merge
  <2> QED BY <2>1, FaultFits DEF IInv
<1>6. TypeOK'
  BY <1>1, <1>3, <1>5 DEF IInv, TypeOK
<1>7. JobsOK' /\ RefreshStaysQueued'
  <2>1. Evolves
    BY <1>1, <1>4, AsideEvolves DEF IInv
  <2>2. JobsOK'
    BY <1>1, <1>6, <2>1, JobsKept
  <2> QED BY <1>1, <2>2 DEF IInv, RefreshStaysQueued
<1> QED BY <1>1, <1>4, <1>6, <1>7, Aside

\* Ownership of the queue, and a job given up.
LEMMA ObserverUpdates ==
    ASSUME NEW v \in Observer
    PROVE  /\ [v EXCEPT !.st = "owned", !.conn = TRUE] \in Observer
           /\ [v EXCEPT !.st = "released"] \in Observer
           /\ [v EXCEPT !.conn = FALSE] \in Observer
           /\ [v EXCEPT !.st = "lost", !.jobs = {}] \in Observer
           /\ [st |-> "released", conn |-> FALSE, jobs |-> {}] \in Observer
           /\ [v EXCEPT !.st = "new"] \in Observer
           /\ \A J \in SUBSET Job : [v EXCEPT !.jobs = J] \in Observer
BY DEF Observer

\* Observers come and go: a new owner starts with no job of the old one.
LEMMA OwnershipStep ==
    ASSUME IInv, NEW o \in Observers,
           \/ AcquireOwnership(o) \/ Disconnect(o) \/ LoseOwnership(o)
           \/ ReleaseOwnership(o) \/ Restart(o) \/ \E j \in obs[o].jobs : Defer(o, j)
    PROVE  IInv'
<1> USE DEF AcquireOwnership, Disconnect, LoseOwnership, ReleaseOwnership, Restart, Defer, Done
<1>1. UNCHANGED <<status, wf, contracts, rows, receipts, token, prs, asked>>
  OBVIOUS
<1>2. obs \in [Observers -> Observer] /\ obs[o] \in Observer /\ obs[o].jobs \in SUBSET Job
  BY DEF IInv, TypeOK, Observer
<1>3. PICK v \in Observer : obs' = [obs EXCEPT ![o] = v] /\ v.jobs \subseteq obs[o].jobs
  <2>1. CASE AcquireOwnership(o)
    <3>1. /\ [obs[o] EXCEPT !.st = "owned", !.conn = TRUE].jobs = obs[o].jobs
          /\ [obs[o] EXCEPT !.st = "released"].jobs = obs[o].jobs
      BY <1>2 DEF Observer
    <3> QED BY <1>2, <2>1, <3>1, ObserverUpdates
  <2>2. CASE Disconnect(o)
    <3>1. [obs[o] EXCEPT !.conn = FALSE].jobs = obs[o].jobs
      BY <1>2 DEF Observer
    <3> QED BY <1>2, <2>2, <3>1, ObserverUpdates
  <2>3. CASE LoseOwnership(o)
    <3>1. [obs[o] EXCEPT !.st = "lost", !.jobs = {}].jobs = {}
      BY <1>2 DEF Observer
    <3> QED BY <1>2, <2>3, <3>1, ObserverUpdates
  <2>4. CASE ReleaseOwnership(o)
    BY <1>2, <2>4, ObserverUpdates
  <2>5. CASE Restart(o)
    <3>1. [obs[o] EXCEPT !.st = "new"].jobs = obs[o].jobs
      BY <1>2 DEF Observer
    <3> QED BY <1>2, <2>5, <3>1, ObserverUpdates
  <2>6. CASE \E j \in obs[o].jobs : Defer(o, j)
    <3>1. PICK j \in obs[o].jobs : Defer(o, j)
      BY <2>6
    <3> DEFINE J == {k \in obs[o].jobs : k.sub # j.sub}
    <3>2. J \in SUBSET Job /\ J \subseteq obs[o].jobs /\ obs' = [obs EXCEPT ![o] = [obs[o] EXCEPT !.jobs = J]]
      BY <1>2, <3>1
    <3>3. [obs[o] EXCEPT !.jobs = J].jobs = J
      BY <1>2 DEF Observer
    <3> QED BY <1>2, <3>2, <3>3, ObserverUpdates
  <2> QED BY <2>1, <2>2, <2>3, <2>4, <2>5, <2>6
<1>4. lock' \in Observers \cup {None} /\ faults' \in 0 .. MaxFaults
  <2>1. faults' = faults \/ Fault
    OBVIOUS
  <2>2. lock' \in {lock, o, None}
    OBVIOUS
  <2> QED BY <2>1, <2>2, FaultFits DEF IInv, TypeOK
<1>5. TypeOK'
  BY <1>1, <1>2, <1>3, <1>4 DEF IInv, TypeOK
<1>6. ForgeEvolves /\ Evolves
  BY <1>1, ForgeStays, AsideEvolves DEF IInv
<1>7. JobsOK' /\ RefreshStaysQueued'
  <2>1. \A q \in Observers : obs'[q].jobs \subseteq obs[q].jobs
    BY <1>2, <1>3
  <2>2. JobsOK'
    BY <1>1, <1>5, <1>6, <2>1, JobsKept
  <2> QED BY <1>1, <2>2 DEF IInv, RefreshStaysQueued
<1> QED BY <1>1, <1>5, <1>6, <1>7, Aside

\* A new job is about a subject nobody asks to refresh any more.
LEMMA CaptureStep ==
    ASSUME IInv, NEW o \in Observers, NEW S \in SUBSET Subjects, Capture(o, S)
    PROVE  IInv'
<1>1. /\ UNCHANGED <<status, wf, contracts, rows, receipts, token, prs, lock, faults>>
      /\ obs' = [obs EXCEPT ![o].jobs = {JobFor(s) : s \in S}]
      /\ asked' = [s \in Subjects |-> asked[s] /\ s \notin S]
      /\ S \subseteq DueSubjects
  BY DEF Capture
<1>2. obs \in [Observers -> Observer] /\ obs[o] \in Observer /\ asked \in [Subjects -> BOOLEAN]
  BY DEF IInv, TypeOK
<1>3. ASSUME NEW s \in S
      PROVE  /\ JobFor(s) \in Job /\ JobFor(s).sub = s /\ JobFor(s).got = "no"
             /\ wf[JobFor(s).t].rev > 0
             /\ s \in Tickets => JobFor(s).t = s
             /\ s \in BindIds => JobFor(s).t = rows[s].t
  <2> DEFINE u == IF s \in Tickets THEN s ELSE rows[s].t
  <2>1. JobFor(s) = [sub |-> s, t |-> u, rev |-> wf[u].rev, att |-> wf[u].att, same |-> TRUE,
                     sameDue |-> TRUE, got |-> "no", ev |-> NoEvidence]
    BY DEF JobFor
  <2>2. s \in Subjects /\ u \in Tickets /\ wf[u].rev > 0
    <3>1. /\ s \in Subjects
          /\ \/ s \in Tickets /\ Observable(s)
             \/ s \in BindIds /\ rows[s].t # None /\ Observable(rows[s].t)
      BY <1>1 DEF DueSubjects, Subjects
    <3>2. s \in BindIds => rows[s].t \in Tickets \cup {None} /\ s \notin Tickets
      BY DeliveryAssumption DEF IInv, TypeOK, Binding
    <3> QED BY <3>1, <3>2 DEF Observable
  <2>3. s \in BindIds => s \notin Tickets
    BY DeliveryAssumption
  <2>4. wf[u].rev \in Nat /\ wf[u].att \in Nat /\ NoEvidence \in Evidence
    BY <2>2, WorkflowType DEF IInv, TypeOK, NoEvidence, Evidence
  <2>5. (s \in Tickets => u = s) /\ (s \in BindIds => u = rows[s].t)
    BY <2>3
  <2> HIDE DEF u
  <2>6. JobFor(s) \in Job
    BY <2>1, <2>2, <2>4 DEF Job
  <2>7. JobFor(s).sub = s /\ JobFor(s).got = "no" /\ JobFor(s).t = u
    BY <2>1
  <2> QED BY <2>2, <2>5, <2>6, <2>7
<1> DEFINE J == {JobFor(s) : s \in S}
<1>4. J \in SUBSET Job
  BY <1>3
<1>5. obs' = [obs EXCEPT ![o] = [obs[o] EXCEPT !.jobs = J]]
  BY <1>1
<1>6. /\ obs' \in [Observers -> Observer] /\ obs'[o].jobs = J
      /\ \A q \in Observers \ {o} : obs'[q] = obs[q]
  <2> HIDE DEF J
  <2>1. [obs[o] EXCEPT !.jobs = J] \in Observer /\ [obs[o] EXCEPT !.jobs = J].jobs = J
    BY <1>2, <1>4 DEF Observer
  <2> QED BY <1>2, <1>5, <2>1
<1>7. asked' \in [Subjects -> BOOLEAN] /\ \A s \in Subjects : asked'[s] => asked[s] /\ s \notin S
  BY <1>1, <1>2
<1>8. TypeOK'
  BY <1>1, <1>6, <1>7 DEF IInv, TypeOK
<1>9. ForgeEvolves /\ Evolves
  BY <1>1, ForgeStays, AsideEvolves DEF IInv
<1>10. JobsOK'
  <2> SUFFICES ASSUME NEW q \in Observers, NEW j \in obs'[q].jobs PROVE JobOK(j)'
    BY DEF JobsOK
  <2>1. CASE q = o
    <3>1. PICK s \in S : j = JobFor(s)
      BY <1>6, <2>1
    <3>2. /\ j.sub = s /\ j.got = "no" /\ wf[j.t].rev > 0 /\ (s \in Tickets => j.t = s) /\ (s \in BindIds => j.t = rows[s].t)
      BY <1>3, <3>1
    <3>3. ~asked'[s]
      BY <1>7
    <3> QED BY <1>1, <3>2, <3>3 DEF JobOK
  <2>2. CASE q # o
    <3>1. j \in obs[q].jobs /\ JobOK(j) /\ j \in Job
      BY <1>6, <2>2 DEF IInv, JobsOK, TypeOK, Observer
    <3>2. asked'[j.sub] => asked[j.sub]
      BY <1>7, <3>1 DEF Job
    <3> QED BY <1>1, <1>8, <1>9, <3>1, <3>2, JobKept DEF IInv, Continues
  <2> QED BY <2>1, <2>2
<1>11. RefreshStaysQueued'
  BY <1>1, <1>7 DEF IInv, RefreshStaysQueued
<1> QED BY <1>1, <1>8, <1>9, <1>10, <1>11, Aside

\* What the forge shows now is no older than what it showed before.
LEMMA CollectStep ==
    ASSUME IInv, NEW o \in Observers, NEW j \in obs[o].jobs, Collect(o, j)
    PROVE  IInv'
<1>1. UNCHANGED <<status, wf, contracts, rows, receipts, token, prs, lock, asked>>
  BY DEF Collect
<1>2. /\ obs \in [Observers -> Observer] /\ obs[o] \in Observer /\ j \in Job /\ JobOK(j)
      /\ obs[o].jobs \in SUBSET Job
  BY DEF IInv, TypeOK, Observer, JobsOK
<1>3. PICK got \in {"ok", "error"} :
          /\ IF got = "error" THEN Fault ELSE UNCHANGED faults
          /\ obs' = [obs EXCEPT ![o].jobs = (@ \ {j}) \cup
                {[j EXCEPT !.got = got,
                           !.ev = IF got = "ok" /\ j.sub \in BindIds
                                  THEN prs[rows[j.sub].pr] ELSE NoEvidence]}]
  BY DEF Collect
<1> DEFINE ev == IF got = "ok" /\ j.sub \in BindIds THEN prs[rows[j.sub].pr] ELSE NoEvidence
           k == [j EXCEPT !.got = got, !.ev = ev]
           J == (obs[o].jobs \ {j}) \cup {k}
<1>4. j.sub \in BindIds => /\ rows[j.sub].t # None /\ rows[j.sub].pr \in PRs
                           /\ Shown(prs, rows[j.sub].ev, rows[j.sub].pr)
  <2>1. j.sub \in BindIds => rows[j.sub].t # None
    BY <1>2, DeliveryAssumption DEF JobOK, Job
  <2> QED BY <2>1 DEF IInv, RowsOK
<1>5. ev \in Evidence
  BY <1>4 DEF IInv, TypeOK, NoEvidence, Evidence
<1>6. obs' = [obs EXCEPT ![o] = [obs[o] EXCEPT !.jobs = J]]
  BY <1>3
<1>7. got = "ok" /\ j.sub \in BindIds => ev = prs[rows[j.sub].pr]
  OBVIOUS
<1> HIDE DEF ev
<1>8. /\ k \in Job /\ k.sub = j.sub /\ k.t = j.t /\ k.same = j.same /\ k.sameDue = j.sameDue
      /\ k.got = got /\ k.ev = ev
  BY <1>2, <1>5 DEF Job
<1> HIDE DEF k
<1>9. J \in SUBSET Job
  BY <1>2, <1>8
<1> HIDE DEF J
<1>10. /\ obs' \in [Observers -> Observer] /\ obs'[o].jobs = J
       /\ \A q \in Observers \ {o} : obs'[q] = obs[q]
  <2>1. [obs[o] EXCEPT !.jobs = J] \in Observer /\ [obs[o] EXCEPT !.jobs = J].jobs = J
    BY <1>2, <1>9 DEF Observer
  <2> QED BY <1>2, <1>6, <2>1
<1>11. TypeOK'
  <2>1. faults' \in 0 .. MaxFaults
    BY <1>3, FaultFits DEF IInv
  <2> QED BY <1>1, <1>10, <2>1 DEF IInv, TypeOK
<1>12. ForgeEvolves /\ Evolves
  BY <1>1, ForgeStays, AsideEvolves DEF IInv
<1>13. ASSUME NEW m, m = k PROVE JobOK(m)'
  <2>1. ASSUME k.sub \in BindIds, k.got = "ok"
        PROVE  /\ Shown(prs, k.ev, rows[k.sub].pr)
               /\ rows[k.sub].ev.head <= k.ev.head
               /\ rows[k.sub].ev.merged => k.ev.merged
    <3>1. k.ev = prs[rows[k.sub].pr] /\ rows[k.sub].pr \in PRs /\ prs[rows[k.sub].pr].head \in Nat
      BY <1>4, <1>7, <1>8, <2>1 DEF IInv, TypeOK, Evidence
    <3> QED BY <1>4, <1>8, <2>1, <3>1 DEF Shown
  <2> QED BY <1>1, <1>2, <1>8, <1>13, <2>1 DEF JobOK
<1>14. JobsOK'
  <2> SUFFICES ASSUME NEW q \in Observers, NEW m \in obs'[q].jobs PROVE JobOK(m)'
    BY DEF JobsOK
  <2>1. CASE m = k
    BY <1>13, <2>1
  <2>2. CASE m # k
    <3>1. m \in obs[q].jobs
      BY <1>10, <2>2 DEF J
    <3>2. JobOK(m) /\ m \in Job
      BY <3>1 DEF IInv, JobsOK, TypeOK, Observer
    <3> QED BY <1>1, <1>11, <1>12, <3>2, JobKept DEF IInv, Continues
  <2> QED BY <2>1, <2>2
<1>15. RefreshStaysQueued'
  BY <1>1 DEF IInv, RefreshStaysQueued
<1> QED BY <1>1, <1>11, <1>12, <1>14, <1>15, Aside

\* Jobs that continue earlier ones stay justified.
LEMMA JobsContinue ==
    ASSUME IInv, TypeOK', Evolves,
           \A o \in Observers : \A k \in obs'[o].jobs : \E j \in obs[o].jobs :
               /\ Continues(k, j)
               /\ k.same /\ k.sub \in BindIds => rows'[k.sub].ev = rows[k.sub].ev
               /\ asked'[k.sub] => asked[k.sub] \/ ~k.sameDue
    PROVE  JobsOK'
<1> SUFFICES ASSUME NEW o \in Observers, NEW k \in obs'[o].jobs PROVE JobOK(k)'
  BY DEF JobsOK
<1>1. k \in Job
  BY DEF TypeOK, Observer
<1>2. PICK j \in obs[o].jobs : /\ Continues(k, j)
                               /\ k.same /\ k.sub \in BindIds => rows'[k.sub].ev = rows[k.sub].ev
                               /\ asked'[k.sub] => asked[k.sub] \/ ~k.sameDue
  OBVIOUS
<1>3. j \in Job /\ JobOK(j)
  BY DEF IInv, TypeOK, Observer, JobsOK
<1> QED BY <1>1, <1>2, <1>3, JobKept DEF IInv

\* What the jobs know after a write that moved row versions and due times.
LEMMA MovedContinues ==
    ASSUME TypeOK, NEW S, NEW D, NEW o \in Observers, NEW k \in Moved(S, D)[o].jobs
    PROVE  /\ \E j \in obs[o].jobs : Continues(k, j)
           /\ k.same => k.sub \notin S
           /\ k.sameDue => k.sub \notin D
<1>1. obs \in [Observers -> Observer] /\ obs[o].jobs \subseteq Job
  BY DEF TypeOK, Observer
<1>2. PICK j \in obs[o].jobs : k = Marked(j, S, D)
  BY <1>1, MovedFacts
<1>3. j \in Job
  BY <1>1
<1> QED BY <1>2, <1>3, MarkedFacts DEF Continues

\* Steps that leave every delivery as it is: due times, freshness, a claim
\* given back.
LEMMA Bookkeeping ==
    ASSUME IInv, TypeOK', UNCHANGED <<status, contracts, receipts, prs>>, SameGenerations, TokensOK',
           \A i \in BindIds : SameRow(i) /\ rows'[i].active = rows[i].active /\ rows'[i].ev = rows[i].ev,
           \A o \in Observers : \A k \in obs'[o].jobs : \E j \in obs[o].jobs :
               Continues(k, j) /\ (asked'[k.sub] => asked[k.sub] \/ ~k.sameDue),
           RefreshStaysQueued'
    PROVE  IInv'
<1>1. Evolves
  <2>1. \A t \in Tickets : wf[t].rev \in Nat
    BY WorkflowType DEF IInv, TypeOK
  <2> QED BY <2>1, ForgeStays DEF IInv, Evolves, SameGenerations, ForgeEvolves
<1>2. RowsOK'
  <2> SUFFICES ASSUME NEW i \in BindIds, rows'[i].t # None
               PROVE  /\ rows'[i].pr \in PRs
                      /\ rows'[i].rev \in 1 .. wf'[rows'[i].t].rev
                      /\ rows'[i].key \in contracts'[rows'[i].t][rows'[i].rev].keys
                      /\ Shown(prs', rows'[i].ev, rows'[i].pr)
    BY DEF RowsOK
  <2>1. rows[i].t # None
    BY DEF SameRow
  <2> QED BY <1>1, <2>1, RowsKept DEF IInv
<1>3. JobsOK'
  BY <1>1, JobsContinue
<1>4. \A t \in Tickets : SameDelivery(t)
  BY DEF SameDelivery, SameGenerations
<1> QED BY <1>1, <1>2, <1>3, <1>4, Routine

\* One workflow row changes, in columns that are not part of a generation.
LEMMA WorkflowMoves ==
    ASSUME IInv, UNCHANGED <<status, contracts, rows, receipts, token, prs, lock, obs, asked>>,
           faults' \in 0 .. MaxFaults, NEW t \in Tickets, NEW w \in Workflow,
           wf' = [wf EXCEPT ![t] = w],
           w.rev = wf[t].rev, w.att = wf[t].att, w.disp = wf[t].disp, w.epoch = wf[t].epoch,
           wf[t].ctxDue => w.ctxDue
    PROVE  IInv'
<1>1. wf \in [Tickets -> Workflow] /\ \A u \in Tickets : wf[u].epoch \in Nat
  BY WorkflowType DEF IInv, TypeOK
<1>2. TypeOK'
  BY <1>1 DEF IInv, TypeOK
<1>3. SameGenerations /\ \A u \in Tickets : wf[u].ctxDue => wf'[u].ctxDue
  BY <1>1 DEF SameGenerations
<1>4. RefreshStaysQueued'
  BY <1>3 DEF IInv, RefreshStaysQueued
<1>5. \A i \in BindIds : SameRow(i)
  BY DEF SameRow
<1>6. \A o \in Observers : \A k \in obs'[o].jobs : \E j \in obs[o].jobs :
               Continues(k, j) /\ (asked'[k.sub] => asked[k.sub] \/ ~k.sameDue)
  BY DEF Continues
<1>7. TokensOK'
  BY <1>2, <1>3, TokensRoutine
<1> QED BY <1>2, <1>3, <1>4, <1>5, <1>6, <1>7, Bookkeeping

\* One binding changes, in columns no receipt is about.
LEMMA RowMoves ==
    ASSUME IInv, UNCHANGED <<status, contracts, wf, receipts, token, prs, lock, obs, asked>>,
           faults' \in 0 .. MaxFaults, NEW i \in BindIds, NEW b \in Binding,
           rows' = [rows EXCEPT ![i] = b],
           b.t = rows[i].t, b.rev = rows[i].rev, b.att = rows[i].att, b.key = rows[i].key,
           b.pr = rows[i].pr, b.active = rows[i].active, b.ev = rows[i].ev,
           rows[i].due => b.due
    PROVE  IInv'
<1>1. rows \in [BindIds -> Binding] /\ \A u \in Tickets : wf[u].epoch \in Nat
  BY WorkflowType DEF IInv, TypeOK
<1>2. TypeOK'
  BY <1>1 DEF IInv, TypeOK
<1>3. /\ SameGenerations
      /\ \A m \in BindIds : /\ SameRow(m) /\ rows'[m].active = rows[m].active /\ rows'[m].ev = rows[m].ev
                            /\ rows[m].due => rows'[m].due
  BY <1>1 DEF SameGenerations, SameRow
<1>4. RefreshStaysQueued'
  BY <1>3 DEF IInv, RefreshStaysQueued, Subjects
<1>5. \A o \in Observers : \A k \in obs'[o].jobs : \E j \in obs[o].jobs :
               Continues(k, j) /\ (asked'[k.sub] => asked[k.sub] \/ ~k.sameDue)
  BY DEF Continues
<1>6. TokensOK'
  BY <1>2, <1>3, TokensRoutine
<1> QED BY <1>2, <1>3, <1>4, <1>5, <1>6, Bookkeeping

\* Time makes a subject due or its evidence stale, which reads nothing.
LEMMA TimeStep ==
    ASSUME IInv, NEW s \in Subjects, DueElapses(s) \/ GoesStale(s)
    PROVE  IInv'
<1>1. UNCHANGED <<status, contracts, receipts, token, prs, lock, obs, asked>>
  BY DEF DueElapses, GoesStale, obsVars
<1>2. faults' \in 0 .. MaxFaults
  <2>1. faults' = faults \/ Fault
    BY DEF DueElapses, GoesStale
  <2> QED BY <2>1, FaultFits DEF IInv
<1>3. CASE s \in Tickets /\ rows' = rows /\ \/ wf' = [wf EXCEPT ![s].ctxDue = TRUE]
                                            \/ wf' = [wf EXCEPT ![s].ctxFresh = FALSE]
  <2>1. wf[s] \in Workflow
    BY <1>3 DEF IInv, TypeOK
  <2>2. CASE wf' = [wf EXCEPT ![s].ctxDue = TRUE]
    <3> DEFINE w == [wf[s] EXCEPT !.ctxDue = TRUE]
    <3>1. w \in Workflow /\ wf' = [wf EXCEPT ![s] = w]
      BY <2>1, <2>2, WorkflowUpdates
    <3>2. /\ w.rev = wf[s].rev /\ w.att = wf[s].att /\ w.disp = wf[s].disp
          /\ w.epoch = wf[s].epoch /\ w.ctxDue = TRUE
      BY <2>1 DEF Workflow
    <3> HIDE DEF w
    <3> QED BY <1>1, <1>2, <1>3, <3>1, <3>2, WorkflowMoves
  <2>3. CASE wf' = [wf EXCEPT ![s].ctxFresh = FALSE]
    <3> DEFINE w == [wf[s] EXCEPT !.ctxFresh = FALSE]
    <3>1. w \in Workflow /\ wf' = [wf EXCEPT ![s] = w]
      BY <2>1, <2>3, WorkflowUpdates
    <3>2. /\ w.rev = wf[s].rev /\ w.att = wf[s].att /\ w.disp = wf[s].disp
          /\ w.epoch = wf[s].epoch /\ w.ctxDue = wf[s].ctxDue
      BY <2>1 DEF Workflow
    <3> HIDE DEF w
    <3> QED BY <1>1, <1>2, <1>3, <3>1, <3>2, WorkflowMoves
  <2> QED BY <1>3, <2>2, <2>3
<1>4. CASE s \in BindIds /\ wf' = wf /\ \/ rows' = [rows EXCEPT ![s].due = TRUE]
                                        \/ rows' = [rows EXCEPT ![s].fresh = FALSE]
  <2>1. rows[s] \in Binding
    BY <1>4 DEF IInv, TypeOK
  <2>2. CASE rows' = [rows EXCEPT ![s].due = TRUE]
    <3> DEFINE b == [rows[s] EXCEPT !.due = TRUE]
    <3>1. b \in Binding /\ rows' = [rows EXCEPT ![s] = b]
      BY <2>1, <2>2, BindingUpdates
    <3>2. /\ b.t = rows[s].t /\ b.rev = rows[s].rev
          /\ b.att = rows[s].att /\ b.key = rows[s].key /\ b.pr = rows[s].pr
          /\ b.active = rows[s].active /\ b.ev = rows[s].ev /\ b.due = TRUE
      BY <2>1 DEF Binding
    <3> HIDE DEF b
    <3> QED BY <1>1, <1>2, <1>4, <3>1, <3>2, RowMoves
  <2>3. CASE rows' = [rows EXCEPT ![s].fresh = FALSE]
    <3> DEFINE b == [rows[s] EXCEPT !.fresh = FALSE]
    <3>1. b \in Binding /\ rows' = [rows EXCEPT ![s] = b]
      BY <2>1, <2>3, BindingUpdates
    <3>2. /\ b.t = rows[s].t /\ b.rev = rows[s].rev
          /\ b.att = rows[s].att /\ b.key = rows[s].key /\ b.pr = rows[s].pr
          /\ b.active = rows[s].active /\ b.ev = rows[s].ev /\ b.due = rows[s].due
      BY <2>1 DEF Binding
    <3> HIDE DEF b
    <3> QED BY <1>1, <1>2, <1>4, <3>1, <3>2, RowMoves
  <2> QED BY <1>4, <2>2, <2>3
<1> QED BY <1>3, <1>4 DEF DueElapses, GoesStale

\* A claim that ends keeps its epoch, one that starts takes the next.
LEMMA ClaimEndStep ==
    ASSUME IInv, \/ \E a \in Agents : ReleaseClaim(a)
                 \/ \E t \in Tickets : ClaimExpires(t)
    PROVE  IInv'
<1>1. UNCHANGED <<status, contracts, rows, receipts, token, prs, lock, obs, asked, faults>>
  BY DEF ReleaseClaim, ClaimExpires, obsVars
<1>2. faults' \in 0 .. MaxFaults
  BY <1>1 DEF IInv, TypeOK
<1>3. CASE \E a \in Agents : ReleaseClaim(a)
  <2>1. PICK a \in Agents : ReleaseClaim(a)
    BY <1>3
  <2> DEFINE t == token[a].t
             w == [wf[t] EXCEPT !.owner = None, !.live = FALSE]
  <2>2. t \in Tickets /\ wf[t] \in Workflow
    BY <2>1 DEF IInv, TypeOK, Token, ReleaseClaim, ClaimAccepted
  <2>3. wf' = [wf EXCEPT ![t] = w]
    BY <2>1, <2>2 DEF ReleaseClaim, IInv, TypeOK
  <2> HIDE DEF t
  <2>4. w \in Workflow
    BY <2>2, WorkflowUpdates
  <2>5. /\ w.rev = wf[t].rev /\ w.att = wf[t].att /\ w.disp = wf[t].disp
        /\ w.epoch = wf[t].epoch /\ w.ctxDue = wf[t].ctxDue
    BY <2>2 DEF Workflow
  <2> HIDE DEF w
  <2> QED BY <1>1, <1>2, <2>2, <2>3, <2>4, <2>5, WorkflowMoves
<1>4. CASE \E t \in Tickets : ClaimExpires(t)
  <2>1. PICK t \in Tickets : ClaimExpires(t)
    BY <1>4
  <2> DEFINE w == [wf[t] EXCEPT !.live = FALSE]
  <2>2. wf[t] \in Workflow
    BY DEF IInv, TypeOK
  <2>3. wf' = [wf EXCEPT ![t] = w]
    BY <2>1 DEF ClaimExpires
  <2>4. w \in Workflow
    BY <2>2, WorkflowUpdates
  <2>5. /\ w.rev = wf[t].rev /\ w.att = wf[t].att /\ w.disp = wf[t].disp
        /\ w.epoch = wf[t].epoch /\ w.ctxDue = wf[t].ctxDue
    BY <2>2 DEF Workflow
  <2> HIDE DEF w
  <2> QED BY <1>1, <1>2, <2>2, <2>3, <2>4, <2>5, WorkflowMoves
<1> QED BY <1>3, <1>4

\* Acquiring a claim moves the epoch past every token given out before.
LEMMA AcquireStep ==
    ASSUME IInv, NEW a \in Agents, NEW t \in Tickets, AcquireClaim(a, t)
    PROVE  IInv'
<1>1. /\ UNCHANGED <<status, contracts, rows, receipts, prs, lock, obs, asked, faults>>
      /\ wf[t].rev > 0 /\ wf[t].disp = "active"
  BY DEF AcquireClaim, obsVars, HasWork, Underway
<1> DEFINE w == [wf[t] EXCEPT !.owner = a, !.live = TRUE, !.epoch = @ + 1]
           k == [t |-> t, epoch |-> wf[t].epoch + 1, rev |-> wf[t].rev, att |-> wf[t].att]
<1>2. wf \in [Tickets -> Workflow] /\ wf[t] \in Workflow /\ \A u \in Tickets : wf[u].epoch \in Nat /\ wf[u].rev \in Nat
  BY WorkflowType DEF IInv, TypeOK
<1>3. wf' = [wf EXCEPT ![t] = w] /\ token' = [token EXCEPT ![a] = k]
  <2>1. wf' = [wf EXCEPT ![t] = w]
    BY Zenon DEF AcquireClaim
  <2>2. token' = [token EXCEPT ![a] = k]
    BY Zenon DEF AcquireClaim
  <2> QED BY <2>1, <2>2
<1>4. w \in Workflow
  BY <1>2, WorkflowUpdates
<1>5. /\ w.rev = wf[t].rev /\ w.att = wf[t].att /\ w.disp = wf[t].disp
      /\ w.epoch = wf[t].epoch + 1 /\ w.ctxDue = wf[t].ctxDue
  BY <1>2 DEF Workflow
<1> HIDE DEF w
<1>6. /\ k \in Token
      /\ k.t = t /\ k.epoch = wf[t].epoch + 1 /\ k.rev = wf[t].rev /\ k.att = wf[t].att
  <2>1. wf[t].epoch + 1 \in Nat /\ wf[t].att \in Nat
    BY <1>2, WorkflowType
  <2> QED BY <1>2, <2>1 DEF Token
<1> HIDE DEF k
<1>7. TypeOK'
  <2>1. token \in [Agents -> Token \cup {None}]
    BY DEF IInv, TypeOK
  <2>2. token' \in [Agents -> Token \cup {None}]
    BY <1>3, <1>6, <2>1
  <2> QED BY <1>1, <1>2, <1>3, <1>4, <2>2 DEF IInv, TypeOK
<1>8. SameGenerations /\ wf'[t] = w /\ \A u \in Tickets \ {t} : wf'[u] = wf[u]
  BY <1>2, <1>3, <1>5 DEF SameGenerations
<1>9. TokensOK'
  <2> SUFFICES ASSUME NEW b \in Agents, token'[b] # None
               PROVE  TokenOK(token'[b], wf'[token'[b].t])
    BY DEF TokensOK
  <2>1. token \in [Agents -> Token \cup {None}]
    BY DEF IInv, TypeOK
  <2>2. CASE b = a
    <3>1. token'[b] = k
      BY <1>3, <2>1, <2>2
    <3> QED BY <1>1, <1>2, <1>5, <1>6, <1>8, <3>1 DEF TokenOK
  <2>3. CASE b # a
    <3>1. token'[b] = token[b] /\ token[b] \in Token /\ token[b].t \in Tickets /\ token[b].epoch \in Nat
      BY <1>3, <2>1, <2>3 DEF Token
    <3>2. TokenOK(token[b], wf[token[b].t])
      BY <3>1 DEF IInv, TokensOK
    <3>3. CASE token[b].t = t
      BY <1>2, <1>5, <1>8, <3>1, <3>2, <3>3 DEF TokenOK
    <3>4. CASE token[b].t # t
      BY <1>8, <3>1, <3>2, <3>4
    <3> QED BY <3>3, <3>4
  <2> QED BY <2>2, <2>3
<1>10. RefreshStaysQueued'
  BY <1>1, <1>5, <1>8 DEF IInv, RefreshStaysQueued
<1>11. \A i \in BindIds : SameRow(i)
  BY <1>1 DEF SameRow
<1>12. \A o \in Observers : \A m \in obs'[o].jobs : \E j \in obs[o].jobs :
               Continues(m, j) /\ (asked'[m.sub] => asked[m.sub] \/ ~m.sameDue)
  BY <1>1 DEF Continues
<1> QED BY <1>1, <1>7, <1>8, <1>9, <1>10, <1>11, <1>12, Bookkeeping

\* A requested refresh queues the ticket and all its active bindings.
LEMMA RefreshStep == ASSUME IInv, NEW t \in Tickets, Refresh(t) PROVE IInv'
<1> DEFINE S == {t} \cup {i \in BindIds : rows[i].t = t /\ rows[i].active}
<1>1. /\ UNCHANGED <<status, contracts, receipts, token, prs, lock, faults>>
      /\ wf' = [wf EXCEPT ![t].ctxDue = TRUE]
      /\ rows' = [i \in BindIds |-> IF i \in S THEN [rows[i] EXCEPT !.due = TRUE] ELSE rows[i]]
      /\ obs' = Moved({}, S)
      /\ asked' = [s \in Subjects |-> asked[s] \/ s \in S]
  BY DEF Refresh
<1>2. /\ wf \in [Tickets -> Workflow] /\ rows \in [BindIds -> Binding]
      /\ obs \in [Observers -> Observer] /\ asked \in [Subjects -> BOOLEAN]
  BY DEF IInv, TypeOK
<1>3. (t \in S) /\ (\A u \in Tickets \ {t} : u \notin S) /\ S \subseteq Subjects
  BY DeliveryAssumption DEF Subjects
<1> HIDE DEF S
<1>4. /\ wf' \in [Tickets -> Workflow] /\ SameGenerations
      /\ wf'[t].ctxDue = TRUE /\ \A u \in Tickets \ {t} : wf'[u] = wf[u]
  <2> DEFINE w == [wf[t] EXCEPT !.ctxDue = TRUE]
  <2>1. wf[t] \in Workflow /\ \A u \in Tickets : wf[u].epoch \in Nat
    BY <1>2, WorkflowType
  <2>2. w \in Workflow /\ wf' = [wf EXCEPT ![t] = w]
    BY <1>1, <2>1, WorkflowUpdates
  <2>3. /\ w.rev = wf[t].rev /\ w.att = wf[t].att /\ w.disp = wf[t].disp
        /\ w.epoch = wf[t].epoch /\ w.ctxDue = TRUE
    BY <2>1 DEF Workflow
  <2> HIDE DEF w
  <2> QED BY <1>2, <2>1, <2>2, <2>3 DEF SameGenerations
<1>5. ASSUME NEW i \in BindIds
      PROVE  /\ rows'[i] \in Binding /\ SameRow(i)
             /\ rows'[i].active = rows[i].active /\ rows'[i].ev = rows[i].ev
             /\ IF i \in S THEN rows'[i].due = TRUE ELSE rows'[i] = rows[i]
  <2> DEFINE b == [rows[i] EXCEPT !.due = TRUE]
  <2>1. rows[i] \in Binding /\ rows'[i] = IF i \in S THEN b ELSE rows[i]
    BY <1>1, <1>2
  <2>2. b \in Binding
    BY <2>1, BindingUpdates
  <2>3. /\ b.t = rows[i].t /\ b.rev = rows[i].rev /\ b.att = rows[i].att /\ b.key = rows[i].key
        /\ b.pr = rows[i].pr /\ b.active = rows[i].active /\ b.ev = rows[i].ev /\ b.due = TRUE
    BY <2>1 DEF Binding
  <2> HIDE DEF b
  <2> QED BY <2>1, <2>2, <2>3 DEF SameRow
<1>6. rows' \in [BindIds -> Binding]
  BY <1>1, <1>5
<1>7. asked' \in [Subjects -> BOOLEAN] /\ \A s \in Subjects : asked'[s] => asked[s] \/ s \in S
  BY <1>1
<1>8. TypeOK'
  BY <1>1, <1>2, <1>4, <1>6, <1>7, MovedFacts DEF IInv, TypeOK
<1>9. TokensOK'
  BY <1>1, <1>4, <1>8, TokensRoutine
<1>10. RefreshStaysQueued'
  <2> SUFFICES ASSUME NEW s \in Subjects, asked'[s]
               PROVE  IF s \in Tickets THEN wf'[s].ctxDue ELSE rows'[s].due
    BY DEF RefreshStaysQueued
  <2>1. asked[s] \/ s \in S
    BY <1>7
  <2>2. asked[s] => IF s \in Tickets THEN wf[s].ctxDue ELSE rows[s].due
    BY DEF IInv, RefreshStaysQueued
  <2>3. CASE s \in Tickets
    BY <1>3, <1>4, <2>1, <2>2, <2>3
  <2>4. CASE s \notin Tickets
    <3>1. s \in BindIds
      BY <2>4 DEF Subjects
    <3> QED BY <1>5, <2>1, <2>2, <2>4, <3>1
  <2> QED BY <2>3, <2>4
<1>11. \A o \in Observers : \A k \in obs'[o].jobs : \E j \in obs[o].jobs :
               Continues(k, j) /\ (asked'[k.sub] => asked[k.sub] \/ ~k.sameDue)
  <2> SUFFICES ASSUME NEW o \in Observers, NEW k \in obs'[o].jobs
               PROVE  \E j \in obs[o].jobs : Continues(k, j) /\ (asked'[k.sub] => asked[k.sub] \/ ~k.sameDue)
    OBVIOUS
  <2>1. (\E j \in obs[o].jobs : Continues(k, j)) /\ (k.sameDue => k.sub \notin S)
    BY <1>1, MovedContinues DEF IInv
  <2>2. k.sub \in Subjects
    BY <1>8 DEF TypeOK, Observer, Job
  <2> QED BY <1>7, <2>1, <2>2
<1> QED BY <1>1, <1>4, <1>5, <1>8, <1>9, <1>10, <1>11, Bookkeeping

\* A pull request for a deliverable, and the one it replaces.
LEMMA BindStep ==
    ASSUME IInv, NEW t \in Tickets, NEW k \in Keys, NEW p \in PRs, NEW i \in BindIds, BindPr(t, k, p, i)
    PROVE  IInv'
<1> DEFINE new == [NoBinding EXCEPT !.t = t, !.rev = wf[t].rev, !.att = wf[t].att,
                                    !.key = k, !.pr = p, !.active = TRUE, !.due = TRUE]
           B == Replaced(t, k)
<1>1. /\ UNCHANGED <<status, contracts, receipts, token, prs, lock, asked, faults>>
      /\ wf[t].rev > 0 /\ status[t] # "closed" /\ rows[i] = NoBinding
      /\ k \in contracts[t][wf[t].rev].keys
      /\ rows' = [b \in BindIds |-> IF b = i THEN new
                                    ELSE IF b \in B THEN [rows[b] EXCEPT !.active = FALSE]
                                    ELSE rows[b]]
      /\ wf' = IF B = {} THEN wf ELSE [wf EXCEPT ![t] = NoClaim(wf[t])]
      /\ obs' = Moved(B, {})
  BY DEF BindPr, Bindable, Terms
<1>2. /\ wf \in [Tickets -> Workflow] /\ rows \in [BindIds -> Binding]
      /\ obs \in [Observers -> Observer] /\ wf[t] \in Workflow
      /\ \A u \in Tickets : wf[u].epoch \in Nat /\ wf[u].rev \in Nat /\ wf[u].att \in Nat
  BY WorkflowType DEF IInv, TypeOK
<1>3. B \subseteq BindIds /\ (\A b \in B : rows[b].t = t) /\ NoBinding.t = None /\ None \notin Tickets
      /\ NoBinding.ev = NoEvidence
  BY DeliveryAssumption DEF Replaced, Bound, NoBinding
<1>4. /\ new \in Binding /\ new.t = t /\ new.rev = wf[t].rev /\ new.key = k /\ new.pr = p
      /\ new.ev = NoEvidence /\ new.due = TRUE
  <2>1. NoBinding \in Binding /\ wf[t].rev \in Nat /\ wf[t].att \in Nat
    BY <1>2 DEF NoBinding, NoEvidence, Evidence, Binding
  <2>2. new \in Binding
    BY <2>1, BoundFacts
  <2>3. /\ new.t = t /\ new.rev = wf[t].rev /\ new.key = k /\ new.pr = p
        /\ new.ev = NoBinding.ev /\ new.due = TRUE
    BY <2>1 DEF Binding
  <2> QED BY <1>3, <2>2, <2>3
<1> HIDE DEF new, B
<1>5. ASSUME NEW b \in BindIds, b # i
      PROVE  /\ rows'[b] \in Binding /\ SameRow(b) /\ rows'[b].ev = rows[b].ev
             /\ rows'[b].due = rows[b].due /\ (b \notin B => rows'[b].active = rows[b].active)
  <2> DEFINE c == [rows[b] EXCEPT !.active = FALSE]
  <2>1. rows[b] \in Binding /\ rows'[b] = IF b \in B THEN c ELSE rows[b]
    BY <1>1, <1>2, <1>5
  <2>2. c \in Binding
    BY <2>1, BindingUpdates
  <2>3. /\ c.t = rows[b].t /\ c.rev = rows[b].rev /\ c.att = rows[b].att /\ c.key = rows[b].key
        /\ c.pr = rows[b].pr /\ c.ev = rows[b].ev /\ c.due = rows[b].due
    BY <2>1 DEF Binding
  <2> HIDE DEF c
  <2> QED BY <2>1, <2>2, <2>3 DEF SameRow
<1>6. rows'[i] = new
  BY <1>1
<1>7. rows' \in [BindIds -> Binding]
  <2>1. \A b \in BindIds : rows'[b] \in Binding
    BY <1>4, <1>5, <1>6
  <2> QED BY <1>1, <2>1
<1>8. /\ wf' \in [Tickets -> Workflow] /\ SameGenerations
      /\ \A u \in Tickets : wf'[u].ctxDue = wf[u].ctxDue
  <2>1. CASE B = {}
    BY <1>1, <1>2, <2>1 DEF SameGenerations
  <2>2. CASE B # {}
    <3>1. wf' = [wf EXCEPT ![t] = NoClaim(wf[t])]
      BY <1>1, <2>2
    <3> QED BY <1>2, <3>1, NoClaimFacts DEF SameGenerations
  <2> QED BY <2>1, <2>2
<1>9. TypeOK'
  BY <1>1, <1>2, <1>7, <1>8, MovedFacts DEF IInv, TypeOK
<1>10. Evolves
  <2>1. \A b \in BindIds : rows[b].t # None => SameRow(b)
    BY <1>1, <1>3, <1>5
  <2> QED BY <1>1, <1>2, <1>8, <2>1, ForgeStays DEF IInv, Evolves, SameGenerations, ForgeEvolves
<1>11. RowsOK'
  <2> SUFFICES ASSUME NEW b \in BindIds, rows'[b].t # None
               PROVE  /\ rows'[b].pr \in PRs
                      /\ rows'[b].rev \in 1 .. wf'[rows'[b].t].rev
                      /\ rows'[b].key \in contracts'[rows'[b].t][rows'[b].rev].keys
                      /\ Shown(prs', rows'[b].ev, rows'[b].pr)
    BY DEF RowsOK
  <2>1. CASE b = i
    <3>1. wf[t].rev \in 1 .. wf'[t].rev
      BY <1>1, <1>2, <1>8 DEF SameGenerations
    <3>2. Shown(prs', NoEvidence, p)
      <4>1. prs[p].head \in Nat
        BY DEF IInv, TypeOK, Evidence
      <4> QED BY <1>1, <4>1 DEF Shown, NoEvidence
    <3> QED BY <1>1, <1>4, <1>6, <2>1, <3>1, <3>2
  <2>2. CASE b # i
    <3>1. rows[b].t # None
      BY <1>5, <2>2 DEF SameRow
    <3> QED BY <1>5, <1>9, <1>10, <2>2, <3>1, RowsKept DEF IInv
  <2> QED BY <2>1, <2>2
<1>12. JobsOK'
  <2>1. \A b \in BindIds : rows'[b].ev = rows[b].ev
    BY <1>1, <1>3, <1>4, <1>5, <1>6
  <2>2. \A o \in Observers : \A m \in obs'[o].jobs : \E j \in obs[o].jobs : Continues(m, j)
    BY <1>1, MovedContinues DEF IInv
  <2> QED BY <1>1, <1>9, <1>10, <2>1, <2>2, JobsContinue
<1>13. TokensOK'
  BY <1>1, <1>8, <1>9, TokensRoutine
<1>14. RefreshStaysQueued'
  <2>1. \A b \in BindIds : rows[b].due => rows'[b].due
    BY <1>4, <1>5, <1>6
  <2> QED BY <1>1, <1>8, <2>1 DEF IInv, RefreshStaysQueued, Subjects
<1>15. ASSUME NEW u \in Tickets, status[u] = "closed" PROVE SameDelivery(u)
  <2>1. u # t
    BY <1>1, <1>15
  <2>2. ASSUME NEW b \in BindIds, rows[b].t = u \/ rows'[b].t = u
        PROVE  SameRow(b) /\ rows'[b].active = rows[b].active /\ rows'[b].ev = rows[b].ev
    <3>1. b # i
      BY <1>1, <1>3, <1>4, <1>6, <2>1, <2>2
    <3>2. b \notin B
      BY <1>3, <1>5, <2>1, <2>2, <3>1 DEF SameRow
    <3> QED BY <1>5, <3>1, <3>2
  <2> QED BY <1>8, <2>2 DEF SameDelivery, SameGenerations
<1> QED BY <1>1, <1>8, <1>9, <1>10, <1>11, <1>12, <1>13, <1>14, <1>15, Routine
-----------------------------------------------------------------------------
(* Steps that issue receipts.                                              *)

\* Receipts that are there or are issued now, each for a satisfied delivery
\* and together with its integration receipt.
LEMMA ReceiptsIssued ==
    ASSUME IInv, TypeOK', RevsOK', RowsOK', Evolves, UNCHANGED contracts, receipts \subseteq receipts',
           \A r \in receipts' : r \in receipts \/
               \E t \in Tickets, ms \in Milestones :
                   /\ wf'[t].rev > 0 /\ Satisfied(rows', wf', t)
                   /\ r = ReceiptOf(rows', wf', t, ms)
                   /\ ReceiptOf(rows', wf', t, "integration") \in receipts'
    PROVE  ReceiptsInv'
<1>1. ASSUME NEW r \in receipts'
      PROVE  (Certifies(r) /\ Preceded(r) /\ Placed(r))'
  <2>1. CASE r \in receipts
    BY <2>1, ReceiptKept DEF IInv, ReceiptsInv
  <2>2. CASE \E t \in Tickets, ms \in Milestones :
                   /\ wf'[t].rev > 0 /\ Satisfied(rows', wf', t)
                   /\ r = ReceiptOf(rows', wf', t, ms)
                   /\ ReceiptOf(rows', wf', t, "integration") \in receipts'
    <3>1. PICK t \in Tickets, ms \in Milestones :
                   /\ wf'[t].rev > 0 /\ Satisfied(rows', wf', t)
                   /\ r = ReceiptOf(rows', wf', t, ms)
                   /\ ReceiptOf(rows', wf', t, "integration") \in receipts'
      BY <2>2
    <3>2. r.t = t /\ r.rev \in 1 .. wf'[t].rev /\ Certifies(r)' /\ Preceded(r)'
      BY <3>1, NewReceipt
    <3>3. [r EXCEPT !.ms = "integration"] = ReceiptOf(rows', wf', t, "integration")
      BY <3>1 DEF ReceiptOf
    <3> QED BY <3>1, <3>2, <3>3 DEF Placed
  <2> QED BY <2>1, <2>2
<1>2. ReceiptsInv' <=> \A r \in receipts' : (Certifies(r) /\ Preceded(r) /\ Placed(r))'
  BY DEF ReceiptsInv, ReceiptsOK, ReceiptsAreTrue, ReceiptsFollowDependencies,
         Certifies, Preceded, Placed
<1> QED BY <1>1, <1>2

\* Accepting a delivery issues the receipt of what its rows show.
LEMMA AcceptStep == ASSUME IInv, NEW t \in Tickets, Accept(t) PROVE IInv'
<1> DEFINE new == ReceiptOf(rows, wf, t, "fulfilled")
<1>1. /\ UNCHANGED <<status, wf, contracts, rows, token, prs, lock, obs, asked, faults>>
      /\ wf[t].rev > 0 /\ Satisfied(rows, wf, t) /\ receipts' = receipts \cup {new}
      /\ ReceiptOf(rows, wf, t, "integration") \in receipts
  BY DEF Accept, obsVars, Has
<1>2. Evolves
  BY <1>1, ForgeStays, AsideEvolves DEF IInv
<1>3. new \in Receipt
  <2>1. wf[t] \in Workflow /\ wf[t].rev \in Nat /\ wf[t].att \in Nat
    BY WorkflowType DEF IInv, TypeOK
  <2>2. Digest(rows, wf, t) \subseteq Proof
    <3>1. \A i \in Bound(rows, wf, t) : i \in BindIds /\ rows[i].ev.head \in Nat /\ rows[i].ev.merged \in BOOLEAN
      BY DEF Bound, IInv, TypeOK, Binding, Evidence
    <3> QED BY <3>1 DEF Digest, Proof
  <2> QED BY <2>1, <2>2 DEF ReceiptOf, Receipt, Milestones
<1>4. TypeOK'
  BY <1>1, <1>3 DEF IInv, TypeOK
<1>5. RevsOK' /\ RowsOK' /\ DispositionAgrees' /\ RefreshStaysQueued'
  BY <1>1 DEF IInv, RevsOK, RowsOK, DispositionAgrees, RefreshStaysQueued
<1>6. JobsOK'
  BY <1>1, <1>2, <1>4, JobsKept
<1>7. TokensOK'
  BY <1>1 DEF IInv, TokensOK
<1>8. ReceiptsInv'
  <2>1. /\ wf'[t].rev > 0 /\ Satisfied(rows', wf', t) /\ new = ReceiptOf(rows', wf', t, "fulfilled")
        /\ ReceiptOf(rows', wf', t, "integration") \in receipts' /\ "fulfilled" \in Milestones
    BY <1>1 DEF Milestones
  <2> HIDE DEF new
  <2>2. \A r \in receipts' : r \in receipts \/
               \E u \in Tickets, ms \in Milestones :
                   /\ wf'[u].rev > 0 /\ Satisfied(rows', wf', u)
                   /\ r = ReceiptOf(rows', wf', u, ms)
                   /\ ReceiptOf(rows', wf', u, "integration") \in receipts'
    BY <1>1, <2>1
  <2> QED BY <1>1, <1>2, <1>4, <1>5, <2>2, ReceiptsIssued
<1>9. FulfilledIsProven'
  <2>1. \A u \in Tickets : SameDelivery(u)
    BY <1>1 DEF SameDelivery, SameRow
  <2> QED BY <1>1, <2>1, FulfilledKept DEF IInv
<1> QED BY <1>4, <1>5, <1>6, <1>7, <1>8, <1>9 DEF IInv, ReceiptsInv

\* Evidence replaces older evidence of the same pull request.
LEMMA PublishStep ==
    ASSUME IInv, NEW o \in Observers, NEW j \in obs[o].jobs, Publish(o, j)
    PROVE  IInv'
<1> DEFINE due == ~j.sameDue
           D == IF j.sameDue THEN {j.sub} ELSE {}
<1>1. /\ UNCHANGED <<status, contracts, token, prs, lock, asked, faults>>
      /\ Publishable(j) /\ rows' = ObservedRows(j) /\ wf' = ObservedContext(j)
      /\ receipts' = IF j.got = "ok" THEN receipts \cup Issued(rows', wf', j.t) ELSE receipts
      /\ obs' = Done(o, j, Moved({j.sub}, D))
  BY DEF Publish
<1>2. /\ wf \in [Tickets -> Workflow] /\ rows \in [BindIds -> Binding] /\ obs \in [Observers -> Observer]
      /\ \A u \in Tickets : wf[u].epoch \in Nat /\ wf[u].rev \in Nat
  BY WorkflowType DEF IInv, TypeOK
<1>3. /\ j \in Job /\ JobOK(j) /\ j.t \in Tickets /\ j.sub \in Subjects /\ j.ev \in Evidence
      /\ due \in BOOLEAN /\ j.got \in {"no", "ok", "error"}
  BY DEF IInv, TypeOK, Observer, JobsOK, Job
<1>4. /\ j.same /\ status[j.t] # "closed" /\ wf[j.t].disp = "active" /\ wf[j.t].rev > 0
  BY <1>1, <1>3 DEF Publishable, JobOK
<1>5. /\ wf' \in [Tickets -> Workflow] /\ SameGenerations
      /\ \A u \in Tickets : wf'[u].ctxDue = IF u = j.sub THEN due ELSE wf[u].ctxDue
  <2>1. CASE j.sub \in BindIds
    <3>1. wf' = wf /\ j.sub \notin Tickets
      BY <1>1, <2>1, DeliveryAssumption DEF ObservedContext
    <3> QED BY <1>2, <3>1 DEF SameGenerations
  <2>2. CASE j.sub \notin BindIds
    <3>1. j.sub \in Tickets /\ j.t = j.sub
      BY <1>3, <2>2 DEF Subjects, JobOK
    <3> DEFINE a == [wf[j.t] EXCEPT !.ctxOk = TRUE, !.ctxErr = FALSE, !.ctxFresh = TRUE, !.ctxDue = due]
               b == [wf[j.t] EXCEPT !.ctxErr = TRUE, !.ctxDue = due]
               w == IF j.got = "ok" THEN a ELSE b
    <3>2. wf' = [wf EXCEPT ![j.t] = w]
      BY <1>1, <2>2 DEF ObservedContext, StillDue
    <3> HIDE DEF due
    <3>3. wf[j.t] \in Workflow /\ a \in Workflow /\ b \in Workflow
      BY <1>2, <1>3, WorkflowUpdates
    <3>4. /\ a.rev = wf[j.t].rev /\ a.att = wf[j.t].att /\ a.disp = wf[j.t].disp
          /\ a.epoch = wf[j.t].epoch /\ a.ctxDue = due
      BY <3>3 DEF Workflow
    <3>5. /\ b.rev = wf[j.t].rev /\ b.att = wf[j.t].att /\ b.disp = wf[j.t].disp
          /\ b.epoch = wf[j.t].epoch /\ b.ctxDue = due
      BY <3>3 DEF Workflow
    <3> HIDE DEF a, b
    <3>6. /\ w \in Workflow /\ w.rev = wf[j.t].rev /\ w.att = wf[j.t].att /\ w.disp = wf[j.t].disp
          /\ w.epoch = wf[j.t].epoch /\ w.ctxDue = due
      BY <3>3, <3>4, <3>5
    <3> HIDE DEF w
    <3> QED BY <1>2, <3>1, <3>2, <3>6 DEF SameGenerations
  <2> QED BY <2>1, <2>2
<1>6. ASSUME NEW i \in BindIds
      PROVE  /\ rows'[i] \in Binding /\ SameRow(i) /\ rows'[i].active = rows[i].active
             /\ rows'[i].due = IF i = j.sub THEN due ELSE rows[i].due
             /\ rows'[i].ev = IF i = j.sub /\ j.got = "ok" THEN j.ev ELSE rows[i].ev
  <2>1. CASE j.sub \in Tickets
    <3>1. rows' = rows /\ i # j.sub
      BY <1>1, <2>1, DeliveryAssumption DEF ObservedRows
    <3> QED BY <1>2, <3>1 DEF SameRow
  <2>2. CASE j.sub \notin Tickets
    <3> DEFINE b == rows[j.sub]
               c == [b EXCEPT !.ev = j.ev, !.err = FALSE, !.fresh = TRUE, !.due = due]
               d == [b EXCEPT !.err = TRUE, !.due = due]
    <3>1. j.sub \in BindIds /\ b \in Binding
      BY <1>2, <1>3, <2>2 DEF Subjects
    <3>2. rows' = [rows EXCEPT ![j.sub] = IF j.got = "ok" THEN c ELSE d]
      BY <1>1, <2>2 DEF ObservedRows, StillDue
    <3> HIDE DEF due
    <3>3. c \in Binding /\ d \in Binding
      BY <1>3, <3>1, BindingUpdates
    <3>4. /\ c.t = b.t /\ c.rev = b.rev /\ c.att = b.att /\ c.key = b.key /\ c.pr = b.pr
          /\ c.active = b.active /\ c.due = due /\ c.ev = j.ev
      BY <3>1 DEF Binding
    <3>5. /\ d.t = b.t /\ d.rev = b.rev /\ d.att = b.att /\ d.key = b.key /\ d.pr = b.pr
          /\ d.active = b.active /\ d.due = due /\ d.ev = b.ev
      BY <3>1 DEF Binding
    <3> HIDE DEF c, d
    <3>6. CASE i = j.sub
      <4>1. rows'[i] = IF j.got = "ok" THEN c ELSE d
        BY <1>2, <3>2, <3>6
      <4> QED BY <3>3, <3>4, <3>5, <3>6, <4>1 DEF SameRow
    <3>7. CASE i # j.sub
      BY <1>2, <3>2, <3>7 DEF SameRow
    <3> QED BY <3>6, <3>7
  <2> QED BY <2>1, <2>2
<1> HIDE DEF due, D
<1>7. rows' \in [BindIds -> Binding]
  <2>1. DOMAIN rows' = BindIds /\ rows' = [i \in DOMAIN rows' |-> rows'[i]]
    BY <1>1, <1>2 DEF ObservedRows
  <2> QED BY <1>6, <2>1
<1>8. /\ obs' \in [Observers -> Observer]
      /\ \A q \in Observers : obs'[q].jobs \subseteq Moved({j.sub}, D)[q].jobs
  <2> DEFINE M == Moved({j.sub}, D)
             J == {k \in M[o].jobs : k.sub # j.sub}
  <2>1. M \in [Observers -> Observer] /\ M[o] \in Observer /\ M[o].jobs \in SUBSET Job
    BY <1>2, MovedFacts DEF Observer
  <2>2. obs' = [M EXCEPT ![o] = [M[o] EXCEPT !.jobs = J]]
    BY <1>1 DEF Done
  <2> HIDE DEF M
  <2>3. J \in SUBSET Job /\ J \subseteq M[o].jobs
    BY <2>1
  <2> HIDE DEF J
  <2>4. [M[o] EXCEPT !.jobs = J] \in Observer /\ [M[o] EXCEPT !.jobs = J].jobs = J
    BY <2>1, <2>3 DEF Observer
  <2>5. obs' \in [Observers -> Observer] /\ \A q \in Observers : obs'[q].jobs \subseteq M[q].jobs
    BY <2>1, <2>2, <2>3, <2>4
  <2> QED BY <2>5 DEF M
<1>9. receipts \subseteq receipts' /\ \A r \in receipts' : r \in receipts \/
               \E ms \in Milestones :
                   /\ Satisfied(rows', wf', j.t)
                   /\ r = ReceiptOf(rows', wf', j.t, ms)
                   /\ ReceiptOf(rows', wf', j.t, "integration") \in receipts'
  <2>1. CASE receipts' = receipts
    BY <2>1
  <2>2. CASE receipts' # receipts
    <3>1. receipts' = receipts \cup Issued(rows', wf', j.t)
      BY <1>1, <2>2
    <3>2. Satisfied(rows', wf', j.t)
      BY <2>2, <3>1 DEF Issued
    <3>3. /\ ReceiptOf(rows', wf', j.t, "integration") \in Issued(rows', wf', j.t)
          /\ \A r \in Issued(rows', wf', j.t) :
                r \in {ReceiptOf(rows', wf', j.t, "integration"), ReceiptOf(rows', wf', j.t, "fulfilled")}
      BY <2>2, <3>1 DEF Issued
    <3> QED BY <3>1, <3>2, <3>3 DEF Milestones
  <2> QED BY <2>1, <2>2
<1>10. receipts' \subseteq Receipt
  <2>1. wf'[j.t] \in Workflow /\ wf'[j.t].rev \in Nat /\ wf'[j.t].att \in Nat
    BY <1>3, <1>5, WorkflowType
  <2>2. Digest(rows', wf', j.t) \subseteq Proof
    <3>1. \A i \in Bound(rows', wf', j.t) :
             i \in BindIds /\ rows'[i].ev.head \in Nat /\ rows'[i].ev.merged \in BOOLEAN
      BY <1>6 DEF Bound, Binding, Evidence
    <3> QED BY <3>1 DEF Digest, Proof
  <2>3. \A ms \in Milestones : ReceiptOf(rows', wf', j.t, ms) \in Receipt
    BY <1>3, <2>1, <2>2 DEF ReceiptOf, Receipt
  <2>4. receipts \subseteq Receipt
    BY DEF IInv, TypeOK
  <2> QED BY <1>9, <2>3, <2>4
<1>11. TypeOK'
  BY <1>1, <1>5, <1>7, <1>8, <1>10 DEF IInv, TypeOK
<1>12. Evolves
  BY <1>1, <1>2, <1>5, <1>6, ForgeStays DEF IInv, Evolves, SameGenerations, ForgeEvolves
<1>13. RowsOK'
  <2> SUFFICES ASSUME NEW i \in BindIds, rows'[i].t # None
               PROVE  /\ rows'[i].pr \in PRs
                      /\ rows'[i].rev \in 1 .. wf'[rows'[i].t].rev
                      /\ rows'[i].key \in contracts'[rows'[i].t][rows'[i].rev].keys
                      /\ Shown(prs', rows'[i].ev, rows'[i].pr)
    BY DEF RowsOK
  <2>1. rows[i].t # None
    BY <1>6 DEF SameRow
  <2>2. CASE i = j.sub /\ j.got = "ok"
    <3>1. Shown(prs, j.ev, rows[i].pr)
      BY <1>3, <2>2 DEF JobOK
    <3>2. /\ rows[i].pr \in PRs /\ rows[i].rev \in 1 .. wf[rows[i].t].rev
          /\ rows[i].key \in contracts[rows[i].t][rows[i].rev].keys
      BY <2>1 DEF IInv, RowsOK
    <3>3. wf'[rows[i].t].rev = wf[rows[i].t].rev
      BY <1>2, <1>5, <2>1 DEF SameGenerations, Binding
    <3> QED BY <1>1, <1>6, <2>2, <3>1, <3>2, <3>3 DEF SameRow
  <2>3. CASE ~(i = j.sub /\ j.got = "ok")
    BY <1>6, <1>11, <1>12, <2>1, <2>3, RowsKept DEF IInv
  <2> QED BY <2>2, <2>3
<1>14. JobsOK'
  <2>1. \A q \in Observers : \A k \in obs'[q].jobs :
           (\E m \in obs[q].jobs : Continues(k, m)) /\ (k.same => k.sub # j.sub)
    BY <1>8, MovedContinues DEF IInv
  <2> QED BY <1>1, <1>6, <1>11, <1>12, <2>1, JobsContinue
<1>15. RevsOK' /\ DispositionAgrees' /\ TokensOK'
  <2>1. RevsOK' /\ DispositionAgrees'
    BY <1>1, <1>5 DEF IInv, RevsOK, DispositionAgrees, SameGenerations
  <2> QED BY <1>1, <1>5, <1>11, <2>1, TokensRoutine
<1>16. ReceiptsInv'
  <2>1. wf'[j.t].rev > 0
    BY <1>3, <1>4, <1>5 DEF SameGenerations
  <2>2. \A r \in receipts' : r \in receipts \/
               \E u \in Tickets, ms \in Milestones :
                   /\ wf'[u].rev > 0 /\ Satisfied(rows', wf', u)
                   /\ r = ReceiptOf(rows', wf', u, ms)
                   /\ ReceiptOf(rows', wf', u, "integration") \in receipts'
    BY <1>3, <1>9, <2>1
  <2> QED BY <1>1, <1>9, <1>11, <1>12, <1>13, <1>15, <2>2, ReceiptsIssued
<1>17. FulfilledIsProven'
  <2>1. ASSUME NEW u \in Tickets, u # j.t PROVE SameDelivery(u)
    <3>1. ASSUME NEW i \in BindIds, rows[i].t = u \/ rows'[i].t = u
          PROVE  SameRow(i) /\ rows'[i].active = rows[i].active /\ rows'[i].ev = rows[i].ev
      <4>1. i # j.sub
        BY <1>3, <1>6, <2>1, <3>1 DEF JobOK, SameRow
      <4> QED BY <1>6, <4>1
    <3> QED BY <1>5, <3>1 DEF SameDelivery, SameGenerations
  <2> QED BY <1>1, <1>4, <1>5, <1>9, <2>1, FulfilledKept DEF IInv, SameGenerations
<1>18. RefreshStaysQueued'
  <2> SUFFICES ASSUME NEW s \in Subjects, asked[s]
               PROVE  IF s \in Tickets THEN wf'[s].ctxDue ELSE rows'[s].due
    BY <1>1 DEF RefreshStaysQueued
  <2>1. IF s \in Tickets THEN wf[s].ctxDue ELSE rows[s].due
    BY DEF IInv, RefreshStaysQueued
  <2>2. s = j.sub => due
    BY <1>3 DEF JobOK, due
  <2> QED BY <1>5, <1>6, <2>1, <2>2 DEF Subjects
<1> QED BY <1>11, <1>13, <1>14, <1>15, <1>16, <1>17, <1>18 DEF IInv, ReceiptsInv
-----------------------------------------------------------------------------
(* Steps that start a generation or end a contract.                        *)

\* A contract starts a new revision, whose receipts do not exist yet.
LEMMA ContractStep ==
    ASSUME IInv, NEW t \in Tickets, NEW offer \in Offers, SetContract(t, offer)
    PROVE  IInv'
<1> DEFINE c == [keys |-> offer.keys, mode |-> offer.mode, ctx |-> offer.ctx,
                 deps |-> {[t |-> u[1], rev |-> wf[u[1]].rev, att |-> wf[u[1]].att, ms |-> u[2]] :
                           u \in offer.ups}]
           n == wf[t].rev + 1
<1>1. /\ UNCHANGED <<status, rows, receipts, token, prs, lock, asked, faults>>
      /\ status[t] # "closed" /\ wf[t].rev < MaxRev
      /\ wf[t].rev = 0 => status[t] \in {"open", "in_progress"}
      /\ wf' = [wf EXCEPT ![t] = Amended(wf[t])]
      /\ contracts' = [contracts EXCEPT ![t][n] = c]
      /\ obs' = Moved({t}, {t})
  BY DEF SetContract
<1>2. /\ wf \in [Tickets -> Workflow] /\ wf[t] \in Workflow /\ obs \in [Observers -> Observer]
      /\ \A u \in Tickets : wf[u].epoch \in Nat /\ wf[u].rev \in Nat /\ wf[u].att \in Nat
      /\ contracts \in [Tickets -> [Revs -> Contract]]
  BY WorkflowType DEF IInv, TypeOK
<1>3. n \in Revs /\ n \in Nat /\ n > 0 /\ n <= MaxRev /\ n \notin 1 .. wf[t].rev
  BY <1>1, <1>2, DeliveryAssumption DEF Revs
<1>4. c \in Contract
  <2>1. /\ offer.keys \subseteq Keys /\ offer.mode \in {"automatic", "explicit"}
        /\ offer.ctx \in BOOLEAN /\ offer.ups \subseteq Tickets \X Milestones
    BY DeliveryAssumption
  <2>2. c.deps \subseteq Dependency
    BY <1>2, <2>1 DEF Dependency
  <2> QED BY <2>1, <2>2 DEF Contract
<1> HIDE DEF c, n
<1>5. /\ contracts' \in [Tickets -> [Revs -> Contract]]
      /\ \A u \in Tickets : \A r \in 1 .. wf[u].rev : contracts'[u][r] = contracts[u][r]
  BY <1>1, <1>2, <1>3, <1>4
<1>6. /\ wf' \in [Tickets -> Workflow] /\ wf'[t] = Amended(wf[t])
      /\ \A u \in Tickets \ {t} : wf'[u] = wf[u]
      /\ wf'[t].rev = n /\ wf'[t].ctxDue = TRUE
      /\ wf[t].rev = 0 => wf'[t].disp = "active"
      /\ wf[t].rev # 0 => wf'[t].disp = wf[t].disp /\ wf'[t].epoch = wf[t].epoch + 1
  <2>1. wf'[t] = Amended(wf[t]) /\ (\A u \in Tickets \ {t} : wf'[u] = wf[u])
    BY <1>1, <1>2
  <2>2. /\ Amended(wf[t]) \in Workflow /\ Amended(wf[t]).rev = n /\ Amended(wf[t]).ctxDue = TRUE
        /\ wf[t].rev = 0 => Amended(wf[t]).disp = "active"
        /\ wf[t].rev # 0 => Amended(wf[t]).disp = wf[t].disp /\ Amended(wf[t]).epoch = wf[t].epoch + 1
    BY <1>2, AmendedFacts DEF n
  <2>3. wf' \in [Tickets -> Workflow]
    BY <1>1, <1>2, <2>2
  <2> QED BY <2>1, <2>2, <2>3
<1>7. TypeOK'
  BY <1>1, <1>2, <1>5, <1>6, MovedFacts DEF IInv, TypeOK
<1>8. \A u \in Tickets : wf[u].rev <= wf'[u].rev
  BY <1>2, <1>6 DEF n
<1>9. Evolves
  BY <1>1, <1>5, <1>8, ForgeStays DEF IInv, Evolves, SameRow, ForgeEvolves
<1>10. RevsOK'
  BY <1>3, <1>6 DEF IInv, RevsOK
<1>11. RowsOK'
  <2> SUFFICES ASSUME NEW i \in BindIds, rows'[i].t # None
               PROVE  /\ rows'[i].pr \in PRs
                      /\ rows'[i].rev \in 1 .. wf'[rows'[i].t].rev
                      /\ rows'[i].key \in contracts'[rows'[i].t][rows'[i].rev].keys
                      /\ Shown(prs', rows'[i].ev, rows'[i].pr)
    BY DEF RowsOK
  <2> QED BY <1>1, <1>7, <1>9, RowsKept DEF IInv
<1>12. JobsOK'
  <2>1. \A o \in Observers : \A m \in obs'[o].jobs : \E j \in obs[o].jobs : Continues(m, j)
    BY <1>1, MovedContinues DEF IInv
  <2> QED BY <1>1, <1>7, <1>9, <2>1, JobsContinue
<1>13. TokensOK'
  <2>1. \A u \in Tickets : wf[u].rev > 0 =>
               /\ wf[u].rev <= wf'[u].rev /\ wf[u].epoch <= wf'[u].epoch
               /\ wf'[u].epoch = wf[u].epoch =>
                     /\ wf'[u].rev = wf[u].rev /\ wf'[u].att = wf[u].att
                     /\ wf[u].disp = "active" => wf'[u].disp = "active"
    BY <1>2, <1>6, <1>8
  <2> QED BY <1>1, <1>7, <2>1, TokensKept DEF IInv
<1>14. ReceiptsInv'
  BY <1>1, <1>7, <1>9, ReceiptsKept DEF IInv, ReceiptsInv
<1>15. DispositionAgrees'
  <2>1. \A u \in Tickets \ {t} : wf'[u] = wf[u] /\ status'[u] = status[u]
    BY <1>1, <1>6
  <2>2. CASE wf[t].rev = 0
    BY <1>1, <1>6, <2>1, <2>2 DEF IInv, DispositionAgrees
  <2>3. CASE wf[t].rev # 0
    <3>1. wf[t].rev > 0 /\ wf'[t].disp = wf[t].disp
      BY <1>2, <1>6, <2>3
    <3> QED BY <1>1, <2>1, <3>1 DEF IInv, DispositionAgrees
  <2> QED BY <2>2, <2>3
<1>16. FulfilledIsProven'
  <2>1. \A u \in Tickets \ {t} : SameDelivery(u)
    BY <1>1, <1>6 DEF SameDelivery, SameRow
  <2>2. wf'[t].disp = "fulfilled" => wf[t].disp = "fulfilled"
    BY <1>6
  <2> QED BY <1>1, <1>6, <2>1, <2>2, FulfilledKept DEF IInv
<1>17. RefreshStaysQueued'
  BY <1>1, <1>6 DEF IInv, RefreshStaysQueued
<1> QED BY <1>7, <1>10, <1>11, <1>12, <1>13, <1>14, <1>15, <1>16, <1>17 DEF IInv, ReceiptsInv

\* What a ticket action does to the contract, whatever the kind of ticket.
LEMMA RuleFacts ==
    ASSUME NEW t \in Tickets, NEW rule \in Rules(t), rule[1] = status[t]
    PROVE  LET act == rule[2]
               to == rule[3]
               disp == NewDisposition(t, act, to)
           IN  /\ to \in Statuses /\ disp \in Dispositions /\ status[t] # "closed"
               /\ disp = "active" => to \in {"open", "in_progress", "resolved"}
               /\ disp = "wontfix" => to \in {"wontfix", "closed"}
               /\ disp \in {"cancelled", "fulfilled"} => to = "closed"
               /\ act = "reopen" => disp = "active"
               /\ disp = "fulfilled" => /\ Completing(t, act)
                                        /\ act # "resolve_pending" /\ ~(act = "resolve" /\ t \notin Self)
<1> DEFINE act == rule[2]
           to == rule[3]
           disp == NewDisposition(t, act, to)
<1>1. CASE t \notin Self
  <2>1. rule \in Transitions
    BY <1>1 DEF Rules
  <2> QED BY <1>1, <2>1 DEF Transitions, NewDisposition, Completing, Statuses, Dispositions
<1>2. CASE t \in Self
  <2>1. \/ rule \in Transitions /\ rule[2] \in {"start", "confirm", "reopen", "cancel"}
        \/ /\ rule[1] \in {"open", "in_progress"} /\ rule[2] \in {"resolve", "wontfix"}
           /\ rule[3] = "closed"
        \/ /\ rule[1] \in {"open", "in_progress"} /\ rule[2] = "resolve_pending"
           /\ rule[3] = "resolved"
    BY <1>2 DEF Rules, SelfTransitions
  <2>2. CASE rule \in Transitions /\ rule[2] \in {"start", "confirm", "reopen", "cancel"}
    BY <2>2 DEF Transitions, NewDisposition, Completing, Statuses, Dispositions
  <2>3. CASE /\ rule[1] \in {"open", "in_progress"} /\ rule[2] \in {"resolve", "wontfix"}
             /\ rule[3] = "closed"
    BY <1>2, <2>3 DEF NewDisposition, Completing, Statuses, Dispositions
  <2>4. CASE /\ rule[1] \in {"open", "in_progress"} /\ rule[2] = "resolve_pending"
             /\ rule[3] = "resolved"
    BY <2>4 DEF NewDisposition, Completing, Statuses, Dispositions
  <2> QED BY <2>1, <2>2, <2>3, <2>4
<1> QED BY <1>1, <1>2

\* A status transition completes a delivery only when it may.
LEMMA TransitionStep ==
    ASSUME IInv, NEW t \in Tickets, NEW rule \in Rules(t), Transition(t, rule)
    PROVE  IInv'
<1> DEFINE act == rule[2]
           to == rule[3]
           disp == NewDisposition(t, act, to)
           reopen == act = "reopen"
<1>1. /\ UNCHANGED <<contracts, receipts, token, prs, lock, asked, faults>>
      /\ rule[1] = status[t] /\ status' = [status EXCEPT ![t] = to]
      /\ IF wf[t].rev = 0
         THEN UNCHANGED <<wf, rows, obs>>
         ELSE /\ Completing(t, act) => MayComplete(t, act)
              /\ wf' = [wf EXCEPT ![t] = Mutated(wf[t], disp, reopen)]
              /\ rows' = [i \in BindIds |->
                    IF reopen /\ rows[i].t = t THEN [rows[i] EXCEPT !.active = FALSE] ELSE rows[i]]
              /\ obs' = IF reopen THEN Moved({t}, {t}) ELSE obs
  BY DEF Transition
<1>2. /\ to \in Statuses /\ disp \in Dispositions /\ status[t] # "closed"
      /\ disp = "active" => to \in {"open", "in_progress", "resolved"}
      /\ disp = "wontfix" => to \in {"wontfix", "closed"}
      /\ disp \in {"cancelled", "fulfilled"} => to = "closed"
      /\ reopen => disp = "active"
      /\ disp = "fulfilled" => /\ Completing(t, act)
                               /\ act # "resolve_pending" /\ ~(act = "resolve" /\ t \notin Self)
  BY <1>1, RuleFacts
<1>3. disp = "fulfilled" /\ wf[t].rev # 0 => ReceiptOf(rows, wf, t, "fulfilled") \in receipts
  BY <1>1, <1>2 DEF MayComplete, Has
<1>4. /\ wf \in [Tickets -> Workflow] /\ wf[t] \in Workflow /\ rows \in [BindIds -> Binding]
      /\ obs \in [Observers -> Observer] /\ status \in [Tickets -> Statuses]
      /\ \A u \in Tickets : wf[u].epoch \in Nat /\ wf[u].rev \in Nat /\ wf[u].att \in Nat
  BY WorkflowType DEF IInv, TypeOK
<1> HIDE DEF act, to, disp, reopen
<1>5. /\ status' \in [Tickets -> Statuses] /\ status'[t] = to
      /\ \A u \in Tickets \ {t} : status'[u] = status[u]
  BY <1>1, <1>2, <1>4
<1>6. /\ wf' \in [Tickets -> Workflow]
      /\ \A u \in Tickets \ {t} : wf'[u] = wf[u]
      /\ wf'[t].rev = wf[t].rev
      /\ wf'[t].disp = IF wf[t].rev = 0 THEN "active" ELSE disp
      /\ ~reopen \/ wf[t].rev = 0 => wf'[t].att = wf[t].att
      /\ wf[t].ctxDue => wf'[t].ctxDue
      /\ wf[t].epoch <= wf'[t].epoch
      /\ wf[t].rev # 0 /\ wf'[t].epoch = wf[t].epoch => ~reopen /\ disp = "active"
  <2>1. CASE wf[t].rev = 0
    BY <1>1, <1>4, <2>1 DEF IInv, RevsOK
  <2>2. CASE wf[t].rev # 0
    <3> DEFINE w == Mutated(wf[t], disp, reopen)
    <3>1. reopen \in BOOLEAN /\ disp \in Dispositions /\ wf[t] \in Workflow
      BY <1>2, <1>4 DEF reopen
    <3>2. /\ w \in Workflow /\ w.rev = wf[t].rev /\ w.disp = disp
          /\ ~reopen => w.att = wf[t].att /\ w.ctxDue = wf[t].ctxDue
          /\ reopen => w.ctxDue = TRUE
          /\ IF reopen \/ disp # "active" THEN w.epoch = wf[t].epoch + 1 ELSE w.epoch = wf[t].epoch
      <4>1. CASE reopen
        <5>1. reopen = TRUE /\ w = Mutated(wf[t], disp, TRUE)
          BY <3>1, <4>1
        <5> QED BY <3>1, <5>1, MutatedFacts
      <4>2. CASE ~reopen
        <5>1. reopen = FALSE /\ w = Mutated(wf[t], disp, FALSE)
          BY <3>1, <4>2
        <5> QED BY <3>1, <5>1, MutatedFacts
      <4> QED BY <4>1, <4>2
    <3>3. wf' = [wf EXCEPT ![t] = w]
      BY <1>1, <2>2
    <3> HIDE DEF w
    <3>4. wf' \in [Tickets -> Workflow] /\ wf'[t] = w /\ \A u \in Tickets \ {t} : wf'[u] = wf[u]
      BY <1>4, <3>2, <3>3
    <3>5. wf[t].epoch \in Nat
      BY <1>4
    <3>6. wf[t].epoch <= w.epoch /\ (w.epoch = wf[t].epoch => ~reopen /\ disp = "active")
      BY <3>1, <3>2, <3>5
    <3>7. wf[t].ctxDue => w.ctxDue
      BY <3>2
    <3> QED BY <2>2, <3>2, <3>4, <3>6, <3>7
  <2> QED BY <2>1, <2>2
<1>7. ASSUME NEW i \in BindIds
      PROVE  /\ rows'[i] \in Binding /\ SameRow(i) /\ rows'[i].ev = rows[i].ev
             /\ rows'[i].due = rows[i].due
             /\ ~reopen \/ wf[t].rev = 0 \/ rows[i].t # t => rows'[i].active = rows[i].active
  <2> DEFINE c == [rows[i] EXCEPT !.active = FALSE]
  <2>1. /\ rows[i] \in Binding
        /\ rows'[i] = IF wf[t].rev # 0 /\ reopen /\ rows[i].t = t THEN c ELSE rows[i]
    BY <1>1, <1>4
  <2>2. c \in Binding
    BY <2>1, BindingUpdates
  <2>3. /\ c.t = rows[i].t /\ c.rev = rows[i].rev /\ c.att = rows[i].att /\ c.key = rows[i].key
        /\ c.pr = rows[i].pr /\ c.ev = rows[i].ev /\ c.due = rows[i].due
    BY <2>1 DEF Binding
  <2> HIDE DEF c
  <2> QED BY <2>1, <2>2, <2>3 DEF SameRow
<1>8. rows' \in [BindIds -> Binding]
  BY <1>1, <1>4, <1>7
<1>9. /\ obs' \in [Observers -> Observer]
      /\ \A o \in Observers : \A m \in obs'[o].jobs : \E j \in obs[o].jobs : Continues(m, j)
  <2>1. CASE obs' = obs
    BY <1>4, <2>1 DEF Continues
  <2>2. CASE obs' = Moved({t}, {t})
    BY <1>4, <2>2, MovedFacts, MovedContinues DEF IInv
  <2> QED BY <1>1, <2>1, <2>2
<1>10. TypeOK'
  BY <1>1, <1>5, <1>6, <1>8, <1>9 DEF IInv, TypeOK
<1>11. Evolves
  <2>1. \A u \in Tickets : wf[u].rev <= wf'[u].rev
    BY <1>4, <1>6
  <2> QED BY <1>1, <1>7, <2>1, ForgeStays DEF IInv, Evolves, ForgeEvolves
<1>12. RowsOK'
  <2> SUFFICES ASSUME NEW i \in BindIds, rows'[i].t # None
               PROVE  /\ rows'[i].pr \in PRs
                      /\ rows'[i].rev \in 1 .. wf'[rows'[i].t].rev
                      /\ rows'[i].key \in contracts'[rows'[i].t][rows'[i].rev].keys
                      /\ Shown(prs', rows'[i].ev, rows'[i].pr)
    BY DEF RowsOK
  <2>1. rows[i].t # None /\ rows'[i].ev = rows[i].ev
    BY <1>7 DEF SameRow
  <2> QED BY <1>10, <1>11, <2>1, RowsKept DEF IInv
<1>13. JobsOK'
  <2>1. \A o \in Observers : \A k \in obs'[o].jobs : \E j \in obs[o].jobs :
           /\ Continues(k, j)
           /\ k.same /\ k.sub \in BindIds => rows'[k.sub].ev = rows[k.sub].ev
           /\ asked'[k.sub] => asked[k.sub] \/ ~k.sameDue
    BY <1>1, <1>7, <1>9
  <2> QED BY <1>10, <1>11, <2>1, JobsContinue
<1>14. TokensOK'
  <2>1. \A u \in Tickets : wf[u].rev > 0 =>
               /\ wf[u].rev <= wf'[u].rev /\ wf[u].epoch <= wf'[u].epoch
               /\ wf'[u].epoch = wf[u].epoch =>
                     /\ wf'[u].rev = wf[u].rev /\ wf'[u].att = wf[u].att
                     /\ wf[u].disp = "active" => wf'[u].disp = "active"
    BY <1>4, <1>6
  <2> QED BY <1>1, <1>10, <2>1, TokensKept DEF IInv
<1>15. RevsOK' /\ DispositionAgrees'
  <2>1. RevsOK'
    BY <1>4, <1>6 DEF IInv, RevsOK
  <2>2. wf'[t].rev > 0 => wf'[t].disp = disp
    BY <1>6
  <2>3. DispositionAgrees'
    BY <1>2, <1>5, <1>6, <2>2 DEF IInv, DispositionAgrees, Dispositions
  <2> QED BY <2>1, <2>3
<1>16. ReceiptsInv'
  BY <1>1, <1>10, <1>11, ReceiptsKept DEF IInv, ReceiptsInv
<1>17. ASSUME NEW u \in Tickets, u # t \/ ~reopen PROVE SameDelivery(u)
  BY <1>6, <1>7, <1>17 DEF SameDelivery, SameRow
<1>18. FulfilledIsProven'
  <2> SUFFICES ASSUME NEW u \in Tickets, wf'[u].disp = "fulfilled"
               PROVE  /\ status'[u] = "closed"
                      /\ ReceiptOf(rows', wf', u, "fulfilled") \in receipts
                      /\ ReceiptOf(rows', wf', u, "integration") \in receipts
    BY <1>1 DEF FulfilledIsProven, Has
  <2>1. CASE u # t
    <3>1. /\ status[u] = "closed" /\ ReceiptOf(rows, wf, u, "fulfilled") \in receipts
          /\ ReceiptOf(rows, wf, u, "integration") \in receipts
      BY <1>6, <2>1 DEF IInv, FulfilledIsProven, Has
    <3> QED BY <1>5, <1>17, <2>1, <3>1, SameReceipt
  <2>2. CASE u = t
    <3>1. wf[t].rev # 0 /\ disp = "fulfilled" /\ ~reopen /\ to = "closed"
      BY <1>2, <1>6, <2>2
    <3> DEFINE r == ReceiptOf(rows, wf, t, "fulfilled")
    <3>2. r \in receipts
      BY <1>3, <3>1
    <3>3. [r EXCEPT !.ms = "integration"] = ReceiptOf(rows, wf, t, "integration")
      BY DEF ReceiptOf
    <3>4. ReceiptOf(rows, wf, t, "integration") \in receipts
      <4>1. [r EXCEPT !.ms = "integration"] \in receipts
        BY <3>2 DEF IInv, ReceiptsOK
      <4> QED BY <3>3, <4>1
    <3> QED BY <1>5, <1>17, <2>2, <3>1, <3>2, <3>4, SameReceipt
  <2> QED BY <2>1, <2>2
<1>19. RefreshStaysQueued'
  <2> SUFFICES ASSUME NEW s \in Subjects, asked[s]
               PROVE  IF s \in Tickets THEN wf'[s].ctxDue ELSE rows'[s].due
    BY <1>1 DEF RefreshStaysQueued
  <2>1. IF s \in Tickets THEN wf[s].ctxDue ELSE rows[s].due
    BY DEF IInv, RefreshStaysQueued
  <2> QED BY <1>6, <1>7, <2>1 DEF Subjects
<1> QED BY <1>10, <1>12, <1>13, <1>14, <1>15, <1>16, <1>18, <1>19 DEF IInv, ReceiptsInv
-----------------------------------------------------------------------------
(* The theorems.                                                           *)

\* Nothing is there yet.
LEMMA InitIInv == ASSUME Init PROVE IInv
<1>1. /\ NoWorkflow \in Workflow /\ NoWorkflow.rev = 0 /\ NoWorkflow.disp = "active"
      /\ NoContract \in Contract
      /\ NoBinding \in Binding /\ NoBinding.t = None
  BY DEF NoWorkflow, Workflow, Dispositions, NoContract, Contract, NoBinding, Binding,
         NoEvidence, Evidence
<1>2. [head |-> 1, merged |-> FALSE, green |-> FALSE] \in Evidence
  BY DEF Evidence
<1>3. [st |-> "new", conn |-> FALSE, jobs |-> {}] \in Observer
  BY DEF Observer
<1>4. TypeOK
  <2>1. /\ status \in [Tickets -> Statuses] /\ wf \in [Tickets -> Workflow]
        /\ contracts \in [Tickets -> [Revs -> Contract]] /\ rows \in [BindIds -> Binding]
    BY <1>1 DEF Init, Statuses
  <2>2. /\ receipts \subseteq Receipt /\ token \in [Agents -> Token \cup {None}]
        /\ prs \in [PRs -> Evidence] /\ lock \in Observers \cup {None}
        /\ obs \in [Observers -> Observer]
    BY <1>2, <1>3 DEF Init
  <2>3. asked \in [Subjects -> BOOLEAN] /\ faults \in 0 .. MaxFaults
    BY DeliveryAssumption DEF Init
  <2> QED BY <2>1, <2>2, <2>3 DEF TypeOK
<1>5. RevsOK /\ RowsOK /\ DispositionAgrees /\ FulfilledIsProven
  <2>1. \A t \in Tickets : wf[t].rev = 0 /\ wf[t].disp = "active"
    BY <1>1 DEF Init
  <2>2. \A i \in BindIds : rows[i].t = None
    BY <1>1 DEF Init
  <2>3. RevsOK
    BY <2>1, DeliveryAssumption DEF RevsOK
  <2>4. RowsOK
    BY <2>2 DEF RowsOK
  <2>5. DispositionAgrees
    <3>1. \A t \in Tickets : ~(wf[t].rev > 0)
      BY <2>1
    <3> QED BY <3>1 DEF DispositionAgrees
  <2>6. FulfilledIsProven
    BY <2>1 DEF FulfilledIsProven
  <2> QED BY <2>3, <2>4, <2>5, <2>6
<1>6. JobsOK /\ TokensOK /\ ReceiptsOK /\ ReceiptsAreTrue /\ ReceiptsFollowDependencies
  BY DEF Init, JobsOK, TokensOK, ReceiptsOK, ReceiptsAreTrue, ReceiptsFollowDependencies
<1>7. RefreshStaysQueued
  BY DEF Init, RefreshStaysQueued
<1> QED BY <1>4, <1>5, <1>6, <1>7 DEF IInv

\* One step per action.
LEMMA NextIInv == ASSUME IInv, [Next]_vars PROVE IInv'
<1>1. CASE UNCHANGED vars
  <2>1. /\ UNCHANGED <<status, wf, contracts, rows, receipts, token>>
        /\ UNCHANGED <<prs, lock, obs, asked, faults>>
    BY <1>1 DEF vars
  <2>2. ForgeEvolves
    BY <2>1, ForgeStays DEF IInv
  <2>5. TypeOK'
    BY <2>1 DEF IInv, TypeOK
  <2>3. Evolves
    BY <2>1, <2>2, AsideEvolves DEF IInv
  <2>4. JobsOK' /\ RefreshStaysQueued'
    BY <2>1, <2>5, <2>3, JobsKept DEF IInv, RefreshStaysQueued
  <2> QED BY <2>1, <2>2, <2>4, <2>5, Aside
<1>2. ASSUME NEW t \in Tickets, NEW offer \in Offers, SetContract(t, offer) PROVE IInv'
  BY <1>2, ContractStep
<1>3. ASSUME NEW t \in Tickets, NEW k \in Keys, NEW p \in PRs, NEW i \in BindIds, BindPr(t, k, p, i)
      PROVE  IInv'
  BY <1>3, BindStep
<1>4. ASSUME NEW t \in Tickets, NEW a \in Agents, AcquireClaim(a, t) PROVE IInv'
  BY <1>4, AcquireStep
<1>5. ASSUME NEW t \in Tickets, NEW rule \in Rules(t), Transition(t, rule) PROVE IInv'
  BY <1>5, TransitionStep
<1>6. ASSUME NEW t \in Tickets, Refresh(t) \/ ClaimExpires(t) \/ Accept(t) PROVE IInv'
  BY <1>6, RefreshStep, ClaimEndStep, AcceptStep
<1>7. ASSUME NEW a \in Agents, ReleaseClaim(a) PROVE IInv'
  BY <1>7, ClaimEndStep
<1>8. ASSUME NEW o \in Observers,
             \/ AcquireOwnership(o) \/ Disconnect(o) \/ LoseOwnership(o)
             \/ ReleaseOwnership(o) \/ Restart(o)
      PROVE  IInv'
  BY <1>8, OwnershipStep
<1>9. ASSUME NEW o \in Observers, NEW S \in SUBSET Subjects, Capture(o, S) PROVE IInv'
  BY <1>9, CaptureStep
<1>10. ASSUME NEW o \in Observers, NEW j \in obs[o].jobs, Collect(o, j) \/ Publish(o, j) \/ Defer(o, j)
       PROVE  IInv'
  BY <1>10, CollectStep, PublishStep, OwnershipStep
<1>11. ASSUME NEW s \in Subjects, DueElapses(s) \/ GoesStale(s) PROVE IInv'
  BY <1>11, TimeStep
<1>12. ASSUME NEW p \in PRs, Push(p) \/ Review(p) \/ Merge(p) PROVE IInv'
  BY <1>12, ForgeStep
<1> QED BY <1>1, <1>2, <1>3, <1>4, <1>5, <1>6, <1>7, <1>8, <1>9, <1>10, <1>11, <1>12 DEF Next

\* The invariant is inductive: it holds of every reachable state.
THEOREM InvariantHolds == Spec => []IInv
BY InitIInv, NextIInv, PTL DEF Spec

\* Every table keeps its columns' types.
THEOREM TypeCorrect == Spec => []TypeOK
<1>1. IInv => TypeOK
  BY DEF IInv
<1> QED BY <1>1, InvariantHolds, PTL

\* However contracts are amended, deliveries rebound or reopened and
\* collections delayed: a receipt (_issue_integration_receipt_under_scope,
\* accept) certifies a complete delivery of the generation it names, merged at
\* the forge at the certified head.
THEOREM ReceiptsTheorem == Spec => []ReceiptsAreTrue
<1>1. IInv => ReceiptsAreTrue
  BY DEF IInv
<1> QED BY <1>1, InvariantHolds, PTL

\* The receipt of every upstream milestone that a revision pins precedes the
\* receipts of that revision (_dependency_findings).
THEOREM DependenciesTheorem == Spec => []ReceiptsFollowDependencies
<1>1. IInv => ReceiptsFollowDependencies
  BY DEF IInv
<1> QED BY <1>1, InvariantHolds, PTL

\* A ticket that ended as fulfilled stays closed, and the receipts of its
\* current generation and delivery are there (guard_delivery_transition).
THEOREM FulfilledTheorem == Spec => []FulfilledIsProven
<1>1. IInv => FulfilledIsProven
  BY DEF IInv
<1> QED BY <1>1, InvariantHolds, PTL

\* Ticket status and contract disposition never contradict each other
\* (guard_delivery_transition, DeliveryTransitionMutation.apply).
THEOREM DispositionTheorem == Spec => []DispositionAgrees
<1>1. IInv => DispositionAgrees
  BY DEF IInv
<1> QED BY <1>1, InvariantHolds, PTL

\* A claim that the server honours is for the current generation of an
\* active contract (claim_epoch, _validate_live_claim): an epoch that stays
\* current pins the generation it was given for.
THEOREM ClaimsTheorem == Spec => []ClaimsFenced
<1>1. IInv => ClaimsFenced
  <2> SUFFICES ASSUME IInv, NEW a \in Agents, ClaimAccepted(a)
               PROVE  /\ wf[token[a].t].rev = token[a].rev /\ wf[token[a].t].att = token[a].att
                      /\ wf[token[a].t].disp = "active"
    BY DEF ClaimsFenced
  <2>1. token[a] # None /\ wf[token[a].t].epoch = token[a].epoch
    BY DEF ClaimAccepted
  <2> QED BY <2>1 DEF IInv, TokensOK, TokenOK
<1> QED BY <1>1, InvariantHolds, PTL

\* A refresh that no collection picked up keeps its subject due, also when
\* an older collection is published after it (schedule_after).
THEOREM RefreshTheorem == Spec => []RefreshStaysQueued
<1>1. IInv => RefreshStaysQueued
  BY DEF IInv
<1> QED BY <1>1, InvariantHolds, PTL
-----------------------------------------------------------------------------
(* Evidence only moves forward.                                            *)

Forward == \A i \in BindIds : /\ rows[i].ev.head <= rows'[i].ev.head
                              /\ rows[i].ev.merged => rows'[i].ev.merged

\* A step that writes no evidence moves none backward.
LEMMA SameEvidence ==
    ASSUME TypeOK, \A i \in BindIds : rows'[i].ev = rows[i].ev
    PROVE  Forward
<1>1. \A i \in BindIds : rows[i].ev.head \in Nat
  BY DEF TypeOK, Binding, Evidence
<1> QED BY <1>1 DEF Forward

\* A job that may be published saw what its row holds, or something later.
LEMMA PublishForward ==
    ASSUME IInv, NEW o \in Observers, NEW j \in obs[o].jobs, Publish(o, j)
    PROVE  Forward
<1>1. j.same /\ j.got # "no" /\ rows' = ObservedRows(j)
  BY DEF Publish, Publishable
<1>2. rows \in [BindIds -> Binding] /\ \A i \in BindIds : rows[i] \in Binding
  BY DEF IInv, TypeOK
<1>3. j \in Job /\ j.sub \in Subjects /\ JobOK(j) /\ j.got \in {"no", "ok", "error"}
  BY DEF IInv, TypeOK, Observer, Job, JobsOK
<1>4. CASE j.sub \in Tickets
  BY <1>1, <1>4, SameEvidence DEF IInv, ObservedRows
<1>5. CASE j.sub \notin Tickets
  <2>1. j.sub \in BindIds
    BY <1>3, <1>5 DEF Subjects
  <2> DEFINE b == rows[j.sub]
             due == StillDue(j)
             new == [b EXCEPT !.ev = j.ev, !.err = FALSE, !.fresh = TRUE, !.due = due]
             old == [b EXCEPT !.err = TRUE, !.due = due]
  <2>2. rows' = [rows EXCEPT ![j.sub] = IF j.got = "ok" THEN new ELSE old]
    BY <1>1, <1>5 DEF ObservedRows
  <2>3. b \in Binding
    BY <1>2, <2>1
  <2>4. new.ev = j.ev /\ old.ev = b.ev
    BY <2>3 DEF Binding
  <2> HIDE DEF b, new, old, due
  <2>5. /\ rows'[j.sub].ev = IF j.got = "ok" THEN j.ev ELSE rows[j.sub].ev
        /\ \A i \in BindIds \ {j.sub} : rows'[i].ev = rows[i].ev
    BY <1>2, <2>1, <2>2, <2>4 DEF b
  <2>6. CASE j.got # "ok"
    BY <2>5, <2>6, SameEvidence DEF IInv
  <2>7. CASE j.got = "ok"
    <3>1. /\ rows[j.sub].ev.head <= j.ev.head
          /\ rows[j.sub].ev.merged => j.ev.merged
      BY <1>1, <1>3, <2>1, <2>7 DEF JobOK
    <3>2. \A i \in BindIds : rows[i].ev.head \in Nat
      BY <1>2 DEF Binding, Evidence
    <3> QED BY <2>5, <2>7, <3>1, <3>2 DEF Forward
  <2> QED BY <2>6, <2>7
<1> QED BY <1>4, <1>5

\* Only publishing writes evidence.
LEMMA OthersForward ==
    ASSUME IInv, Next, \A o \in Observers : \A j \in obs[o].jobs : ~Publish(o, j)
    PROVE  Forward
<1>1. /\ rows \in [BindIds -> Binding] /\ TypeOK
      /\ \A i \in BindIds : rows[i] \in Binding
  BY DEF IInv, TypeOK
<1>2. ASSUME NEW b \in Binding
      PROVE  /\ [b EXCEPT !.active = FALSE].ev = b.ev /\ [b EXCEPT !.due = TRUE].ev = b.ev
             /\ [b EXCEPT !.fresh = FALSE].ev = b.ev
             /\ \A t, r, n, k, p : [b EXCEPT !.t = t, !.rev = r, !.att = n, !.key = k, !.pr = p,
                                             !.active = TRUE, !.due = TRUE].ev = b.ev
  BY DEF Binding
<1>3. CASE rows' = rows
  BY <1>1, <1>3, SameEvidence
<1>4. ASSUME NEW t \in Tickets, NEW k \in Keys, NEW p \in PRs, NEW i \in BindIds, BindPr(t, k, p, i)
      PROVE  Forward
  <2> DEFINE new == [NoBinding EXCEPT !.t = t, !.rev = wf[t].rev, !.att = wf[t].att,
                                      !.key = k, !.pr = p, !.active = TRUE, !.due = TRUE]
             off(b) == [rows[b] EXCEPT !.active = FALSE]
  <2>1. /\ rows[i] = NoBinding
        /\ rows' = [b \in BindIds |-> IF b = i THEN new
                                      ELSE IF b \in Replaced(t, k) THEN off(b) ELSE rows[b]]
    BY <1>4 DEF BindPr
  <2>2. new.ev = rows[i].ev /\ \A b \in BindIds : off(b).ev = rows[b].ev
    BY <1>1, <1>2, <2>1
  <2> HIDE DEF new, off
  <2>3. \A b \in BindIds : rows'[b].ev = rows[b].ev
    BY <2>1, <2>2
  <2> QED BY <1>1, <2>3, SameEvidence
<1>5. ASSUME NEW t \in Tickets, Refresh(t) PROVE Forward
  <2> DEFINE S == {t} \cup {i \in BindIds : rows[i].t = t /\ rows[i].active}
             on(b) == [rows[b] EXCEPT !.due = TRUE]
  <2>1. rows' = [i \in BindIds |-> IF i \in S THEN on(i) ELSE rows[i]]
    BY <1>5 DEF Refresh
  <2>2. \A b \in BindIds : on(b).ev = rows[b].ev
    BY <1>1, <1>2
  <2> HIDE DEF S, on
  <2>3. \A b \in BindIds : rows'[b].ev = rows[b].ev
    BY <2>1, <2>2
  <2> QED BY <1>1, <2>3, SameEvidence
<1>6. ASSUME NEW t \in Tickets, NEW rule \in Rules(t), Transition(t, rule) PROVE Forward
  <2> DEFINE off(b) == [rows[b] EXCEPT !.active = FALSE]
  <2>1. \/ rows' = rows
        \/ rows' = [i \in BindIds |->
              IF rule[2] = "reopen" /\ rows[i].t = t THEN off(i) ELSE rows[i]]
    BY <1>6 DEF Transition
  <2>2. \A b \in BindIds : off(b).ev = rows[b].ev
    BY <1>1, <1>2
  <2> HIDE DEF off
  <2>3. \A b \in BindIds : rows'[b].ev = rows[b].ev
    BY <2>1, <2>2
  <2> QED BY <1>1, <2>3, SameEvidence
<1>7. ASSUME NEW s \in Subjects, DueElapses(s) \/ GoesStale(s) PROVE Forward
  <2> DEFINE on == [rows[s] EXCEPT !.due = TRUE]
             stale == [rows[s] EXCEPT !.fresh = FALSE]
  <2>1. \/ rows' = rows
        \/ s \in BindIds /\ (rows' = [rows EXCEPT ![s] = on] \/ rows' = [rows EXCEPT ![s] = stale])
    BY <1>7 DEF DueElapses, GoesStale
  <2>2. s \in BindIds => on.ev = rows[s].ev /\ stale.ev = rows[s].ev
    BY <1>1, <1>2
  <2> HIDE DEF on, stale
  <2>3. \A b \in BindIds : rows'[b].ev = rows[b].ev
    BY <1>1, <2>1, <2>2
  <2> QED BY <1>1, <2>3, SameEvidence
<1>8. \/ rows' = rows
      \/ \E t \in Tickets, k \in Keys, p \in PRs, i \in BindIds : BindPr(t, k, p, i)
      \/ \E t \in Tickets : Refresh(t) \/ \E rule \in Rules(t) : Transition(t, rule)
      \/ \E s \in Subjects : DueElapses(s) \/ GoesStale(s)
  BY DEF Next, SetContract, AcquireClaim, ClaimExpires, Accept, ReleaseClaim, AcquireOwnership,
         Disconnect, LoseOwnership, ReleaseOwnership, Restart, Capture, Collect, Defer,
         Push, Review, Merge
<1> QED BY <1>3, <1>4, <1>5, <1>6, <1>7, <1>8

\* What the forge showed is never forgotten nor replaced by something older,
\* also when observers overtake each other or a collection fails
\* (publish_observation, record_observation_error).
THEOREM EvidenceTheorem == Spec => EvidenceMovesForward
<1>1. IInv /\ [Next]_vars => [Forward]_vars
  BY PublishForward, OthersForward
<1>2. [][Forward]_vars => EvidenceMovesForward
  BY DEF EvidenceMovesForward, Forward
<1> QED BY <1>1, <1>2, InvariantHolds, PTL DEF Spec
-----------------------------------------------------------------------------
(* The dependency graph.                                                   *)

\* Every ticket has a set of tickets that is closed under the dependencies g,
\* holds the ticket's own dependencies and not the ticket.
Acyclic(g) ==
    \A t \in Tickets : \E C \in SUBSET Tickets :
        /\ g[t] \subseteq C /\ t \notin C
        /\ \A v \in C : g[v] \subseteq C

Graph == [t \in Tickets |-> Upstreams(t)]

\* When the edges of t are replaced by edges to S, from where t cannot be
\* reached, no other ticket reaches itself either.
LEMMA EdgesReplaced ==
    ASSUME NEW g, Acyclic(g),
           NEW t \in Tickets, NEW S, NEW D \in SUBSET Tickets,
           S \subseteq D, t \notin D, \A v \in D : g[v] \subseteq D,
           NEW h, h[t] = S, \A u \in Tickets \ {t} : h[u] = g[u]
    PROVE  Acyclic(h)
<1> SUFFICES ASSUME NEW u \in Tickets
             PROVE  \E C \in SUBSET Tickets :
                        /\ h[u] \subseteq C /\ u \notin C
                        /\ \A v \in C : h[v] \subseteq C
  BY DEF Acyclic
<1>1. \A v \in D : h[v] \subseteq D
  OBVIOUS
<1>2. CASE u = t
  BY <1>1, <1>2
<1>3. CASE u # t
  <2>1. PICK C \in SUBSET Tickets :
            /\ g[u] \subseteq C /\ u \notin C
            /\ \A v \in C : g[v] \subseteq C
    BY DEF Acyclic
  <2>2. h[u] \subseteq C
    BY <1>3, <2>1
  <2>3. CASE u \in D
    <3>1. h[u] \subseteq C \cap D /\ u \notin C \cap D
      BY <1>1, <2>1, <2>2, <2>3
    <3>2. \A v \in C \cap D : h[v] \subseteq C \cap D
      BY <1>1, <2>1
    <3> QED BY <3>1, <3>2
  <2>4. CASE u \notin D
    <3>1. h[u] \subseteq C \cup D /\ u \notin C \cup D
      BY <2>1, <2>2, <2>4
    <3>2. \A v \in C \cup D : h[v] \subseteq C \cup D
      BY <1>1, <2>1
    <3> QED BY <3>1, <3>2
  <2> QED BY <2>3, <2>4
<1> QED BY <1>2, <1>3

\* The walk finds t from S, or some closed set holds S and not t.
LEMMA NotReached ==
    ASSUME NEW t \in Tickets, NEW S
    PROVE  t \notin Reached(S) <=>
               \E C \in SUBSET Tickets :
                   /\ S \subseteq C /\ t \notin C
                   /\ \A v \in C : Graph[v] \subseteq C
<1>1. \A C \in SUBSET Tickets : \A v \in C : Graph[v] = Upstreams(v)
  BY DEF Graph
<1> QED BY <1>1 DEF Reached

LEMMA GraphAcyclic == DependenciesAcyclic <=> Acyclic(Graph)
<1>1. \A t \in Tickets : Graph[t] = Upstreams(t)
  BY DEF Graph
<1>2. ASSUME NEW t \in Tickets
      PROVE  t \notin Reached(Upstreams(t)) <=>
                 \E C \in SUBSET Tickets :
                     /\ Graph[t] \subseteq C /\ t \notin C
                     /\ \A v \in C : Graph[v] \subseteq C
  BY <1>1, NotReached
<1> QED BY <1>2 DEF DependenciesAcyclic, Acyclic

\* A contract gives its own ticket the offered dependencies.
LEMMA ContractEdges ==
    ASSUME IInv, NEW t \in Tickets, NEW offer \in Offers, SetContract(t, offer)
    PROVE  /\ Graph'[t] = {u[1] : u \in offer.ups}
           /\ \A u \in Tickets \ {t} : Graph'[u] = Graph[u]
<1> DEFINE deps == {[t |-> u[1], rev |-> wf[u[1]].rev, att |-> wf[u[1]].att, ms |-> u[2]] :
                    u \in offer.ups}
           c == [keys |-> offer.keys, mode |-> offer.mode, ctx |-> offer.ctx, deps |-> deps]
           n == wf[t].rev + 1
<1>1. /\ wf[t].rev < MaxRev
      /\ wf' = [wf EXCEPT ![t] = Amended(wf[t])]
      /\ contracts' = [contracts EXCEPT ![t][n] = c]
  BY DEF SetContract
<1>2. /\ wf \in [Tickets -> Workflow] /\ wf[t] \in Workflow /\ wf[t].rev \in Nat
      /\ contracts \in [Tickets -> [Revs -> Contract]]
  BY WorkflowType DEF IInv, TypeOK
<1>3. n \in Revs /\ n # 0
  BY <1>1, <1>2, DeliveryAssumption DEF Revs
<1>4. Amended(wf[t]).rev = n
  BY <1>2, AmendedFacts
<1>5. {d.t : d \in c.deps} = {u[1] : u \in offer.ups}
  <2>1. c.deps = deps
    OBVIOUS
  <2>2. \A u \in offer.ups : [t |-> u[1], rev |-> wf[u[1]].rev, att |-> wf[u[1]].att, ms |-> u[2]].t = u[1]
    OBVIOUS
  <2>3. {d.t : d \in deps} \subseteq {u[1] : u \in offer.ups}
    BY <2>2
  <2>4. {u[1] : u \in offer.ups} \subseteq {d.t : d \in deps}
    BY <2>2
  <2> HIDE DEF c, deps
  <2> QED BY <2>1, <2>3, <2>4
<1> HIDE DEF c, n
<1>6. wf'[t].rev = n /\ contracts'[t][n] = c
  BY <1>1, <1>2, <1>3, <1>4
<1>7. \A u \in Tickets \ {t} : wf'[u] = wf[u] /\ contracts'[u] = contracts[u]
  BY <1>1, <1>2
<1>8. Graph'[t] = {d.t : d \in c.deps}
  BY <1>3, <1>6 DEF Graph, Upstreams
<1>9. \A u \in Tickets \ {t} : Graph'[u] = Graph[u]
  BY <1>7 DEF Graph, Upstreams
<1> QED BY <1>5, <1>8, <1>9

\* No other step changes a contract or the current revision of a ticket.
LEMMA RevisionsStay ==
    ASSUME IInv, Next, \A t \in Tickets : \A offer \in Offers : ~SetContract(t, offer)
    PROVE  contracts' = contracts /\ \A u \in Tickets : wf'[u].rev = wf[u].rev
<1> DEFINE Stay == \A u \in Tickets : wf'[u].rev = wf[u].rev
<1>1. /\ wf \in [Tickets -> Workflow] /\ \A u \in Tickets : wf[u] \in Workflow
  BY DEF IInv, TypeOK
<1>2. ASSUME NEW t \in Tickets, NEW w, wf' = [wf EXCEPT ![t] = w], w.rev = wf[t].rev PROVE Stay
  BY <1>1, <1>2
<1>3. ASSUME NEW w \in Workflow
      PROVE  /\ [w EXCEPT !.ctxDue = TRUE].rev = w.rev
             /\ [w EXCEPT !.ctxFresh = FALSE].rev = w.rev
             /\ [w EXCEPT !.live = FALSE].rev = w.rev
             /\ [w EXCEPT !.owner = None, !.live = FALSE].rev = w.rev
             /\ \A a, e : [w EXCEPT !.owner = a, !.live = TRUE, !.epoch = e].rev = w.rev
             /\ \A b : /\ [w EXCEPT !.ctxOk = TRUE, !.ctxErr = FALSE, !.ctxFresh = TRUE,
                                    !.ctxDue = b].rev = w.rev
                       /\ [w EXCEPT !.ctxErr = TRUE, !.ctxDue = b].rev = w.rev
  BY DEF Workflow
<1>4. ASSUME NEW t \in Tickets, NEW k \in Keys, NEW p \in PRs, NEW i \in BindIds, BindPr(t, k, p, i)
      PROVE  Stay
  <2>1. wf' = wf \/ wf' = [wf EXCEPT ![t] = NoClaim(wf[t])]
    BY <1>4 DEF BindPr
  <2> QED BY <1>1, <1>2, <2>1, NoClaimFacts
<1>5. ASSUME NEW t \in Tickets, NEW a \in Agents, AcquireClaim(a, t) PROVE Stay
  <2>1. wf' = [wf EXCEPT ![t] = [wf[t] EXCEPT !.owner = a, !.live = TRUE, !.epoch = wf[t].epoch + 1]]
    BY <1>5 DEF AcquireClaim
  <2> QED BY <1>1, <1>2, <1>3, <2>1
<1>6. ASSUME NEW t \in Tickets, NEW rule \in Rules(t), Transition(t, rule) PROVE Stay
  <2> DEFINE disp == NewDisposition(t, rule[2], rule[3])
             w == Mutated(wf[t], disp, rule[2] = "reopen")
  <2>1. wf' = wf \/ wf' = [wf EXCEPT ![t] = w]
    BY <1>6 DEF Transition
  <2>2. disp \in Dispositions /\ (rule[2] = "reopen") \in BOOLEAN
    BY <1>6, RuleFacts DEF Transition
  <2>3. w.rev = wf[t].rev
    BY <1>1, <2>2, MutatedFacts
  <2> QED BY <1>2, <2>1, <2>3
<1>7. ASSUME NEW t \in Tickets, Refresh(t) \/ ClaimExpires(t) PROVE Stay
  <2>1. \/ wf' = [wf EXCEPT ![t] = [wf[t] EXCEPT !.ctxDue = TRUE]]
        \/ wf' = [wf EXCEPT ![t] = [wf[t] EXCEPT !.live = FALSE]]
    BY <1>7 DEF Refresh, ClaimExpires
  <2> QED BY <1>1, <1>2, <1>3, <2>1
<1>8. ASSUME NEW a \in Agents, ReleaseClaim(a) PROVE Stay
  <2> DEFINE t == token[a].t
             w == [wf[t] EXCEPT !.owner = None, !.live = FALSE]
  <2>1. t \in Tickets
    BY <1>8 DEF IInv, TypeOK, Token, ReleaseClaim, ClaimAccepted
  <2>2. wf' = [wf EXCEPT ![t] = w]
    BY <1>1, <1>8, <2>1 DEF ReleaseClaim
  <2>3. w.rev = wf[t].rev
    BY <1>1, <1>3, <2>1
  <2> HIDE DEF t, w
  <2> QED BY <1>2, <2>1, <2>2, <2>3
<1>9. ASSUME NEW o \in Observers, NEW j \in obs[o].jobs, Publish(o, j) PROVE Stay
  <2> DEFINE good == [wf[j.t] EXCEPT !.ctxOk = TRUE, !.ctxErr = FALSE, !.ctxFresh = TRUE,
                                     !.ctxDue = StillDue(j)]
             bad == [wf[j.t] EXCEPT !.ctxErr = TRUE, !.ctxDue = StillDue(j)]
  <2>1. j.t \in Tickets
    BY DEF IInv, TypeOK, Observer, Job
  <2>2. wf' = wf \/ wf' = [wf EXCEPT ![j.t] = good] \/ wf' = [wf EXCEPT ![j.t] = bad]
    BY <1>9 DEF Publish, ObservedContext
  <2>3. good.rev = wf[j.t].rev /\ bad.rev = wf[j.t].rev
    BY <1>1, <1>3, <2>1
  <2> HIDE DEF good, bad
  <2> QED BY <1>2, <2>1, <2>2, <2>3
<1>10. ASSUME NEW s \in Subjects, DueElapses(s) \/ GoesStale(s) PROVE Stay
  <2>1. \/ wf' = wf
        \/ s \in Tickets /\ wf' = [wf EXCEPT ![s] = [wf[s] EXCEPT !.ctxDue = TRUE]]
        \/ s \in Tickets /\ wf' = [wf EXCEPT ![s] = [wf[s] EXCEPT !.ctxFresh = FALSE]]
    BY <1>10 DEF DueElapses, GoesStale
  <2> QED BY <1>1, <1>2, <1>3, <2>1
<1>11. ASSUME UNCHANGED wf PROVE Stay
  BY <1>11
<1>12. ASSUME NEW t \in Tickets, Accept(t) PROVE UNCHANGED <<contracts, wf>>
  BY <1>12 DEF Accept
<1>13. ASSUME NEW o \in Observers,
              \/ AcquireOwnership(o) \/ Disconnect(o) \/ LoseOwnership(o)
              \/ ReleaseOwnership(o) \/ Restart(o)
       PROVE  UNCHANGED <<contracts, wf>>
  BY <1>13 DEF AcquireOwnership, Disconnect, LoseOwnership, ReleaseOwnership, Restart
<1>14. ASSUME NEW o \in Observers,
              \/ \E S \in SUBSET Subjects : Capture(o, S)
              \/ \E j \in obs[o].jobs : Collect(o, j) \/ Defer(o, j)
       PROVE  UNCHANGED <<contracts, wf>>
  <2>1. ASSUME NEW S \in SUBSET Subjects, Capture(o, S) PROVE UNCHANGED <<contracts, wf>>
    BY <2>1 DEF Capture
  <2>2. ASSUME NEW j \in obs[o].jobs, Collect(o, j) \/ Defer(o, j) PROVE UNCHANGED <<contracts, wf>>
    BY <2>2 DEF Collect, Defer
  <2> QED BY <1>14, <2>1, <2>2
<1>15. ASSUME NEW p \in PRs, Push(p) \/ Review(p) \/ Merge(p) PROVE UNCHANGED <<contracts, wf>>
  BY <1>15 DEF Push, Review, Merge
<1>16. ASSUME NEW t \in Tickets,
              \/ \E k \in Keys, p \in PRs, i \in BindIds : BindPr(t, k, p, i)
              \/ \E a \in Agents : AcquireClaim(a, t)
              \/ \E rule \in Rules(t) : Transition(t, rule)
              \/ Refresh(t) \/ ClaimExpires(t)
       PROVE  UNCHANGED contracts
  <2>1. ASSUME NEW k \in Keys, NEW p \in PRs, NEW i \in BindIds, BindPr(t, k, p, i)
        PROVE  UNCHANGED contracts
    BY <2>1 DEF BindPr
  <2>2. ASSUME NEW rule \in Rules(t), Transition(t, rule) PROVE UNCHANGED contracts
    BY <2>2 DEF Transition
  <2>3. ASSUME NEW a \in Agents, AcquireClaim(a, t) PROVE UNCHANGED contracts
    BY <2>3 DEF AcquireClaim
  <2>4. CASE Refresh(t) \/ ClaimExpires(t)
    BY <2>4 DEF Refresh, ClaimExpires
  <2> QED BY <1>16, <2>1, <2>2, <2>3, <2>4
<1>17. ASSUME \/ \E a \in Agents : ReleaseClaim(a)
              \/ \E o \in Observers : \E j \in obs[o].jobs : Publish(o, j)
              \/ \E s \in Subjects : DueElapses(s) \/ GoesStale(s)
       PROVE  UNCHANGED contracts
  BY <1>17 DEF ReleaseClaim, Publish, DueElapses, GoesStale
<1> HIDE DEF Stay
<1>18. Stay
  BY <1>4, <1>5, <1>6, <1>7, <1>8, <1>9, <1>10, <1>11, <1>12, <1>13, <1>14, <1>15 DEF Next
<1>19. UNCHANGED contracts
  BY <1>12, <1>13, <1>14, <1>15, <1>16, <1>17 DEF Next
<1> QED BY <1>18, <1>19 DEF Stay

\* The current contracts never depend on each other in a circle: the walk of
\* _validate_dependencies from the offered dependencies looks at every
\* contract they lead to, and the graph lock keeps that answer true until the
\* contract is written.
THEOREM AcyclicTheorem == Spec => []DependenciesAcyclic
<1>1. Init => DependenciesAcyclic
  <2> SUFFICES ASSUME Init PROVE Acyclic(Graph)
    BY GraphAcyclic
  <2>1. \A t \in Tickets : Graph[t] = {}
    BY DEF Init, NoWorkflow, Graph, Upstreams
  <2>2. \A t \in Tickets : Graph[t] \subseteq {} /\ t \notin {} /\ \A v \in {} : Graph[v] \subseteq {}
    BY <2>1
  <2> QED BY <2>2 DEF Acyclic
<1>2. ASSUME IInv, DependenciesAcyclic, [Next]_vars PROVE DependenciesAcyclic'
  <2>1. Acyclic(Graph)
    BY <1>2, GraphAcyclic
  <2>2. ASSUME Acyclic(Graph') PROVE DependenciesAcyclic'
    <3>1. \A t \in Tickets : Graph'[t] = Upstreams(t)'
      BY DEF Graph
    <3>2. ASSUME NEW t \in Tickets PROVE (t \notin Reached(Upstreams(t)))'
      <4>1. PICK C \in SUBSET Tickets :
                /\ Graph'[t] \subseteq C /\ t \notin C
                /\ \A v \in C : Graph'[v] \subseteq C
        BY <2>2 DEF Acyclic
      <4>2. Upstreams(t)' \subseteq C /\ \A v \in C : Upstreams(v)' \subseteq C
        BY <3>1, <4>1
      <4> QED BY <4>1, <4>2 DEF Reached
    <3> QED BY <3>2 DEF DependenciesAcyclic
  <2>3. ASSUME NEW t \in Tickets, NEW offer \in Offers, SetContract(t, offer) PROVE Acyclic(Graph')
    <3> DEFINE S == {u[1] : u \in offer.ups}
    <3>1. t \notin Reached(S)
      BY <2>3 DEF SetContract, ValidUpstreams
    <3> HIDE DEF S
    <3>2. PICK D \in SUBSET Tickets : S \subseteq D /\ t \notin D /\ \A v \in D : Graph[v] \subseteq D
      BY <3>1, NotReached
    <3>3. Graph'[t] = S /\ \A u \in Tickets \ {t} : Graph'[u] = Graph[u]
      BY <1>2, <2>3, ContractEdges DEF S
    <3> QED BY <2>1, <3>2, <3>3, EdgesReplaced
  <2>4. CASE contracts' = contracts /\ \A u \in Tickets : wf'[u].rev = wf[u].rev
    <3>1. Graph' = Graph
      BY <2>4 DEF Graph, Upstreams
    <3> QED BY <2>1, <2>2, <3>1
  <2>5. CASE UNCHANGED vars
    BY <2>4, <2>5 DEF vars
  <2> QED BY <1>2, <2>2, <2>3, <2>4, <2>5, RevisionsStay
<1> QED BY <1>1, <1>2, InvariantHolds, PTL DEF Spec
=============================================================================
