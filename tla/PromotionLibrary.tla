------------------------- MODULE PromotionLibrary --------------------------
(***************************************************************************)
(* The shared library of priors (pyfpa/portfolio/library.py) for one       *)
(* business type, used by several practitioner sessions at once.           *)
(*                                                                         *)
(* A session is a Python process that calls the library's operations.      *)
(* Nothing locks the library, so an operation is a sequence of file        *)
(* accesses that other sessions, a crash of the session, and the           *)
(* practitioner's own edits of the files come between:                     *)
(*   - each read-modify-write is a read step that computes the new         *)
(*     document, an open step (write_text truncates the file) and a flush  *)
(*     step (the new document is in the file);                             *)
(*   - an empty YAML document reads as "nothing recorded yet"              *)
(*     (`read_yaml(path) or {...}`), so a truncated file is the empty set, *)
(*     except an approval, which pydantic refuses to load (Blank).         *)
(*                                                                         *)
(* A prior candidate stands for its digest: business type, driver, value   *)
(* and support.  Files                                                     *)
(*   approvals[c]   approvals/<digest of c>.yaml                           *)
(*   priors         priors/<type>.yaml, the set of its entries             *)
(*   ids            provenance/workspaces.yaml, the workspaces it maps     *)
(*   index          provenance/seeds.yaml, the set of its entries          *)
(*   records[w]     <w>/.fpa/library-seeds.yaml, digests                   *)
(*   headings       the heading of each <w>/.fpa/business-profile.md       *)
(* The library log is append-only and read by nothing; it is left out.     *)
(***************************************************************************)
EXTENDS PromotionApproval

CONSTANTS Sessions, Candidates,
          ScopeOf,       \* candidate -> the scope its type and driver make
          SupportOf,     \* candidate -> its support, a set of workspaces
          TextOf,        \* candidate -> location -> marks the screen sees
          Decisions,     \* approvals a practitioner may record
          StartHeadings, \* headings the client workspaces may start with
          Clients,       \* workspaces that are seeded from the library
          Absent, Blank, \* no approval file; a file with no document in it
          NoDigest,      \* the digest of a legacy entry
          HandMayRace,   \* practitioner edits files while commands run
          TornWrites,    \* a crash may come between open and flush
          MaxOps         \* bound: operations and hand edits in a behaviour

ASSUME LibraryAssumption ==
  /\ SupportOf \in [Candidates -> SUBSET Workspaces]
  /\ Clients \subseteq Workspaces
  /\ StartHeadings \subseteq Headings
  /\ Absent \notin Decisions /\ Blank \notin Decisions /\ Absent # Blank
  /\ \A d \in Decisions : IsApproval(d)
  /\ NoDigest \notin Candidates
  /\ HandMayRace \in BOOLEAN /\ TornWrites \in BOOLEAN
  /\ MaxOps \in Nat

VARIABLES
  approvals, priors, ids, index, records, headings,   \* the files
  op, pc, cand, client,  \* per session: operation, next file access, arguments
  doc,       \* per session: the document computed at the last read
  held,      \* per session: the approval object in memory
  findings,  \* per session: what the screen saw
  picked,    \* per session: the entries a seeding loaded
  attested,  \* per session: candidates its attestation key vouches for
  started    \* operations and hand edits so far

\* History, read by no action: what practitioners decided and what followed.
VARIABLES
  granted,   \* candidate -> every decision recorded for it
  decided,   \* candidate -> the decision that stands, or Absent
  ratified,  \* candidates some validation run accepted
  published, \* [cand, by]: entries written and the approval they cite
  derived    \* client -> contents of the priors its configuration took

files    == <<approvals, priors, ids, index, records, headings>>
sessions == <<op, pc, cand, client, doc, held, findings, picked, attested>>
history  == <<granted, decided, ratified, published, derived>>
vars     == <<files, sessions, started, history>>

Entries == [digest : Candidates \cup {NoDigest}, content : Candidates]
IndexEntries == [workspace : Workspaces, digest : Candidates]

Steps == {"idle", "record_flush",
          "ids_read", "ids_open", "ids_flush",
          "priors_read", "priors_open", "priors_flush",
          "stamp_open", "stamp_flush", "seed_check",
          "client_read", "client_open", "client_flush",
          "index_read", "index_open", "index_flush", "withdraw_report"}

(* Every finding the screen could raise about a candidate's support paths. *)
Findable(c) == (Patterns \cup SupportOf[c]) \X DOMAIN TextOf[c]

(* A crash at one of these steps leaves an empty file behind. *)
Torn == {"record_flush", "ids_flush", "priors_flush", "stamp_flush",
         "client_flush", "index_flush"}

Init ==
  /\ approvals = [c \in Candidates |-> Absent]
  /\ priors = {} /\ ids = {} /\ index = {}
  /\ records = [w \in Clients |-> {}]
  /\ headings \in StartHeadings
  /\ op = [s \in Sessions |-> "none"]
  /\ pc = [s \in Sessions |-> "idle"]
  /\ cand = [s \in Sessions |-> NoDigest]
  /\ client = [s \in Sessions |-> NoName]
  /\ doc = [s \in Sessions |-> {}]
  /\ held = [s \in Sessions |-> Absent]
  /\ findings = [s \in Sessions |-> {}]
  /\ picked = [s \in Sessions |-> {}]
  /\ attested = [s \in Sessions |-> {}]
  /\ started = 0
  /\ granted = [c \in Candidates |-> {}]
  /\ decided = [c \in Candidates |-> Absent]
  /\ ratified = {} /\ published = {}
  /\ derived = [w \in Clients |-> {}]

-----------------------------------------------------------------------------
(* Steps every operation is made of. *)

At(s, step) == pc[s] = step
Goto(s, step) == pc' = [pc EXCEPT ![s] = step]

Begin(s, name, step) ==
  /\ At(s, "idle")
  /\ started < MaxOps
  /\ started' = started + 1
  /\ op' = [op EXCEPT ![s] = name]
  /\ Goto(s, step)

(* The end of an operation, and of whatever the process held for it. *)
Finish(s) ==
  /\ Goto(s, "idle")
  /\ op' = [op EXCEPT ![s] = "none"]
  /\ cand' = [cand EXCEPT ![s] = NoDigest]
  /\ client' = [client EXCEPT ![s] = NoName]
  /\ doc' = [doc EXCEPT ![s] = {}]
  /\ held' = [held EXCEPT ![s] = Absent]
  /\ findings' = [findings EXCEPT ![s] = {}]
  /\ picked' = [picked EXCEPT ![s] = {}]

-----------------------------------------------------------------------------
(* Operators named ...Slip are single mistakes in the operator that follows *)
(* them; no specification uses them, they show what the properties see.     *)

(* record_promotion_approval: exclusive create, then the content. *)

RecordApproval(s, c, d) ==
  /\ Begin(s, "record", "record_flush")
  /\ approvals[c] = Absent
  /\ approvals' = [approvals EXCEPT ![c] = Blank]
  /\ cand' = [cand EXCEPT ![s] = c]
  /\ held' = [held EXCEPT ![s] = d]
  /\ granted' = [granted EXCEPT ![c] = @ \cup {d}]
  /\ decided' = [decided EXCEPT ![c] = d]
  /\ UNCHANGED <<priors, ids, index, records, headings, client, doc,
                 findings, picked, attested, ratified, published, derived>>

RecordFlush(s) ==
  /\ At(s, "record_flush")
  /\ approvals' = [approvals EXCEPT ![cand[s]] = held[s]]
  /\ Finish(s)
  /\ UNCHANGED <<priors, ids, index, records, headings, attested, started, history>>

(* validate_prior on a candidate the folds do not degrade: the result is    *)
(* stamped with the key of this process.                                    *)
Validate(s, c) ==
  /\ At(s, "idle")
  /\ c \notin attested[s]
  /\ started < MaxOps
  /\ started' = started + 1
  /\ attested' = [attested EXCEPT ![s] = @ \cup {c}]
  /\ ratified' = ratified \cup {c}
  /\ UNCHANGED <<files, op, pc, cand, client, doc, held, findings, picked,
                 granted, decided, published, derived>>

-----------------------------------------------------------------------------
(* promote_prior. *)

(* The attestation of the validation is not looked at. *)
MayPromoteSlip(s, c) ==
  /\ approvals[c] \notin {Absent, Blank}
  /\ Covers(approvals[c], ScopeOf[c], SupportOf[c], {}, TextOf[c], headings)

MayPromote(s, c) ==
  /\ c \in attested[s]
  /\ approvals[c] \notin {Absent, Blank}
  /\ Covers(approvals[c], ScopeOf[c], SupportOf[c], {}, TextOf[c], headings)

PromotePrior(s, c) ==
  /\ Begin(s, "promote", "ids_read")
  /\ MayPromote(s, c)
  /\ cand' = [cand EXCEPT ![s] = c]
  /\ held' = [held EXCEPT ![s] = approvals[c]]
  /\ findings' = [findings EXCEPT ![s] = Screen(TextOf[c], SupportOf[c], headings)]
  /\ UNCHANGED <<files, client, doc, picked, attested, history>>

(* _record_workspace_ids, for the support of a promotion or the workspace   *)
(* of a seeding.                                                            *)
IdsRead(s) ==
  /\ At(s, "ids_read")
  /\ doc' = [doc EXCEPT ![s] =
       ids \cup IF op[s] = "promote" THEN SupportOf[cand[s]] ELSE {client[s]}]
  /\ Goto(s, "ids_open")
  /\ UNCHANGED <<files, op, cand, client, held, findings, picked, attested, started, history>>

IdsOpen(s) ==
  /\ At(s, "ids_open")
  /\ ids' = {}
  /\ Goto(s, "ids_flush")
  /\ UNCHANGED <<approvals, priors, index, records, headings, op, cand, client, doc,
                 held, findings, picked, attested, started, history>>

IdsFlush(s) ==
  /\ At(s, "ids_flush")
  /\ ids' = doc[s]
  /\ Goto(s, IF op[s] = "promote" THEN "priors_read" ELSE "index_read")
  /\ UNCHANGED <<approvals, priors, index, records, headings, op, cand, client, doc,
                 held, findings, picked, attested, started, history>>

PriorsRead(s) ==
  /\ At(s, "priors_read")
  /\ doc' = [doc EXCEPT ![s] = priors \cup {[digest |-> cand[s], content |-> cand[s]]}]
  /\ Goto(s, "priors_open")
  /\ UNCHANGED <<files, op, cand, client, held, findings, picked, attested, started, history>>

(* The write of priors/<type>.yaml by a promotion or by a withdrawal. *)
PriorsOpen(s) ==
  /\ At(s, "priors_open")
  /\ priors' = {}
  /\ Goto(s, "priors_flush")
  /\ UNCHANGED <<approvals, ids, index, records, headings, op, cand, client, doc,
                 held, findings, picked, attested, started, history>>

PriorsFlush(s) ==
  /\ At(s, "priors_flush")
  /\ priors' = doc[s]
  /\ IF op[s] = "promote"
     THEN /\ published' = published \cup {[cand |-> cand[s], by |-> held[s]]}
          /\ Goto(s, "stamp_open")
     ELSE /\ published' = published
          /\ Goto(s, "withdraw_report")
  /\ UNCHANGED <<approvals, ids, index, records, headings, op, cand, client, doc, held,
                 findings, picked, attested, started, granted, decided, ratified, derived>>

(* record_screen_findings, which rewrites the approval the gate read. *)
StampOpen(s) ==
  /\ At(s, "stamp_open")
  /\ approvals' = [approvals EXCEPT ![cand[s]] = Blank]
  /\ Goto(s, "stamp_flush")
  /\ UNCHANGED <<priors, ids, index, records, headings, op, cand, client, doc, held,
                 findings, picked, attested, started, history>>

(* The approval is rebuilt, and its acknowledged aliases are not copied. *)
StampFlushSlip(s) ==
  /\ At(s, "stamp_flush")
  /\ approvals' = [approvals EXCEPT ![cand[s]] =
                     [held[s] EXCEPT !.reviewed = findings[s], !.acknowledged = {}]]
  /\ Finish(s)
  /\ UNCHANGED <<priors, ids, index, records, headings, attested, started, history>>

StampFlush(s) ==
  /\ At(s, "stamp_flush")
  /\ approvals' = [approvals EXCEPT ![cand[s]] = Stamped(held[s], findings[s])]
  /\ Finish(s)
  /\ UNCHANGED <<priors, ids, index, records, headings, attested, started, history>>

-----------------------------------------------------------------------------
(* seed_from_library. *)

SeedLoad(s, w) ==
  /\ Begin(s, "seed", "seed_check")
  /\ priors # {}
  /\ picked' = [picked EXCEPT ![s] = priors]
  /\ client' = [client EXCEPT ![s] = w]
  /\ UNCHANGED <<files, cand, doc, held, findings, attested, history>>

(* Only the existence of the approval file is asked for. *)
SeedableByFileSlip(e) ==
  /\ e.digest # NoDigest
  /\ approvals[e.digest] # Absent

(* The approval is not looked for. *)
SeedableUnapprovedSlip(e) ==
  /\ e.digest # NoDigest
  /\ SupportOf[e.content] \subseteq ids
  /\ e.content = e.digest

(* A legacy entry passes with its content. *)
SeedableLegacySlip(e) ==
  /\ SupportOf[e.content] \subseteq ids
  /\ e.digest # NoDigest => approvals[e.digest] \notin {Absent, Blank}

(* _seeding_refusal finds nothing wrong with the entry. *)
Seedable(e) ==
  /\ e.digest # NoDigest
  /\ SupportOf[e.content] # {} /\ SupportOf[e.content] \subseteq ids
  /\ e.content = e.digest
  /\ approvals[e.digest] \notin {Absent, Blank}

(* The client's own record is not written first. *)
SeedAcceptSlip(s) ==
  /\ At(s, "seed_check")
  /\ \A e \in picked[s] : Seedable(e)
  /\ Goto(s, "ids_read")
  /\ UNCHANGED <<files, op, cand, client, doc, held, findings, picked, attested, started, history>>

SeedAccept(s) ==
  /\ At(s, "seed_check")
  /\ \A e \in picked[s] : Seedable(e)
  /\ Goto(s, "client_read")
  /\ UNCHANGED <<files, op, cand, client, doc, held, findings, picked, attested, started, history>>

(* PromotionDenied for any entry, or a configuration the priors do not fit: *)
(* nothing is written on either side.                                       *)
SeedRefuse(s) ==
  /\ At(s, "seed_check")
  /\ Finish(s)
  /\ UNCHANGED <<files, attested, started, history>>

ClientRead(s) ==
  /\ At(s, "client_read")
  /\ doc' = [doc EXCEPT ![s] = records[client[s]] \cup {e.digest : e \in picked[s]}]
  /\ Goto(s, "client_open")
  /\ UNCHANGED <<files, op, cand, client, held, findings, picked, attested, started, history>>

ClientOpen(s) ==
  /\ At(s, "client_open")
  /\ records' = [records EXCEPT ![client[s]] = {}]
  /\ Goto(s, "client_flush")
  /\ UNCHANGED <<approvals, priors, ids, index, headings, op, cand, client, doc, held,
                 findings, picked, attested, started, history>>

ClientFlush(s) ==
  /\ At(s, "client_flush")
  /\ records' = [records EXCEPT ![client[s]] = doc[s]]
  /\ Goto(s, "ids_read")
  /\ UNCHANGED <<approvals, priors, ids, index, headings, op, cand, client, doc, held,
                 findings, picked, attested, started, history>>

IndexEntriesOf(w, entries) == {[workspace |-> w, digest |-> e.digest] : e \in entries}

(* The index is replaced by the new entries. *)
IndexReadSlip(s) ==
  /\ At(s, "index_read")
  /\ doc' = [doc EXCEPT ![s] = IndexEntriesOf(client[s], picked[s])]
  /\ Goto(s, "index_open")
  /\ UNCHANGED <<files, op, cand, client, held, findings, picked, attested, started, history>>

IndexRead(s) ==
  /\ At(s, "index_read")
  /\ doc' = [doc EXCEPT ![s] = index \cup IndexEntriesOf(client[s], picked[s])]
  /\ Goto(s, "index_open")
  /\ UNCHANGED <<files, op, cand, client, held, findings, picked, attested, started, history>>

IndexOpen(s) ==
  /\ At(s, "index_open")
  /\ index' = {}
  /\ Goto(s, "index_flush")
  /\ UNCHANGED <<approvals, priors, ids, records, headings, op, cand, client, doc, held,
                 findings, picked, attested, started, history>>

(* The last write; the caller now has the seeded configuration. *)
IndexFlush(s) ==
  /\ At(s, "index_flush")
  /\ index' = doc[s]
  /\ derived' = [derived EXCEPT ![client[s]] = @ \cup {e.content : e \in picked[s]}]
  /\ Finish(s)
  /\ UNCHANGED <<approvals, priors, ids, records, headings, attested, started,
                 granted, decided, ratified, published>>

-----------------------------------------------------------------------------
(* withdraw_prior. *)

Kept(c) == {e \in priors : e.digest # c}

WithdrawPrior(s, c) ==
  /\ Begin(s, "withdraw", "priors_open")
  /\ Kept(c) # priors
  /\ cand' = [cand EXCEPT ![s] = c]
  /\ doc' = [doc EXCEPT ![s] = Kept(c)]
  /\ UNCHANGED <<files, client, held, findings, picked, attested, history>>

(* The workspaces withdraw_prior returns. *)
Reported(c) == {w \in ids : [workspace |-> w, digest |-> c] \in index}

WithdrawReport(s) ==
  /\ At(s, "withdraw_report")
  /\ Finish(s)
  /\ UNCHANGED <<files, attested, started, history>>

-----------------------------------------------------------------------------
(* The environment: the process ends, the practitioner edits files. *)

Crash(s) ==
  /\ pc[s] \in Torn => TornWrites
  /\ pc[s] # "idle" \/ attested[s] # {}
  /\ Finish(s)
  /\ attested' = [attested EXCEPT ![s] = {}]
  /\ UNCHANGED <<files, started, history>>

HandEdit ==
  /\ HandMayRace \/ \A s \in Sessions : At(s, "idle")
  /\ started < MaxOps
  /\ started' = started + 1

(* An approval file is deleted, while no session has it open. *)
RemoveApproval(c) ==
  /\ HandEdit
  /\ approvals[c] # Absent
  /\ \A s \in Sessions : cand[s] = c => pc[s] \notin {"record_flush", "stamp_flush"}
  /\ approvals' = [approvals EXCEPT ![c] = Absent]
  /\ decided' = [decided EXCEPT ![c] = Absent]
  /\ UNCHANGED <<priors, ids, index, records, headings, sessions,
                 granted, ratified, published, derived>>

(* An entry is added or edited in the text of priors/<type>.yaml. *)
EditPriors(e) ==
  /\ HandEdit
  /\ e \notin priors
  /\ \E old \in SUBSET priors : Cardinality(old) <= 1 /\ priors' = (priors \ old) \cup {e}
  /\ UNCHANGED <<approvals, ids, index, records, headings, sessions, history>>

EditHeading(w, n) ==
  /\ HandEdit
  /\ headings[w] # n
  /\ headings' = [headings EXCEPT ![w] = n]
  /\ UNCHANGED <<approvals, priors, ids, index, records, sessions, history>>

-----------------------------------------------------------------------------
Session(s) ==
  \/ \E c \in Candidates : \/ \E d \in Decisions : RecordApproval(s, c, d)
                           \/ Validate(s, c)
                           \/ PromotePrior(s, c)
                           \/ WithdrawPrior(s, c)
  \/ \E w \in Clients : SeedLoad(s, w)
  \/ RecordFlush(s)
  \/ IdsRead(s) \/ IdsOpen(s) \/ IdsFlush(s)
  \/ PriorsRead(s) \/ PriorsOpen(s) \/ PriorsFlush(s)
  \/ StampOpen(s) \/ StampFlush(s)
  \/ SeedAccept(s) \/ SeedRefuse(s)
  \/ ClientRead(s) \/ ClientOpen(s) \/ ClientFlush(s)
  \/ IndexRead(s) \/ IndexOpen(s) \/ IndexFlush(s)
  \/ WithdrawReport(s)

Environment ==
  \/ \E s \in Sessions : Crash(s)
  \/ \E c \in Candidates : RemoveApproval(c)
  \/ \E e \in Entries : EditPriors(e)
  \/ \E w \in Workspaces, n \in Names \cup {NoName} : EditHeading(w, n)

Next == (\E s \in Sessions : Session(s)) \/ Environment

Spec == Init /\ [][Next]_vars

-----------------------------------------------------------------------------
(* Properties. *)

Findings  == UNION {Findable(c) : c \in Candidates}
Documents == (SUBSET Workspaces) \cup (SUBSET Candidates)
               \cup (SUBSET Entries) \cup (SUBSET IndexEntries)
Approvals == Decisions \cup {Stamped(d, f) : d \in Decisions, f \in SUBSET Findings}

(* Type invariant of the files, the sessions and the history. *)
TypeOK ==
  /\ approvals \in [Candidates -> Approvals \cup {Absent, Blank}]
  /\ priors \subseteq Entries
  /\ ids \subseteq Workspaces
  /\ index \subseteq IndexEntries
  /\ records \in [Clients -> SUBSET Candidates]
  /\ headings \in Headings
  /\ op \in [Sessions -> {"none", "record", "promote", "seed", "withdraw"}]
  /\ pc \in [Sessions -> Steps]
  /\ cand \in [Sessions -> Candidates \cup {NoDigest}]
  /\ client \in [Sessions -> Clients \cup {NoName}]
  /\ doc \in [Sessions -> Documents]
  /\ held \in [Sessions -> Approvals \cup {Absent}]
  /\ findings \in [Sessions -> SUBSET Findings]
  /\ picked \in [Sessions -> SUBSET Entries]
  /\ attested \in [Sessions -> SUBSET Candidates]
  /\ started \in 0..MaxOps
  /\ granted \in [Candidates -> SUBSET Decisions]
  /\ decided \in [Candidates -> Decisions \cup {Absent}]
  /\ ratified \subseteq Candidates
  /\ published \subseteq [cand : Candidates, by : Approvals]
  /\ derived \in [Clients -> SUBSET Candidates]

StepsOf(name) ==
  CASE name = "none"     -> {"idle"}
    [] name = "record"   -> {"record_flush"}
    [] name = "promote"  -> {"ids_read", "ids_open", "ids_flush", "priors_read",
                             "priors_open", "priors_flush", "stamp_open", "stamp_flush"}
    [] name = "seed"     -> {"seed_check", "client_read", "client_open", "client_flush",
                             "ids_read", "ids_open", "ids_flush",
                             "index_read", "index_open", "index_flush"}
    [] name = "withdraw" -> {"priors_open", "priors_flush", "withdraw_report"}

(* Each session is at a step of its operation and holds what the step      *)
(* needs: its arguments, and a document of the file it is about to write.  *)
ControlOK ==
  \A s \in Sessions :
    /\ pc[s] \in StepsOf(op[s])
    /\ op[s] \in {"record", "promote", "withdraw"} => cand[s] \in Candidates
    /\ op[s] \in {"record", "promote"} => held[s] \in Approvals
    /\ op[s] = "seed" => client[s] \in Clients
    /\ op[s] = "seed" /\ pc[s] # "seed_check" =>
         \A e \in picked[s] : e.digest = e.content
    /\ pc[s] \in {"ids_open", "ids_flush"} => doc[s] \subseteq Workspaces
    /\ pc[s] \in {"priors_open", "priors_flush"} => doc[s] \subseteq Entries
    /\ pc[s] \in {"client_open", "client_flush"} => doc[s] \subseteq Candidates
    /\ pc[s] \in {"index_open", "index_flush"} => doc[s] \subseteq IndexEntries

(* Two approvals that differ at most in the findings listed as reviewed. *)
SameDecision(a, b) == Stamped(a, {}) = Stamped(b, {})

(* Default deny, writing side: whatever the interleaving, every prior ever *)
(* written by a promotion was validated, and the approval it cites is a    *)
(* decision a practitioner recorded for that very digest, for its scope    *)
(* and its contributors.                                                   *)
PublishedOnGrant ==
  \A p \in published :
     /\ p.cand \in ratified
     /\ \E d \in granted[p.cand] : SameDecision(p.by, d)
     /\ p.by.scope = ScopeOf[p.cand]
     /\ p.by.contributors = SupportOf[p.cand]

(* Default deny, reading side: whatever is edited by hand, removed or      *)
(* interleaved, the values a client's configuration took are contents for  *)
(* which a practitioner recorded an approval.                              *)
SeedsRestOnApproval ==
  \A w \in Clients : \A c \in derived[w] : granted[c] # {}

(* The findings stamp never adds to what a reviewer considered: an approval *)
(* on file is a recorded decision for its digest, its reviewed findings cut *)
(* down at most.                                                            *)
OnFileWasGranted ==
  \A c \in Candidates : approvals[c] \notin {Absent, Blank} =>
    \E d \in granted[c] : /\ SameDecision(approvals[c], d)
                           /\ approvals[c].reviewed \subseteq d.reviewed

(* What the interleavings cannot take from a session: a candidate it may   *)
(* promote was validated, an approval it holds was granted, and what it is *)
(* seeding was approved.                                                   *)
OnGrant(a, c) == \E d \in granted[c] : SameDecision(a, d)

SessionsOnGrant ==
  \A s \in Sessions :
    /\ attested[s] \subseteq ratified
    /\ op[s] = "record" => held[s] \in granted[cand[s]]
    /\ op[s] = "promote" =>
         /\ cand[s] \in ratified
         /\ OnGrant(held[s], cand[s])
         /\ held[s].scope = ScopeOf[cand[s]]
         /\ held[s].contributors = SupportOf[cand[s]]
    /\ op[s] = "seed" /\ pc[s] # "seed_check" =>
         \A e \in picked[s] : granted[e.content] # {}

(* The inductive invariant behind PublishedOnGrant and SeedsRestOnApproval. *)
BoundaryInv ==
  /\ \A c \in Candidates : approvals[c] \notin {Absent, Blank} => OnGrant(approvals[c], c)
  /\ SessionsOnGrant
  /\ PublishedOnGrant
  /\ SeedsRestOnApproval

(* "A recorded decision cannot be quietly restated": the approval on file  *)
(* is the decision that stands, and a removed one is not on file.          *)
DecisionStands ==
  \A c \in Candidates : approvals[c] \notin {Absent, Blank} =>
    /\ decided[c] # Absent
    /\ SameDecision(approvals[c], decided[c])

(* Withdrawal reports where a prior went: when withdraw_prior reads the     *)
(* seed index, every client whose configuration took the prior is among     *)
(* the workspaces it returns.                                               *)
WithdrawalNamesSeeded ==
  \A s \in Sessions : At(s, "withdraw_report") =>
    {w \in Clients : cand[s] \in derived[w]} \subseteq Reported(cand[s])

(* Both sides of a seeding: a workspace the library's index names has the  *)
(* seed in its own record, the client's file being written first, unless   *)
(* that file is being rewritten right now.                                 *)
IndexedSeedsAreRecorded ==
  \A i \in index :
    \/ i.workspace \in Clients /\ i.digest \in records[i.workspace]
    \/ \E s \in Sessions : At(s, "client_flush") /\ client[s] = i.workspace

(* The library implements the boundary its documentation promises. *)
Approved == {c \in Candidates : granted[c] # {}}
Shared   == {p.cand : p \in published}

Boundary == INSTANCE SharingBoundary
              WITH approved <- Approved, validated <- ratified,
                   shared <- Shared, used <- derived

(* Whatever sessions, crashes and hand edits do, every step of the library  *)
(* is a step of the boundary, or changes nothing the boundary speaks of.   *)
ImplementsBoundary == Boundary!Spec
=============================================================================
