---------------------------- MODULE ChangelogText ---------------------------
(***************************************************************************)
(* What `gitl changelog` makes of commits and of a model's answer: the     *)
(* categories of internal/gitlog, the answers internal/llm accepts, the    *)
(* artifact of internal/cli and what internal/render shows of it.          *)
(*                                                                         *)
(* A hash is a sequence; its first ShortLen elements are its short form.   *)
(* A subject is named by where its text comes from.  Sorting the missing   *)
(* categories and the unknown ones is layout and left out.                 *)
(***************************************************************************)
EXTENDS Integers, Sequences, FiniteSets, SequencesExt

CONSTANT ShortLen

(* The elements of s at some positions, in order: what a loop that skips   *)
(* the others appends.                                                     *)
Picked(s, positions) ==
  FlattenSeq([i \in DOMAIN s |-> IF i \in positions THEN <<s[i]>> ELSE <<>>])

Short(h) == IF Len(h) > ShortLen THEN SubSeq(h, 1, ShortLen) ELSE h

CategoryOrder ==
  <<"Added", "Changed", "Deprecated", "Removed", "Fixed", "Security", "Other">>
Categories == Range(CategoryOrder)

(* The types of conventional commits that are not Other. *)
TypeToCategory ==
  [feat |-> "Added", fix |-> "Fixed", perf |-> "Changed", refactor |-> "Changed",
   revert |-> "Changed", deprecate |-> "Deprecated", remove |-> "Removed",
   security |-> "Security"]

-----------------------------------------------------------------------------
(* CategorizeCommits, NewChangelogArtifact.  The type of a commit is that  *)
(* of its subject's prefix, "" without one, "Merge" for "Merge ...".       *)

BreakingCommit(c) == (c.bang /\ c.type # "") \/ c.footer # "none"

(* Mutant: a type without a category drops the commit. *)
OnlyKnownTypes(c) ==
  IF c.type \in DOMAIN TypeToCategory THEN TypeToCategory[c.type] ELSE ""

CategoryOf(c) ==
  IF c.type \in DOMAIN TypeToCategory THEN TypeToCategory[c.type] ELSE "Other"

SubjectOf(c) == IF c.type = "" THEN "whole" ELSE "stripped"
BreakingText(c) == IF c.footer = "text" THEN "footer" ELSE SubjectOf(c)

Entry(hashes, subject, breaking) == [hashes |-> hashes, subject |-> subject, breaking |-> breaking]

(* Not a merge, and the first with its hash. *)
Listed(commits) ==
  LET First(i) == \A j \in 1 .. i - 1 : commits[j].hash # commits[i].hash
  IN  Picked(commits, {i \in DOMAIN commits : commits[i].type # "Merge" /\ First(i)})

(* MissingRequiredCategories, and its like in aiChangelogArtifact *)
WithMissing(art, required) ==
  [categories |-> art.categories, breaking |-> art.breaking,
   missing |-> Picked(required, {i \in DOMAIN required :
                 required[i] \notin Categories \/ art.categories[required[i]] = <<>>})]

Deterministic(commits, required) ==
  LET listed == Listed(commits)
      In(name) == Picked(listed, {i \in DOMAIN listed : CategoryOf(listed[i]) = name})
      Marked(cs) == [i \in DOMAIN cs |-> Entry(<<Short(cs[i].hash)>>, SubjectOf(cs[i]), BreakingCommit(cs[i]))]
      broken == Picked(listed, {i \in DOMAIN listed : BreakingCommit(listed[i])})
  IN  WithMissing(
        [categories |-> [name \in Categories |-> Marked(In(name))],
         breaking |-> [i \in DOMAIN broken |-> Entry(<<Short(broken[i].hash)>>, BreakingText(broken[i]), TRUE)]],
        required)

-----------------------------------------------------------------------------
(* ParseChangelogResponse: an answer is the sequence of its fenced blocks. *)

Accepted(block) == block.lang = "changelog" /\ block.decodes /\ block.categories # "absent"

Parses(content) == \E i \in DOMAIN content : Accepted(content[i])
(* The last valid block wins. *)
Payload(content) == content[Max({i \in DOMAIN content : Accepted(content[i])})].payload

-----------------------------------------------------------------------------
(* aiChangelogArtifact *)

Known(commits) == {Short(commits[i].hash) : i \in DOMAIN commits}

(* Mutant: an entry whose hashes are all unknown keeps them. *)
TrustsHashes(item, known) ==
  IF item.subject = "blank" \/ item.hashes = <<>> THEN <<>>
  ELSE <<[hashes |-> [i \in DOMAIN item.hashes |-> Short(item.hashes[i])], subject |-> item.subject]>>

(* toEntry: no entry, or one with the hashes of the range *)
ToEntry(item, known) ==
  LET shorts == [i \in DOMAIN item.hashes |-> Short(item.hashes[i])]
      hashes == Picked(shorts, {i \in DOMAIN shorts : shorts[i] \in known})
  IN  IF item.subject = "blank" \/ hashes = <<>> THEN <<>>
      ELSE <<[hashes |-> hashes, subject |-> item.subject]>>

ToEntries(items, known) == FlattenSeq([i \in DOMAIN items |-> ToEntry(items[i], known)])

(* Mutant: an unknown category is dropped. *)
ItemsKnownOnly(payload, name) ==
  IF name \in DOMAIN payload.categories THEN payload.categories[name] ELSE <<>>

(* The items under a name; those under a name nobody knows follow Other's. *)
ItemsOf(payload, name) ==
  LET unknown == SetToSeq(DOMAIN payload.categories \ Categories)
  IN  (IF name \in DOMAIN payload.categories THEN payload.categories[name] ELSE <<>>)
      \o (IF name = "Other"
          THEN FlattenSeq([i \in DOMAIN unknown |-> payload.categories[unknown[i]]]) ELSE <<>>)

Shares(e, f) == \E i \in DOMAIN e.hashes : e.hashes[i] \in Range(f.hashes)

(* Mutant: only the same hashes make an entry breaking. *)
SameHashes(e, broken) == \E i \in DOMAIN broken : e.hashes = broken[i].hashes

MarkedBreaking(e, broken) == \E i \in DOMAIN broken : Shares(e, broken[i])

AIEntries(commits, payload) ==
  LET known == Known(commits)
      broken == ToEntries(payload.breaking, known)
      Of(name) == ToEntries(ItemsOf(payload, name), known)
      Marked(es) == [i \in DOMAIN es |-> Entry(es[i].hashes, es[i].subject, MarkedBreaking(es[i], broken))]
  IN  [categories |-> [name \in Categories |-> Marked(Of(name))],
       breaking |-> [i \in DOMAIN broken |-> Entry(broken[i].hashes, broken[i].subject, TRUE)]]

(* Mutant: the policy is asked about the categories the commits had. *)
MissingAsCommitted(commits, payload, required) ==
  LET entries == AIEntries(commits, payload)
  IN  [categories |-> entries.categories, breaking |-> entries.breaking,
       missing |-> Deterministic(commits, required).missing]

AIArtifact(commits, payload, required) == WithMissing(AIEntries(commits, payload), required)

-----------------------------------------------------------------------------
(* internal/render *)

(* Mutant: the breaking changes are not counted. *)
AnyCategoryEntries(art) == \E name \in Categories : art.categories[name] # <<>>

HasAnyEntries(art) ==
  art.breaking # <<>> \/ \E name \in Categories : art.categories[name] # <<>>

Line(section, e) == [section |-> section, subject |-> e.subject, hashes |-> e.hashes, breaking |-> e.breaking]
Section(name, es) == [i \in DOMAIN es |-> Line(name, es[i])]

(* changelogMarkdownBody, text alike; nothing stands for "No changes". *)
Body(art) ==
  IF ~HasAnyEntries(art) THEN <<>>
  ELSE Section("BREAKING CHANGES", art.breaking)
       \o FlattenSeq([r \in DOMAIN CategoryOrder |-> Section(CategoryOrder[r], art.categories[CategoryOrder[r]])])

(* The first category whose breaking entries carry the hash. *)
RankOf(art, h) ==
  Min({r \in DOMAIN CategoryOrder :
         \E i \in DOMAIN art.categories[CategoryOrder[r]] :
           LET e == art.categories[CategoryOrder[r]][i]
           IN  e.breaking /\ h \in Range(e.hashes)} \cup {Len(CategoryOrder) + 1})

(* Mutant: the first hash decides. *)
CategoryOfFirstHash(art, e) ==
  LET rank == RankOf(art, e.hashes[1])
  IN  IF rank > Len(CategoryOrder) THEN "" ELSE CategoryOrder[rank]

(* breaking_changes[].category *)
JsonCategory(art, e) ==
  LET rank == Min({RankOf(art, e.hashes[i]) : i \in DOMAIN e.hashes} \cup {Len(CategoryOrder) + 1})
  IN  IF rank > Len(CategoryOrder) THEN "" ELSE CategoryOrder[rank]

(* renderChangelogJSON *)
Json(art) ==
  [breaking_changes |-> [i \in DOMAIN art.breaking |->
     [hashes |-> art.breaking[i].hashes, subject |-> art.breaking[i].subject,
      category |-> JsonCategory(art, art.breaking[i])]],
   categories |-> art.categories, missing_required_categories |-> art.missing]
=============================================================================
