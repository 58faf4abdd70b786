---------------------------- MODULE Frontmatter ----------------------------
(***************************************************************************)
(* A note as lines, the readers of its frontmatter (markdown/markdown.go), *)
(* the renderer of an enrichment (enrich/render.go) and the guard its      *)
(* result has to pass (policy/enrich.go).  The three read the same lines   *)
(* with parsers of their own; what they make of them is the data kept      *)
(* here: which lines are keys, which entries a list has, where a list      *)
(* written in one line is cut.  The text of an entry is a name.            *)
(***************************************************************************)
EXTENDS Integers, Sequences, FiniteSets, SequencesExt

CONSTANTS TagClass,   \* of each tag: "topic", "skill", "needs-review", "status", "raw" or "other"
          RelatedMax  \* EnrichRelatedAppendMax

ASSUME FrontmatterAssumption == RelatedMax \in Nat

(***************************************************************************)
(* An entry of a list.  A link is written [[name]]; what is left of one    *)
(* that was cut begins with the quote it was written in.                   *)
(***************************************************************************)
Word(name) == [name |-> name, link |-> FALSE, cut |-> "no"]
Link(name) == [name |-> name, link |-> TRUE, cut |-> "no"]

\* An entry as it stands in a file: in no, single or double quotes.
Written(quote, entry) == [quote |-> quote, entry |-> entry]
Bare(name) == Written("none", Word(name))

\* No text: the value of a key that is absent or empty.
NoText == ""

\* A line.
Line(kind, indent, key, style, items) ==
    [kind |-> kind, indent |-> indent, key |-> key, style |-> style, items |-> items]
Blank == Line("blank", FALSE, NoText, "none", <<>>)
Space == Line("blank", TRUE, NoText, "none", <<>>)        \* spaces alone
Fence == Line("fence", FALSE, NoText, "none", <<>>)
Rule == Line("rule", FALSE, NoText, "none", <<>>)         \* ----
Text(name) == Line("text", FALSE, name, "none", <<>>)
Comment(indent) == Line("comment", indent, NoText, "none", <<>>)
Item(indent, w) == Line("item", indent, NoText, "none", <<w>>)
Open(key) == Line("key", FALSE, key, "none", <<>>)    \* key:
Scalar(key, w) == Line("key", FALSE, key, "plain", <<w>>)
Flow(key, ws) == Line("key", FALSE, key, "flow", ws)
SubKey(key, w) == Line("key", TRUE, key, "plain", <<w>>)

IsTopKey(line) == line.kind = "key" /\ ~line.indent

\* A line as there is in a file: it has a list, a value or none, and an entry
\* of these that has not been through the renderer is not cut.
WellFormed(line) ==
    /\ line.style \in {"none", "plain", "flow"} /\ line.items \in Seq(ToSet(line.items))
    /\ line.style = "plain" \/ line.kind = "item" => Len(line.items) = 1
    /\ \A w \in ToSet(line.items) :
          /\ w.quote \in {"none", "single", "double"}
          /\ w.entry = [name |-> w.entry.name, link |-> w.entry.link, cut |-> "no"]

\* The least index with a property, 0 if none has it.
FirstIndex(S) == IF S = {} THEN 0 ELSE CHOOSE i \in S : \A j \in S : i <= j
LastIndex(S) == IF S = {} THEN 0 ELSE CHOOSE i \in S : \A j \in S : j <= i

\* What a sequence has at some of its places, in its order.
Picked(s, places) ==
    [k \in 1..Cardinality(places) |-> s[CHOOSE i \in places : Cardinality(places \cap 1..i) = k]]

-----------------------------------------------------------------------------
(***************************************************************************)
(* markdown.go.  A file is lines, and whether it is free of a byte order   *)
(* mark and of CRLF (these readers do not mind).                           *)
(***************************************************************************)
NoFrontmatter == [found |-> FALSE, block |-> <<>>, body |-> <<>>]

\* The block between an opening fence and the first fence after it.
SplitFrontmatter(file) ==
    LET lines == file.lines
        close == FirstIndex({i \in 2..Len(lines) : lines[i].kind = "fence"})
    IN  IF lines = <<>> \/ lines[1] # Fence \/ close = 0 THEN [NoFrontmatter EXCEPT !.body = lines]
        ELSE [found |-> TRUE, block |-> SubSeq(lines, 2, close - 1),
              body |-> SubSeq(lines, close + 1, Len(lines))]

\* The first line of a key, indented or not.
KeyLine(block, key) == FirstIndex({i \in DOMAIN block : block[i].kind = "key" /\ block[i].key = key})

Has(block, key) == KeyLine(block, key) # 0

\* Doc.Scalar: the value of the key's line, "" when it has none.
ScalarOf(block, key) ==
    LET i == KeyLine(block, key)
    IN  IF i = 0 \/ block[i].style # "plain" THEN NoText ELSE block[i].items[1].entry.name

\* Doc.List: the values in brackets, the single value, or those of the
\* indented items down to the first line that is none.
ListOf(block, key) ==
    LET i == KeyLine(block, key)
        listed == {j \in (i + 1)..Len(block) :
                      \A k \in (i + 1)..j : block[k].kind = "blank" \/ (block[k].kind = "item" /\ block[k].indent)}
    IN  IF i = 0 THEN {}
        ELSE IF block[i].style # "none" THEN {w.entry.name : w \in ToSet(block[i].items)}
        ELSE {block[j].items[1].entry.name : j \in {j \in listed : block[j].kind = "item"}}

HasListValue(block, key, value) == value \in ListOf(block, key)

-----------------------------------------------------------------------------
(***************************************************************************)
(* Lists as the renderer and the guard read them.  Both end a list in      *)
(* brackets at its first "]", which of a list of links is the end of the   *)
(* first link: what they read of it is a stump, the quote it began with    *)
(* and [[name.                                                             *)
(***************************************************************************)
Stump(w) == [w.entry EXCEPT !.cut = w.quote]

\* splitFlowList, parseFlowList.
FlowEntries(ws) ==
    LET cut == FirstIndex({i \in DOMAIN ws : ws[i].entry.link})
        whole == IF cut = 0 THEN ws ELSE SubSeq(ws, 1, cut - 1)
        entries == [i \in DOMAIN whole |-> whole[i].entry]
    IN  IF cut = 0 THEN entries ELSE Append(entries, Stump(ws[cut]))

\* The entries of the items among lines.
ItemEntries(lines) ==
    LET items == Picked(lines, {i \in DOMAIN lines : lines[i].kind = "item"})
    IN  [i \in DOMAIN items |-> items[i].items[1].entry]

\* readListBlock: the renderer stops at the first line that is no item.
readListBlock(lines, k) ==
    LET stop == FirstIndex({j \in (k + 1)..Len(lines) : lines[j].kind # "item"})
        last == IF stop = 0 THEN Len(lines) ELSE stop - 1
    IN  IF lines[k].style = "flow" THEN FlowEntries(lines[k].items)
        ELSE IF lines[k].style = "plain" THEN <<lines[k].items[1].entry>>
        ELSE ItemEntries(SubSeq(lines, k + 1, last))

\* parseYAMLList: the guard reads every item of the field, and no value
\* beside the key.
parseYAMLList(field) ==
    IF field = <<>> THEN <<>>
    ELSE IF field[1].style = "flow" THEN FlowEntries(field[1].items)
    ELSE ItemEntries(field)

-----------------------------------------------------------------------------
(***************************************************************************)
(* render.go.                                                              *)
(***************************************************************************)
\* mergeUnique.
mergeUnique(existing, additions) ==
    LET all == existing \o additions
    IN  Picked(all, {i \in DOMAIN all : \A j \in 1..(i - 1) : all[j] # all[i]})

\* quoteIfNeeded: what begins with a bracket or a quote is written in
\* double quotes, and a double quote in it with a backslash.
WriteEntry(entry) ==
    IF entry.cut = "double" THEN Written("double", [entry EXCEPT !.cut = "escaped"])
    ELSE IF entry.link /\ entry.cut # "escaped" THEN Written("double", entry)
    ELSE Written("none", entry)

emitListBlock(key, entries) ==
    IF entries = <<>> THEN <<Flow(key, <<>>)>>
    ELSE <<Open(key)>> \o [i \in DOMAIN entries |-> Item(TRUE, WriteEntry(entries[i]))]

emitScalar(key, value) == <<Scalar(key, Bare(value))>>

\* findFrontmatterBounds: the line that closes the block; the first line of
\* the block is not looked at, and ---- closes it too.
FrontmatterEnd(lines) ==
    FirstIndex({i \in 3..Len(lines) : lines[i].kind \in {"fence", "rule"} /\ ~lines[i].indent})

\* The key whose block a line belongs to, 0 if none: blocks end at an empty line.
BlockKey(lines, i) ==
    LastIndex({k \in 1..i : IsTopKey(lines[k]) /\ \A j \in (k + 1)..i : ~IsTopKey(lines[j]) /\ lines[j] # Blank})

privateKeyOrder == <<"route_suggestion", "new_tag_candidates", "enriched_at", "enrich_run_id", "enrich_attempts">>

\* mergeFrontmatter: tags and related become one list of their old and new
\* entries, the fields of an enrichment are replaced where they are, all
\* else is copied; what is not there yet is added at the end.
mergeFrontmatter(lines, addTags, addRelated, privateFields) ==
    LET additions(key) == IF key = "tags" THEN addTags ELSE addRelated
        replaced(key) == key \in {"tags", "related"} \cup DOMAIN privateFields
        head(k) == IF lines[k].key \in {"tags", "related"}
                   THEN emitListBlock(lines[k].key, mergeUnique(readListBlock(lines, k), additions(lines[k].key)))
                   ELSE emitScalar(lines[k].key, privateFields[lines[k].key])
        piece(i) == LET k == BlockKey(lines, i)
                    IN  IF k = 0 \/ ~replaced(lines[k].key) THEN <<lines[i]>>
                        ELSE IF k = i THEN head(k) ELSE <<>>
        missing(key) == ~\E i \in DOMAIN lines : IsTopKey(lines[i]) /\ lines[i].key = key
        list(key) == IF missing(key) /\ additions(key) # <<>> THEN emitListBlock(key, additions(key)) ELSE <<>>
        field(key) == IF missing(key) /\ key \in DOMAIN privateFields
                      THEN emitScalar(key, privateFields[key]) ELSE <<>>
    IN  FlattenSeq([i \in DOMAIN lines |-> piece(i)])
            \o list("tags") \o list("related")
            \o FlattenSeq([i \in DOMAIN privateKeyOrder |-> field(privateKeyOrder[i])])

\* applyEnrichToFrontmatter: the new file, or none.
applyEnrichToFrontmatter(file, addTags, addRelated, privateFields) ==
    LET end == FrontmatterEnd(file.lines)
    IN  IF ~file.plain \/ file.lines = <<>> \/ file.lines[1] # Fence \/ end = 0 THEN {}
        ELSE {[file EXCEPT !.lines =
                  <<Fence>> \o mergeFrontmatter(SubSeq(file.lines, 2, end - 1), addTags, addRelated, privateFields)
                            \o SubSeq(file.lines, end, Len(file.lines))]}

-----------------------------------------------------------------------------
(***************************************************************************)
(* policy/enrich.go.                                                       *)
(***************************************************************************)
EnrichWritableFields == {"tags", "related"} \cup ToSet(privateKeyOrder)

\* splitFrontmatterFields: of each key (the last of its name) its line and
\* the lines up to the next key.
splitFrontmatterFields(block) ==
    LET keys == {block[i].key : i \in {i \in DOMAIN block : IsTopKey(block[i])}}
        start(key) == LastIndex({i \in DOMAIN block : IsTopKey(block[i]) /\ block[i].key = key})
        next(i) == FirstIndex({j \in (i + 1)..Len(block) : IsTopKey(block[j])})
        end(i) == IF next(i) = 0 THEN Len(block) ELSE next(i) - 1
    IN  [key \in keys |-> SubSeq(block, start(key), end(start(key)))]

\* normalizeBlob.
normalizeBlob(field) == Picked(field, {i \in DOMAIN field : field[i].kind # "blank"})

setSubset(small, big) == ToSet(small) \subseteq ToSet(big)
setDiff(after, before) == ToSet(after) \ ToSet(before)

\* What an enrichment may add: topics and skills the vault knows, raw/...
\* and status/needs-review.
MayAdd(tag, vocab) ==
    /\ ~tag.link
    /\ \/ TagClass[tag.name] \in {"topic", "skill"} /\ tag.name \in vocab
       \/ TagClass[tag.name] \in {"needs-review", "raw"}

\* Mutant: the existing entries are not compared.
enrichValidateTagsAnyChange(before, after, vocab) ==
    \A tag \in setDiff(after, before) : MayAdd(tag, vocab)

\* Tags are only added, and only tags an enrichment may add.
enrichValidateTagsAppend(before, after, vocab) ==
    /\ setSubset(before, after)
    /\ \A tag \in setDiff(after, before) : MayAdd(tag, vocab)

\* Related entries are only added, links, and not too many.
enrichValidateRelatedAppend(before, after) ==
    /\ setSubset(before, after)
    /\ Cardinality(setDiff(after, before)) <= RelatedMax
    /\ \A entry \in setDiff(after, before) : entry.link /\ entry.cut = "no"

\* What is not writable is there before and after, and is the same.
enrichCheckFieldGuard(beforeBlock, afterBlock, vocab) ==
    LET before == splitFrontmatterFields(beforeBlock)
        after == splitFrontmatterFields(afterBlock)
        list(fields, key) == IF key \in DOMAIN fields THEN parseYAMLList(fields[key]) ELSE <<>>
    IN  /\ \A key \in (DOMAIN before \cup DOMAIN after) \ EnrichWritableFields :
               /\ key \in DOMAIN before /\ key \in DOMAIN after
               /\ normalizeBlob(before[key]) = normalizeBlob(after[key])
        /\ enrichValidateTagsAppend(list(before, "tags"), list(after, "tags"), vocab)
        /\ enrichValidateRelatedAppend(list(before, "related"), list(after, "related"))

\* The guards of CheckEnrichPlan on the two contents: the body is the same
\* and the fields pass.
CheckEnrichContent(beforeFile, afterFile, vocab) ==
    LET before == SplitFrontmatter(beforeFile)
        after == SplitFrontmatter(afterFile)
    IN  /\ before.found /\ after.found
        /\ before.body = after.body
        /\ enrichCheckFieldGuard(before.block, after.block, vocab)
=============================================================================
