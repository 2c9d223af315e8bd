----------------------------- MODULE Transforms -----------------------------
(* What is done to an accepted transcript before it is delivered: the         *)
(* dictionary, the snippets and the writing rules, and the import that        *)
(* changes the first two.  Pure operators, no state.                          *)
(*                                                                            *)
(* A text is a sequence of symbols.  A symbol is a character, or a word that  *)
(* the rules know as a whole ("um", "snippet"), with its case.  Every symbol  *)
(* is its own NFC form.                                                       *)
EXTENDS Naturals, Sequences, FiniteSets, SequencesExt

(* FoldLeft, SelectInSeq and SelectLastInSeq of SequencesExt without a        *)
(* recursive operator: TLC then sees that what is built from them is constant *)
(* and evaluates it once and not in every state.                              *)
Fold(op(_, _), base, seq) ==
    LET upTo[i \in 0 .. Len(seq)] == IF i = 0 THEN base ELSE op(upTo[i - 1], seq[i])
    IN  upTo[Len(seq)]
FirstOf(S) == CHOOSE i \in S \cup {0} : IF S = {} THEN i = 0 ELSE i \in S /\ \A j \in S : i <= j
LastOf(S) == CHOOSE i \in S \cup {0} : \A j \in S : i >= j
FirstWhere(seq, Test(_)) == FirstOf({i \in DOMAIN seq : Test(seq[i])})
LastWhere(seq, Test(_)) == LastOf({i \in DOMAIN seq : Test(seq[i])})

Sym(key, up) == [key |-> key, up |-> up]
Lc(key) == Sym(key, FALSE)
Blank == Lc(" ")
Comma == Lc(",")
NewLine == Lc("\n")
Spaces == {Blank, NewLine}
lowercase(text) == [i \in DOMAIN text |-> Lc(text[i].key)]
is_word(c) == c \notin Spaces \cup {Comma}
Upper(c) == IF is_word(c) THEN Sym(c.key, TRUE) ELSE c
Indices(n) == [i \in 1 .. n |-> i]

(* Trimming at both ends, and splitting at the spaces. *)
TrimOf(text, set) ==
    LET kept == {i \in DOMAIN text : text[i] \notin set}
    IN  IF kept = {} THEN <<>> ELSE SubSeq(text, FirstOf(kept), LastOf(kept))
split_whitespace(text) ==
    LET step(words, c) ==
            IF c \in Spaces THEN Append(words, <<>>)
            ELSE Append(Front(words), Append(Last(words), c))
    IN  SelectSeq(Fold(step, <<<<>>>>, text), LAMBDA w : w # <<>>)
Join(parts, separator) ==
    Fold(LAMBDA text, p : IF text = <<>> THEN p ELSE text \o separator \o p,
             <<>>, parts)

(* The occurrences of a pattern, leftmost first and without overlap. *)
match_indices(text, pattern) ==
    LET n == Len(pattern)
        step(found, i) ==
            IF /\ SubSeq(text, i, i + n - 1) = pattern
               /\ found = <<>> \/ i >= Last(found) + n
            THEN Append(found, i) ELSE found
    IN  Fold(step, <<>>, Indices(IF Len(text) < n THEN 0 ELSE Len(text) - n + 1))

-----------------------------------------------------------------------------
(* The dictionary.  A locale is compared by its key; "en_US" and "en-US" have *)
(* the same one.  A dictionary is refused, or sorted by rank.                 *)
Refused == [ok |-> FALSE]
Accepted(set) == [ok |-> TRUE, set |-> set]

locale_key(locale) == IF locale = "en_US" THEN "en-US" ELSE locale
rank(origin) ==
    CASE origin = "imported_profile" -> 0
      [] origin = "user_entry" -> 1
      [] origin = "explicit_correction" -> 2
match_key(e) == IF e.case = "exact" THEN e.source ELSE lowercase(e.source)

(* Ids are a base and the number a rename gave it. *)
IdBefore(a, b) == a[1] < b[1] \/ (a[1] = b[1] /\ a[2] < b[2])

(* The edge of a source is that of the last enabled entry that has it; a walk *)
(* that is still going after as many steps as there are entries has turned.   *)
detect_cycles(entries) ==
    LET key(e, text) == <<locale_key(e.locale), lowercase(text)>>
        Edges == SelectSeq(entries, LAMBDA e :
                    e.enabled /\ lowercase(e.source) # lowercase(e.replacement))
        follow(cursor) ==
            LET i == LastWhere(Edges, LAMBDA e : key(e, e.source) = cursor)
            IN  IF i = 0 THEN <<>> ELSE key(Edges[i], Edges[i].replacement)
        walk(start) == Fold(LAMBDA c, i : follow(c), start, Indices(Len(Edges) + 1))
    IN  \E i \in DOMAIN Edges : walk(key(Edges[i], Edges[i].source)) # <<>>

Outranks(a, b) ==
    \/ rank(a.origin) > rank(b.origin)
    \/ /\ rank(a.origin) = rank(b.origin)
       /\ a.precedence > b.precedence
    \/ /\ rank(a.origin) = rank(b.origin) /\ a.precedence = b.precedence
       /\ \/ Len(a.source) > Len(b.source)
          \/ (Len(a.source) = Len(b.source) /\ IdBefore(a.id, b.id))

ConflictingRule(a, b) ==
    /\ a.enabled /\ b.enabled
    /\ locale_key(a.locale) = locale_key(b.locale) /\ match_key(a) = match_key(b)
    /\ a.case = b.case /\ a.boundary = b.boundary
    /\ a.precedence = b.precedence /\ rank(a.origin) = rank(b.origin)

NewDictionary(entries) ==
    IF \/ \E i, j \in DOMAIN entries : /\ i < j
                                       /\ \/ entries[i].id = entries[j].id
                                          \/ ConflictingRule(entries[i], entries[j])
       \/ \E i \in DOMAIN entries : <<>> \in {entries[i].source, entries[i].replacement}
       \/ detect_cycles(entries)
    THEN Refused ELSE Accepted(SortSeq(entries, Outranks))

boundary_pair(text, i) ==
    i = 1 \/ i = Len(text) + 1 \/ is_word(text[i - 1]) # is_word(text[i])
boundary_ok(text, start, end, boundary) ==
    boundary = "unicode_word" => boundary_pair(text, start) /\ boundary_pair(text, end)

(* An exact rule looks no further inside an occurrence that it then drops for *)
(* its boundary; the other policies try every position.                       *)
find_matches(text, e) ==
    LET n == Len(e.source)
        same(part) == IF e.case = "exact" THEN part = e.source
                      ELSE lowercase(part) = lowercase(e.source)
        starts == IF e.case = "exact" THEN ToSet(match_indices(text, e.source))
                  ELSE {i \in 1 .. Len(text) + 1 - n : same(SubSeq(text, i, i + n - 1))}
    IN  IF e.boundary = "whole_utterance"
        THEN IF same(text) THEN {<<1, Len(text) + 1>>} ELSE {}
        ELSE {<<i, i + n>> : i \in {s \in starts : boundary_ok(text, s, s + n, e.boundary)}}

replacement_for_case(e, matched) ==
    IF e.case # "insensitive_preserve" THEN e.replacement
    ELSE IF \A i \in DOMAIN matched : is_word(matched[i]) => matched[i].up
    THEN [i \in DOMAIN e.replacement |-> Upper(e.replacement[i])]
    ELSE IF matched[1].up /\ \A i \in 2 .. Len(matched) : ~matched[i].up
    THEN <<Upper(e.replacement[1])>> \o Tail(e.replacement)
    ELSE e.replacement

(* The matches of every rule that counts for this locale, by where they start *)
(* and then by rank: a rule has at most one match at a place.                 *)
Candidates(set, text, locale) ==
    LET n == Len(set)
        place(k) == [start |-> ((k - 1) \div n) + 1, rule |-> ((k - 1) % n) + 1]
        places == [k \in 1 .. Len(text) * n |-> place(k) @@
                      [end |-> place(k).start + Len(set[place(k).rule].source)]]
        found == [r \in 1 .. n |->
                    IF set[r].enabled /\ locale_key(set[r].locale) = locale_key(locale)
                    THEN find_matches(text, set[r]) ELSE {}]
    IN  SelectSeq(places, LAMBDA c : <<c.start, c.end>> \in found[c.rule])

NonOverlapping(candidates) ==
    LET take(taken, c) == IF \A t \in ToSet(taken) : c.end <= t.start \/ c.start >= t.end
                          THEN Append(taken, c) ELSE taken
    IN  Fold(take, <<>>, candidates)

(* The matches that are replaced: the first to start, of those the better     *)
(* rule, and none that overlaps one already taken.                            *)
Selected(set, text, locale) == NonOverlapping(Candidates(set, text, locale))

ApplyDictionary(set, text, locale) ==
    LET put(acc, s) ==
            [text |-> acc.text \o SubSeq(text, acc.cursor, s.start - 1)
                        \o replacement_for_case(set[s.rule], SubSeq(text, s.start, s.end - 1)),
             cursor |-> s.end]
        done == Fold(put, [text |-> <<>>, cursor |-> 1], Selected(set, text, locale))
    IN  done.text \o SubSeq(text, done.cursor, Len(text))

-----------------------------------------------------------------------------
(* Snippets.  A name is a text of small letters; a set is refused when two    *)
(* ids or two enabled names are the same.                                     *)
valid_name(name) == name # <<>> /\ \A i \in DOMAIN name : is_word(name[i]) /\ ~name[i].up

NewSnippets(snippets) ==
    IF \/ \E i, j \in DOMAIN snippets :
             /\ i < j
             /\ \/ snippets[i].id = snippets[j].id
                \/ /\ snippets[i].enabled /\ snippets[j].enabled
                   /\ snippets[i].name = snippets[j].name
       \/ \E i \in DOMAIN snippets : ~valid_name(snippets[i].name) \/ snippets[i].body = <<>>
    THEN Refused ELSE Accepted(snippets)

(* Mutant: the literal modes are looked at after the trigger. *)
ResolveFirst(set, text, utterance_final, literal) ==
    LET trimmed == TrimOf(text, Spaces)
        name == TrimOf(SubSeq(trimmed, 3, Len(trimmed)), Spaces)
        named == {i \in DOMAIN set : set[i].enabled /\ set[i].name = lowercase(name)}
    IN  IF IsPrefix(<<Lc("snippet"), Blank>>, trimmed) /\ Cardinality(named) = 1
        THEN [text |-> set[CHOOSE i \in named : TRUE].body, disposition |-> "expanded"]
        ELSE [text |-> text, disposition |-> "not_triggered"]

resolve(set, text, utterance_final, literal) ==
    LET trimmed == TrimOf(text, Spaces)
        escape == <<Lc("literal"), Blank, Lc("snippet"), Blank>>
        trigger == <<Lc("snippet"), Blank>>
        name == TrimOf(SubSeq(trimmed, 3, Len(trimmed)), Spaces)
        named == {i \in DOMAIN set : set[i].enabled /\ lowercase(set[i].name) = lowercase(name)}
        Is(result, disposition) == [text |-> result, disposition |-> disposition]
    IN  IF ~utterance_final THEN Is(text, "deferred_partial")
        ELSE IF IsPrefix(escape, trimmed)
        THEN Is(trigger \o TrimOf(SubSeq(trimmed, 5, Len(trimmed)), Spaces), "escaped_literal")
        ELSE IF ~IsPrefix(trigger, trimmed) THEN Is(text, "not_triggered")
        ELSE IF literal THEN Is(text, "disabled_in_literal_mode")
        ELSE IF lowercase(name) = <<Lc("cancel")>> THEN Is(<<>>, "cancelled")
        ELSE IF ~valid_name(name) \/ Cardinality(named) > 1 THEN Is(text, "ambiguous")
        ELSE IF named = {} THEN Is(text, "missing")
        ELSE Is(set[CHOOSE i \in named : TRUE].body, "expanded")

-----------------------------------------------------------------------------
(* The writing rules.  "I mean", "list item" and "next item" are one symbol.  *)
Marks == {Comma}
normalize_spaces_and_punctuation(text) ==
    LET kept == SelectSeq(Indices(Len(text)), LAMBDA i :
                    ~(text[i] = Blank /\ i < Len(text) /\ text[i + 1] \in Marks))
    IN  TrimOf([i \in DOMAIN kept |-> text[kept[i]]], Spaces)

remove_fillers(text) ==
    LET words == split_whitespace(text)
        kept == SelectSeq(words, LAMBDA w : lowercase(TrimOf(w, Marks)) # <<Lc("um")>>)
    IN  IF kept = words THEN text
        ELSE normalize_spaces_and_punctuation(Join(kept, <<Blank>>))

collapse_repetitions(text) ==
    LET same(a, b) == lowercase(TrimOf(a, Marks)) = lowercase(TrimOf(b, Marks))
        keep(words, w) == IF words # <<>> /\ same(Last(words), w) THEN words
                          ELSE Append(words, w)
    IN  IF Contains(text, NewLine) THEN text
        ELSE Join(Fold(keep, <<>>, split_whitespace(text)), <<Blank>>)

resolve_self_correction(text) ==
    LET inner == <<Blank, Sym("i mean", TRUE), Blank>>
        usable(marker) ==
            LET at == match_indices(text, marker)
                rest == SubSeq(text, at[1] + Len(marker), Len(text))
            IN  /\ at # <<>>
                /\ TrimOf(SubSeq(text, 1, at[1] - 1), Spaces) # <<>>
                /\ TrimOf(rest, Spaces) # <<>> /\ match_indices(rest, inner) = <<>>
        after(marker) ==
            LET rest == SubSeq(text, match_indices(text, marker)[1] + Len(marker), Len(text))
            IN  SubSeq(rest, FirstWhere(rest, LAMBDA c : c \notin Spaces), Len(rest))
    IN  IF usable(<<Comma>> \o inner) THEN after(<<Comma>> \o inner)
        ELSE IF usable(inner) THEN after(inner) ELSE text

format_spoken_list(text) ==
    LET rest == SubSeq(text, 3, Len(text))
        cuts == match_indices(rest, <<Blank, Lc("next item"), Blank>>)
        item(k) == TrimOf(SubSeq(rest, IF k = 1 THEN 1 ELSE cuts[k - 1] + 3,
                                 IF k > Len(cuts) THEN Len(rest) ELSE cuts[k] - 1), Spaces)
        items == [k \in 1 .. Len(cuts) + 1 |-> item(k)]
    IN  IF /\ IsPrefix(<<Lc("list item"), Blank>>, text)
           /\ Len(items) >= 2 /\ \A k \in DOMAIN items : items[k] # <<>>
        THEN Join([k \in DOMAIN items |-> <<Lc("-"), Blank>> \o items[k]], <<NewLine>>)
        ELSE text

(* The rules that are on, in this order, and for en-US prose only. *)
Rules == {"fillers", "repetitions", "self_corrections", "spoken_lists"}
IsEnUs(locale) == locale \in {"en-US", "en_US"}
apply_rule_cleanup(text, locale, literal, rules) ==
    LET on(rule, new, old) == IF rule \in rules THEN new ELSE old
        t1 == on("fillers", remove_fillers(text), text)
        t2 == on("repetitions", collapse_repetitions(t1), t1)
        t3 == on("self_corrections", resolve_self_correction(t2), t2)
    IN  IF literal \/ ~IsEnUs(locale) THEN text
        ELSE on("spoken_lists", format_spoken_list(t3), t3)

-----------------------------------------------------------------------------
(* The pipeline: dictionary, sentence case, snippets, writing rules. *)
Modes == {"plain_text", "sentence_case", "preserve_spoken_wording", "literal", "code",
          "terminal"}
literal_mode(mode) == mode \in {"literal", "code", "terminal"}

format_locale(text, mode, locale) ==
    LET first == FirstWhere(text, LAMBDA c : c \notin Spaces)
    IN  IF ~IsEnUs(locale) \/ mode # "sentence_case" \/ first = 0 THEN text
        ELSE [text EXCEPT ![first] = Upper(@)]

apply_with_cleanup(dictionary, snippets, request, rules) ==
    LET literal == literal_mode(request.mode)
        words == IF literal THEN request.text
                 ELSE ApplyDictionary(dictionary, request.text, request.locale)
        found == resolve(snippets, format_locale(words, request.mode, request.locale),
                         request.final, literal)
    IN  [text |-> apply_rule_cleanup(found.text, request.locale, literal, rules),
         disposition |-> found.disposition]

(* What the application does with a final: repetitions and self-corrections   *)
(* are never on.                                                              *)
apply_final_personalization(dictionary, snippets, text, locale, rules) ==
    apply_with_cleanup(dictionary, snippets,
                       [text |-> text, locale |-> locale, mode |-> "plain_text", final |-> TRUE],
                       rules \ {"repetitions", "self_corrections"}).text

-----------------------------------------------------------------------------
(* The words to protect that Setup wrote, and the entries made of them: each  *)
(* word keeps its own spelling, and is also meant by what the recogniser is   *)
(* known to write for it (`mishearings`, rows of heard and meant) and by its  *)
(* spaced form.                                                               *)
consume_installer_vocabulary_seed(candidates, limit) ==
    LET keep(terms, candidate) ==
            LET term == TrimOf(candidate, Spaces)
            IN  IF \/ term = <<>> \/ Len(terms) = limit
                   \/ \E t \in ToSet(terms) : lowercase(t) = lowercase(term)
                THEN terms ELSE Append(terms, term)
    IN  Fold(keep, <<>>, candidates)

spaced_variant(term) ==
    LET humps == {i \in 2 .. Len(term) : is_word(term[i - 1]) /\ ~term[i - 1].up /\ term[i].up}
    IN  FlattenSeq([i \in DOMAIN term |->
                       IF i \in humps THEN <<Blank, term[i]>> ELSE <<term[i]>>])

TermEntry(id, source, term, protected) ==
    [id |-> id, locale |-> "en-US", source |-> source, replacement |-> term,
     case |-> "insensitive_canonical", boundary |-> "unicode_word",
     origin |-> "user_entry", precedence |-> 0, protected |-> protected, enabled |-> TRUE]

protected_term_entries(terms, mishearings) ==
    LET own == [k \in DOMAIN terms |-> TermEntry(<<k, 0>>, terms[k], terms[k], TRUE)]
        forms(k) == Append([r \in DOMAIN mishearings |->
                               [for |-> k, row |-> r, source |-> mishearings[r].heard,
                                use |-> lowercase(mishearings[r].meant) = lowercase(terms[k])]],
                           [for |-> k, row |-> Len(mishearings) + 1,
                            source |-> spaced_variant(terms[k]),
                            use |-> spaced_variant(terms[k]) # terms[k]])
        derive(acc, f) ==
            IF ~f.use \/ lowercase(f.source) \in acc.claimed THEN acc
            ELSE [claimed |-> acc.claimed \cup {lowercase(f.source)},
                  derived |-> Append(acc.derived,
                                TermEntry(<<f.for, f.row>>, f.source, terms[f.for], FALSE))]
    IN  own \o Fold(derive, [claimed |-> {lowercase(t) : t \in ToSet(terms)},
                                 derived |-> <<>>],
                        FlattenSeq([k \in DOMAIN terms |-> forms(k)])).derived

-----------------------------------------------------------------------------
(* The import of a bundle, previewed and then committed under a policy. *)
Policies == {"keep_existing", "replace_existing", "rename_imported"}

EntriesMeet(current, incoming) ==
    \/ current.id = incoming.id
    \/ /\ current.locale = incoming.locale
       /\ lowercase(current.source) = lowercase(incoming.source)
       /\ current.case = incoming.case /\ current.boundary = incoming.boundary
SnippetsMeet(current, incoming) ==
    current.id = incoming.id \/ lowercase(current.name) = lowercase(incoming.name)

validate_bundle(bundle) ==
    /\ bundle.version = 1 /\ ~bundle.contacts
    /\ NewDictionary(bundle.dictionary).ok /\ NewSnippets(bundle.snippets).ok

conflicts(existing, imported) ==
    {p \in ToSet(existing.dictionary) \X ToSet(imported.dictionary) : EntriesMeet(p[1], p[2])}
      \cup {p \in ToSet(existing.snippets) \X ToSet(imported.snippets) : SnippetsMeet(p[1], p[2])}

parse(imported, existing) ==
    IF validate_bundle(imported) /\ validate_bundle(existing)
    THEN [ok |-> TRUE, imported |-> imported, conflicts |-> conflicts(existing, imported)]
    ELSE Refused

unique_id(id, used) ==
    <<id[1], CHOOSE n \in 1 .. Cardinality(used) + 1 :
                <<id[1], n>> \notin used /\ \A k \in 1 .. n - 1 : <<id[1], k>> \in used>>
Numbers == <<Lc("-1"), Lc("-2"), Lc("-3"), Lc("-4")>>
unique_name(name, used) ==
    Append(name, Numbers[CHOOSE n \in DOMAIN Numbers :
                            /\ Append(name, Numbers[n]) \notin used
                            /\ \A k \in 1 .. n - 1 : Append(name, Numbers[k]) \in used])

(* One list merged into another: the first entry met decides, and it may be   *)
(* one that this same import has just added.                                  *)
Merge(existing, imported, policy, Meets(_, _), Renamed(_, _)) ==
    LET add(list, incoming) ==
            LET at == FirstWhere(list, LAMBDA current : Meets(current, incoming))
            IN  IF at = 0 THEN Append(list, incoming)
                ELSE CASE policy = "keep_existing" -> list
                       [] policy = "replace_existing" -> [list EXCEPT ![at] = incoming]
                       [] policy = "rename_imported" -> Append(list, Renamed(incoming, list))
    IN  Fold(add, existing, imported)

merge_dictionary(existing, imported, policy) ==
    Merge(existing, imported, policy, EntriesMeet, LAMBDA e, list :
        [e EXCEPT !.id = unique_id(e.id, {x.id : x \in ToSet(list)})])

merge_snippets(existing, imported, policy) ==
    Merge(existing, imported, policy, SnippetsMeet, LAMBDA s, list :
        [s EXCEPT !.id = unique_id(s.id, {x.id : x \in ToSet(list)}),
                  !.name = unique_name(s.name, {lowercase(x.name) : x \in ToSet(list)})])

commit(plan, existing, policy) ==
    LET result == [existing EXCEPT
                      !.dictionary = merge_dictionary(@, plan.imported.dictionary, policy),
                      !.snippets = merge_snippets(@, plan.imported.snippets, policy)]
    IN  IF validate_bundle(result) THEN Accepted(result) ELSE Refused

-----------------------------------------------------------------------------
(* Bounded inputs.  Two letters are enough for a rule to begin inside another *)
(* and for two spellings of one word.                                         *)
a == Lc("a")
b == Lc("b")
Rule(id, source, case, boundary, origin, precedence) ==
    [id |-> id, locale |-> "en-US", source |-> source, replacement |-> <<b>>, case |-> case,
     boundary |-> boundary, origin |-> origin, precedence |-> precedence, protected |-> FALSE,
     enabled |-> TRUE]
Sources == {<<a>>, <<a, Blank, a>>, <<Upper(a)>>}
RulesOf(id) == {Rule(id, source, case, boundary, origin, 0) :
                   source \in Sources, case \in {"exact", "insensitive_preserve"},
                   boundary \in {"unicode_word", "grapheme"},
                   origin \in {"user_entry", "explicit_correction"}}
Texts == BoundedSeq({a, Upper(a), Blank}, 4)
Utterances == BoundedSeq({a, Lc("um"), Lc("snippet"), Lc("literal"), Blank, Comma,
                          Sym("i mean", TRUE)}, 5)
SpokenLists == {<<Lc("list item"), Blank>> \o items :
                   items \in BoundedSeq({a, Lc("um"), Blank, Comma, Lc("next item")}, 5)}
Dictionaries == {NewDictionary(<<r, q>>) : r \in RulesOf(<<1, 0>>), q \in RulesOf(<<2, 0>>)}

(* A place where a rule matches and is not applied has another replacement    *)
(* over it that starts earlier, or starts there and outranks it: overlapping  *)
(* rules never both write, and none is lost without a better one.             *)
PassedOverForABetter ==
    \A d \in {d \in Dictionaries : d.ok} : \A text \in Texts :
        LET taken == ToSet(Selected(d.set, text, "en-US"))
        IN  /\ \A t, u \in taken : t = u \/ t.end <= u.start \/ u.end <= t.start
            /\ \A c \in ToSet(Candidates(d.set, text, "en-US")) \ taken : \E t \in taken :
                  /\ t.start <= c.start /\ c.start < t.end
                  /\ t.start = c.start => Outranks(d.set[t.rule], d.set[c.rule])

(* Whatever words Setup wrote, in whatever spellings, the entries made of     *)
(* them are a dictionary: no spelling of one word is a rule that conflicts    *)
(* with another or sends it round in a circle, which would refuse them all.   *)
ProtectedTermsAreAccepted ==
    LET words == {<<a>>, <<Upper(a)>>, <<b>>, <<a, Upper(b)>>, <<a, Blank, b>>, <<Upper(b), b>>}
        rows == {[heard |-> <<Upper(b)>>, meant |-> <<Upper(a)>>],
                 [heard |-> <<a, b>>, meant |-> <<a, Upper(b)>>],
                 [heard |-> <<a>>, meant |-> <<b, b>>]}
    IN  \A candidates \in BoundedSeq(words, 3), table \in BoundedSeq(rows, 2) :
            LET terms == consume_installer_vocabulary_seed(candidates, 128)
                made == NewDictionary(protected_term_entries(terms, table))
            IN  /\ made.ok
                /\ \A t \in ToSet(terms) : \E e \in ToSet(made.set) :
                      e.protected /\ e.source = t /\ e.replacement = t

(* In the literal modes nothing of what was said is rewritten, whatever the   *)
(* dictionary, the snippets and the rules say; only the spoken escape loses   *)
(* its first word.                                                            *)
LiteralModesKeepTheText ==
    LET dictionary == NewDictionary(<<Rule(<<1, 0>>, <<a>>, "exact", "unicode_word", "user_entry", 0)>>)
        snippets == NewSnippets(<<[id |-> <<1, 0>>, name |-> <<a>>, body |-> <<b>>, enabled |-> TRUE]>>)
    IN  \A text \in Utterances, mode \in {"literal", "code"} :
            LET result == apply_with_cleanup(dictionary.set, snippets.set,
                              [text |-> text, locale |-> "en-US", mode |-> mode, final |-> TRUE],
                              Rules)
            IN  \/ result.text = text
                \/ /\ result.disposition = "escaped_literal"
                   /\ split_whitespace(result.text) = Tail(split_whitespace(text))

(* The writing rules drop words and never invent, double or reorder them, but *)
(* for the dashes of a spoken list: each stands for a "list item" or "next    *)
(* item" that was said and is no longer in the text.                          *)
RulesOnlyDrop ==
    \A text \in Utterances \cup SpokenLists :
        LET Dash == Lc("-")
            words(t) == split_whitespace(ReplaceAll(t, Comma, Blank))
            count(t, set) == Cardinality({i \in DOMAIN t : t[i] \in set})
            ItemMarks == {Lc("list item"), Lc("next item")}
            said == words(text)
            left(D) == LET kept == SelectSeq(Indices(Len(said)), LAMBDA i : i \in D)
                       IN  [i \in DOMAIN kept |-> said[kept[i]]]
            cleaned == apply_rule_cleanup(text, "en-US", FALSE, Rules)
        IN  /\ \E D \in SUBSET DOMAIN said :
                  SelectSeq(words(cleaned), LAMBDA w : w # <<Dash>>) = left(D)
            /\ count(cleaned, {Dash}) + count(cleaned, ItemMarks) <= count(text, ItemMarks)

(* The repository's own example of a spoken list is cleaned as its test says, *)
(* also when a filler is dropped from it first.                               *)
SpokenListsAreWritten ==
    \A filler \in {<<>>, <<Lc("um"), Blank>>} :
        apply_rule_cleanup(<<Lc("list item"), Blank>> \o filler
                               \o <<a, Blank, Lc("next item"), Blank, b>>,
                           "en-US", FALSE, Rules)
          = <<Lc("-"), Blank, a, NewLine, Lc("-"), Blank, b>>

(* An import takes away only what its preview showed in conflict, and only    *)
(* when it was told to replace; told to rename, it also adds every entry.     *)
ImportKeepsWhatItDidNotShow ==
    LET ids == {<<1, 0>>, <<1, 1>>, <<2, 0>>}
        lists == BoundedSeq({Rule(id, source, "exact", "grapheme", "user_entry", precedence) :
                                id \in ids, source \in {<<a>>, <<Upper(a)>>}, precedence \in {0, 1}}, 2)
        names == BoundedSeq({[id |-> id, name |-> name, body |-> <<b>>, enabled |-> TRUE] :
                                id \in ids, name \in {<<a>>, <<b>>, <<a, Lc("-1")>>}}, 2)
        Bundle(dictionary, snippets) ==
            [version |-> 1, contacts |-> FALSE, dictionary |-> dictionary, snippets |-> snippets]
        Kept(existing, imported) ==
            LET plan == parse(imported, existing)
                all(bundle) == ToSet(bundle.dictionary) \cup ToSet(bundle.snippets)
            IN  plan.ok => \A policy \in Policies :
                  LET done == commit(plan, existing, policy)
                  IN  done.ok =>
                        /\ \A e \in all(existing) \ all(done.set) :
                              policy = "replace_existing" /\ \E p \in plan.conflicts : p[1] = e
                        /\ policy = "rename_imported" =>
                              Cardinality(all(done.set)) = Cardinality(all(existing)) + Cardinality(all(imported))
        ValidLists == {d \in lists : NewDictionary(d).ok}
        ValidNames == {n \in names : NewSnippets(n).ok}
    IN  /\ \A d1, d2 \in ValidLists : Kept(Bundle(d1, <<>>), Bundle(d2, <<>>))
        /\ \A s1, s2 \in ValidNames : Kept(Bundle(<<>>, s1), Bundle(<<>>, s2))
=============================================================================
