---------------------------- MODULE Customization ----------------------------
(***************************************************************************)
(* Customizing a skill: list_customizable_skills.py finds the skills, the  *)
(* user writes an override beside the team's, resolve_customization.py     *)
(* merges the layers to verify it; resolve_config.py merges the four       *)
(* layers of the central config the same way. The layers are read one      *)
(* after the other while other people commit and edit them.                *)
(*                                                                         *)
(* What a TOML file holds is a tree of tables: a function from the paths   *)
(* of its tables and fields, sequences of keys, to what is there. Of a     *)
(* table in a list its identifiers `code' and `id' are kept, "none" when   *)
(* it has no such field, and the rest of it as one value; an item that is  *)
(* no table has neither.                                                   *)
(***************************************************************************)
EXTENDS Naturals, SequencesExt

CONSTANTS
    Names,        \* names of skills
    Roots,        \* skills directories, in the order they are scanned
    Defaults,     \* customize.toml files of skills
    Overrides,    \* files under _bmad/
    Places,       \* where a skill and the working directory may lie
    MaxEdits      \* bound: edits of the files in one behaviour

Table == [kind |-> "table"]
List(items) == [kind |-> "list", items |-> items]
Scalar(x) == [kind |-> "scalar", value |-> x]

\* A tree has every table on the way to a field.
IsTree(d) ==
    \A p \in DOMAIN d :
        /\ p # <<>>
        /\ d[p].kind = "list" => d[p].items \in Seq(Range(d[p].items))
        /\ \A n \in 1..Len(p) - 1 :
              SubSeq(p, 1, n) \in DOMAIN d /\ d[SubSeq(p, 1, n)] = Table

\* A file that parses; one that is not there, and one that does not, hold nothing.
Toml(d) == [file |-> "toml", holds |-> d]
Empty == [p \in {} |-> Table]
Absent == [file |-> "absent", holds |-> Empty]
Broken == [file |-> "broken", holds |-> Empty]

\* A project is the one being customized, "other", or "none" above a directory.
ASSUME CustomizationAssumption ==
    /\ \A v \in Defaults \cup Overrides : v = Toml(v.holds) /\ IsTree(v.holds)
    /\ Places \subseteq [skill : {"this", "other", "none"},
                          cwd : {"this", "other", "none"}]
    /\ Roots \in Seq(Range(Roots)) /\ MaxEdits \in Nat

SkillLayers == <<"defaults", "team", "user">>
ConfigLayers == <<"config", "config.user", "custom/config", "custom/config.user">>
Installs == Range(Roots) \X Names

VARIABLES
    skills,   \* customize.toml of each install
    files,    \* the files under _bmad/ of the project
    others,   \* the override files of another project
    edits,    \* edits so far
    listing,  \* what list_customizable_skills.py reported of the skills as they are
    resolver  \* the resolver that runs, or the last that did
customizationVars == <<skills, files, others, edits, listing, resolver>>

NoListing == [done |-> FALSE, entries |-> {}, errors |-> {}]
NoResolver == [at |-> "idle", layers |-> <<>>, install |-> <<>>,
               place |-> [skill |-> "none", cwd |-> "none"], loaded |-> <<>>, out |-> Empty]

CustomizationInit ==
    /\ skills \in [Installs -> Defaults \cup {Absent, Broken}]
    /\ files = [l \in Range(Tail(SkillLayers)) \cup Range(ConfigLayers) |-> Absent]
    /\ others \in [Range(Tail(SkillLayers)) -> {Absent}]
    /\ edits = 0 /\ listing = NoListing /\ resolver = NoResolver

-----------------------------------------------------------------------------
(* The merge. *)

\* _detect_keyed_merge_field.
KeyOf(items) ==
    CASE items = <<>> -> "none"
      [] \A i \in DOMAIN items : items[i].code # "none" -> "code"
      [] (\A i \in DOMAIN items : items[i].id # "none")
         /\ (\E i \in DOMAIN items : items[i].code = "none") -> "id"
      [] OTHER -> "none"

\* An item replaces the last one with its key, or comes at the end.
PutItem(result, item, key) ==
    LET same == {i \in DOMAIN result : result[i][key] = item[key]}
    IN  IF same = {} THEN Append(result, item)
        ELSE [result EXCEPT ![Max(same)] = item]

\* _merge_by_key, where every item has the key.
MergeByKey(base, override, key) ==
    LET result[n \in 0..Len(override)] ==
            IF n = 0 THEN base ELSE PutItem(result[n - 1], override[n], key)
    IN  result[Len(override)]

MergeArrays(base, override) ==
    LET key == KeyOf(base \o override) IN
    IF key = "none" THEN base \o override ELSE MergeByKey(base, override, key)

\* A tree has something else than a table above a path.
Cuts(d, p) == \E n \in 1..Len(p) - 1 : SubSeq(p, 1, n) \in DOMAIN d
                                        /\ d[SubSeq(p, 1, n)].kind # "table"

\* deep_merge: tables become one, lists are merged, of anything else the override
\* stands, and what the base has below it is gone.
DeepMerge(base, override) ==
    [p \in DOMAIN override \cup {q \in DOMAIN base : ~ Cuts(override, q)} |->
        IF p \notin DOMAIN override THEN base[p]
        ELSE IF p \in DOMAIN base /\ base[p].kind = "list" /\ override[p].kind = "list"
             THEN List(MergeArrays(base[p].items, override[p].items))
        ELSE override[p]]

-----------------------------------------------------------------------------
(* The people who write the layers. *)

Edited == edits < MaxEdits /\ edits' = edits + 1 /\ resolver' = resolver

TeamCommits(l, v) ==
    /\ Edited /\ l \in {"team", "custom/config"}
    /\ files' = [files EXCEPT ![l] = v] /\ UNCHANGED <<skills, others, listing>>
UserEdits(l, v) ==
    /\ Edited /\ l \in {"user", "custom/config.user"}
    /\ files' = [files EXCEPT ![l] = v] /\ UNCHANGED <<skills, others, listing>>
InstallerWrites(l, v) ==
    /\ Edited /\ l \in {"config", "config.user"}
    /\ files' = [files EXCEPT ![l] = v] /\ UNCHANGED <<skills, others, listing>>
OtherEdited(l, v) ==
    /\ Edited /\ others' = [others EXCEPT ![l] = v]
    /\ UNCHANGED <<skills, files, listing>>
SkillUpdated(i, v) ==
    /\ Edited /\ skills' = [skills EXCEPT ![i] = v] /\ listing' = NoListing
    /\ UNCHANGED <<files, others>>

-----------------------------------------------------------------------------
(* list_customizable_skills.py. *)

\* The copies of a name that parse, by root; the first of them is seen.
Seen(name) == {r \in DOMAIN Roots : skills[<<Roots[r], name>>].file = "toml"}
FirstSeen(name) == <<Roots[CHOOSE r \in Seen(name) : \A q \in Seen(name) : r <= q], name>>

Surfaces(v) == {f \in {"agent", "workflow"} : <<f>> \in DOMAIN v.holds}

Listed == {FirstSeen(n) : n \in {m \in Names : Seen(m) # {}}}

\* One entry for each surface of a skill; a skill without one, and a file that does
\* not parse, are errors, and a skill seen before is passed over.
ListSkills ==
    /\ listing' = [done |-> TRUE,
                   entries |-> UNION {{[install |-> i, surface |-> f] :
                                          f \in Surfaces(skills[i])} : i \in Listed},
                   errors |-> {i \in Installs : skills[i] = Broken}
                              \cup {i \in Listed : Surfaces(skills[i]) = {}}]
    /\ UNCHANGED <<skills, files, others, edits, resolver>>

-----------------------------------------------------------------------------
(* resolve_customization.py and resolve_config.py. *)

\* find_project_root: the project around the skill, else the one around cwd.
ProjectOf(place) == IF place.skill # "none" THEN place.skill ELSE place.cwd

\* The installs that are listed are the ones the user verifies.
ResolveSkill(i, place) ==
    /\ resolver.at # "load" /\ \E e \in listing.entries : e.install = i
    /\ resolver' = [NoResolver EXCEPT !.at = "load", !.layers = SkillLayers,
                                      !.install = i, !.place = place]
    /\ UNCHANGED <<skills, files, others, edits, listing>>
ResolveConfig ==
    /\ resolver.at # "load"
    /\ resolver' = [NoResolver EXCEPT !.at = "load", !.layers = ConfigLayers]
    /\ UNCHANGED <<skills, files, others, edits, listing>>

Content(l) ==
    IF l = "defaults" THEN skills[resolver.install]
    ELSE IF resolver.layers = ConfigLayers THEN files[l]
    ELSE CASE ProjectOf(resolver.place) = "this" -> files[l]
           [] ProjectOf(resolver.place) = "other" -> others[l]
           [] ProjectOf(resolver.place) = "none" -> Absent

\* load_toml: the first layer is required, of the others a file that is not there
\* or does not parse counts as empty.
LoadLayer ==
    LET n == Len(resolver.loaded) + 1
        v == Content(resolver.layers[n])
    IN /\ resolver.at = "load" /\ n <= Len(resolver.layers)
       /\ resolver' = IF v.file # "toml" /\ n = 1 THEN [resolver EXCEPT !.at = "failed"]
                      ELSE [resolver EXCEPT !.loaded = Append(@, v.holds)]
       /\ UNCHANGED <<skills, files, others, edits, listing>>

\* Faulty variant of Merged: each layer is merged under the ones before it.
MergedUnder(loaded) ==
    LET merged[n \in 1..Len(loaded)] ==
            IF n = 1 THEN loaded[1] ELSE DeepMerge(loaded[n], merged[n - 1])
    IN  merged[Len(loaded)]

\* merged = deep_merge(merged, layer), for one layer after the other.
Merged(loaded) ==
    LET merged[n \in 1..Len(loaded)] ==
            IF n = 1 THEN loaded[1] ELSE DeepMerge(merged[n - 1], loaded[n])
    IN  merged[Len(loaded)]

PrintMerged ==
    /\ resolver.at = "load" /\ Len(resolver.loaded) = Len(resolver.layers)
    /\ resolver' = [resolver EXCEPT !.at = "printed", !.out = Merged(resolver.loaded)]
    /\ UNCHANGED <<skills, files, others, edits, listing>>

CustomizationNext ==
    \/ \E l \in DOMAIN files, v \in Overrides \cup {Absent, Broken} :
          TeamCommits(l, v) \/ UserEdits(l, v) \/ InstallerWrites(l, v)
    \/ \E l \in DOMAIN others, v \in Overrides : OtherEdited(l, v)
    \/ \E i \in Installs, v \in Defaults \cup {Broken} : SkillUpdated(i, v)
    \/ ListSkills
    \/ \E i \in Installs, place \in Places : ResolveSkill(i, place)
    \/ ResolveConfig \/ LoadLayer \/ PrintMerged

CustomizationSpec == CustomizationInit /\ [][CustomizationNext]_customizationVars

-----------------------------------------------------------------------------
(* Properties. *)

Holdings == {v.holds : v \in Defaults \cup Overrides \cup {Absent}}

CustomizationTypeOK ==
    /\ skills \in [Installs -> Defaults \cup {Absent, Broken}]
    /\ files \in [Range(Tail(SkillLayers)) \cup Range(ConfigLayers)
                       -> Overrides \cup {Absent, Broken}]
    /\ others \in [Range(Tail(SkillLayers)) -> Overrides \cup {Absent}]
    /\ edits \in 0..MaxEdits
    /\ listing.entries \subseteq [install : Installs, surface : {"agent", "workflow"}]
    /\ listing.errors \subseteq Installs
    /\ resolver.at \in {"idle", "load", "failed", "printed"}
    /\ resolver.layers \in {<<>>, SkillLayers, ConfigLayers}
    /\ resolver.layers = SkillLayers => resolver.install \in Installs
    /\ resolver.place \in Places \cup {NoResolver.place}
    /\ resolver.loaded \in Seq(Holdings) /\ Len(resolver.loaded) <= Len(resolver.layers)

Speaks(d, p) == p \in DOMAIN d \/ Cuts(d, p)
HasList(d, p) == p \in DOMAIN d /\ d[p].kind = "list"
ItemsAt(d, p) == IF HasList(d, p) THEN Range(d[p].items) ELSE {}
SameItem(i, j) == (i.code # "none" /\ i.code = j.code) \/ (i.id # "none" /\ i.id = j.id)

\* Of every path, what is printed is what the highest layer that speaks of it says.
HighestSpeaks(layers, out) ==
    \A p \in DOMAIN out \cup UNION {DOMAIN layers[n] : n \in DOMAIN layers} :
        \E n \in DOMAIN layers :
            /\ Speaks(layers[n], p) /\ \A m \in n + 1..Len(layers) : ~ Speaks(layers[m], p)
            /\ p \in DOMAIN out <=> p \in DOMAIN layers[n]
            /\ p \in DOMAIN out => /\ out[p].kind = layers[n][p].kind
                                   /\ out[p].kind # "list" => out[p] = layers[n][p]

\* A layer's list is printed item by item unless a higher layer puts something else
\* than a list there: an item is lost only to another of the same identifier.
ItemsKept(layers, out) ==
    \A n \in DOMAIN layers : \A p \in DOMAIN layers[n] :
        (\A m \in n..Len(layers) : Speaks(layers[m], p) => HasList(layers[m], p)) =>
            \A item \in ItemsAt(layers[n], p) :
                \/ item \in ItemsAt(out, p)
                \/ \E m \in n..Len(layers) : \E other \in ItemsAt(layers[m], p) :
                      other # item /\ SameItem(other, item)

\* What is printed in a list is in the list of a layer.
ItemsTheirs(layers, out) ==
    \A p \in DOMAIN out :
        ItemsAt(out, p) \subseteq UNION {ItemsAt(layers[n], p) : n \in DOMAIN layers}

NoCodeTwice(items) ==
    \A i, j \in DOMAIN items : items[i].code = items[j].code => i = j

\* Where the layers have lists only and each item has a code, no code is printed
\* twice, unless the lowest of them has it twice.
CodesOnce(layers, out) ==
    \A p \in DOMAIN out :
        LET speak == {n \in DOMAIN layers : Speaks(layers[n], p)}
        IN  /\ \A n \in speak : /\ HasList(layers[n], p)
                                /\ \A item \in ItemsAt(layers[n], p) : item.code # "none"
            /\ \A n \in speak : (\A m \in speak : n <= m) => NoCodeTwice(layers[n][p].items)
            => NoCodeTwice(out[p].items)

\* What a resolver prints is the layers, whoever edited them meanwhile: of each
\* table and field what the highest layer that speaks of it says, entry by entry
\* where that is a list, with nothing made up, nothing lost but what is replaced,
\* and replaced where the code promises it.
LayersMerge ==
    resolver.at = "printed" =>
        /\ HighestSpeaks(resolver.loaded, resolver.out)
        /\ ItemsKept(resolver.loaded, resolver.out)
        /\ ItemsTheirs(resolver.loaded, resolver.out)
        /\ CodesOnce(resolver.loaded, resolver.out)

=============================================================================
