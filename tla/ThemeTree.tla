-------------------------------- MODULE ThemeTree ------------------------------
(* The theme (theme.c, theme-lua.c): documents are read one after another into  *)
(* one tree of widgets, then the media blocks that hold are merged into it and  *)
(* references resolved, and every widget looks its properties up there.         *)
(*                                                                              *)
(* A document is what a Lua chunk returned, or broken.  A tree is a function    *)
(* from paths to the properties there; the media blocks lie under the root by   *)
(* their name, in the order they were made.  Out: the values themselves,        *)
(* heights and ratios, a reset below the top level of a document, a theme that  *)
(* is read while a view is up (both leave pointers to what was freed), lists.   *)
EXTENDS Integers, Sequences, FiniteSets, SequencesExt

CONSTANTS
  Documents,     \* what a file may hold: sequences of directives
  Layout,        \* the compiled-in layout, a document
  Media,         \* block name |-> [type, value]
  Screens,       \* what monitor_active() may say: [known, width, id]
  Widgets,       \* widget name |-> [state, parent], parent "" for none
  ImportDepth,   \* IMPORT_DEPTH
  Redirects,     \* the 20 redirects of a reference
  MaxReads,      \* bound: files before -theme
  MaxOverrides   \* bound: -theme-str

ASSUME ThemeAssumption ==
  /\ ImportDepth \in Nat \ {0} /\ Redirects \in Nat
  /\ MaxReads \in Nat /\ MaxOverrides \in Nat

VARIABLES
  tree,        \* sofi_theme
  blocks,      \* the media blocks in it, in their order
  settings,    \* what configuration directives set
  refs,        \* link.ref of the references resolved: [path, name] |-> a value
  phase,       \* "none" (off), "files", "theme", "overrides", "settled"
  written,     \* ghost: what was read, flat: [block, path, properties]
  configured,  \* ghost: the configuration directives read
  screen,      \* the answer of monitor_active()
  reads, overrides

themeVars ==
  <<tree, blocks, settings, refs, phase, written, configured, screen, reads, overrides>>

NoProperties == [p \in {} |-> ""]
NewTree == [path \in {<<>>} |-> NoProperties]
Document == [tree |-> NewTree, blocks |-> <<>>, settings |-> NoProperties]
AnyScreen == CHOOSE s \in Screens : TRUE

ThemeInit(on) ==
  /\ tree = NewTree /\ blocks = <<>> /\ settings = NoProperties /\ refs = NoProperties
  /\ written = <<>> /\ configured = <<>> /\ screen = AnyScreen
  /\ phase = IF on THEN "files" ELSE "none"
  /\ reads = 0 /\ overrides = 0
--------------------------------------------------------------------------------
(* Mutant of AddProperties: g_hash_table_insert() for what is new only. *)
AddNewProperties(old, new) == old @@ new

(* sofi_theme_widget_add_properties() *)
AddProperties(old, new) == new @@ old

(* sofi_theme_find_or_create_name(), of every step of a path *)
FindOrCreate(t, path) ==
  t @@ [p \in {SubSeq(path, 1, n) : n \in 0..Len(path)} |-> NoProperties]
WithProperties(t, path, properties) ==
  LET made == FindOrCreate(t, path)
  IN [made EXCEPT ![path] = AddProperties(made[path], properties)]

(* rule_apply() under root: `*` on the root itself is the root *)
RuleApply(t, root, path, properties) ==
  WithProperties(t, IF root = <<>> /\ path = <<"*">> THEN <<>> ELSE root \o path,
                 properties)

(* media_widget(): the block of this name, always under the root *)
MediaWidget(d, block) ==
  [d EXCEPT !.tree = FindOrCreate(@, <<block>>),
            !.blocks = IF block \in ToSet(@) THEN @ ELSE Append(@, block)]

(* What a list says: a block and a list in it are one level deeper, and what   *)
(* lies too deep is not heard.  Each directive has the block it lies in.        *)
LinesIn(block, list) == [i \in DOMAIN list |-> [block |-> block, said |-> list[i]]]
Opened(line) ==
  CASE line.said.kind = "media" ->
         <<[line EXCEPT !.said.rules = <<>>]>> \o LinesIn(line.said.block, line.said.rules)
    [] line.said.kind = "list" -> LinesIn(line.block, line.said.rules)
    [] OTHER -> <<line>>
Directives(list) ==
  LET level[depth \in 1..ImportDepth] ==
        IF depth = 1 THEN LinesIn("", list)
        ELSE FoldLeft(LAMBDA lines, line : lines \o Opened(line), <<>>, level[depth - 1])
  IN level[ImportDepth]

(* apply_directives(), of one of them: a list has been opened, or lies too deep. *)
ApplyDirective(d, line) ==
  LET said == line.said
      root == IF line.block = "" THEN <<>> ELSE <<line.block>>
  IN CASE said.kind = "reset" -> [d EXCEPT !.tree = NewTree, !.blocks = <<>>]
       [] said.kind = "configuration" -> [d EXCEPT !.settings = said.properties @@ @]
       [] said.kind = "media" -> MediaWidget(d, said.block)
       [] said.kind = "rule" ->
            [d EXCEPT !.tree =
               FoldLeft(LAMBDA t, path : RuleApply(t, root, path, said.properties),
                        @, said.select)]
       [] said.kind = "list" -> d
ApplyDirectives(d, list) == FoldLeft(ApplyDirective, d, Directives(list))

(* sofi_theme_parse_file(), sofi_theme_parse_string(): nothing is applied       *)
(* unless the chunk ran.                                                        *)
Broken == <<>>
Parsed(list) ==
  ApplyDirectives([tree |-> tree, blocks |-> blocks, settings |-> settings], list)
BecomesTheme(d) == tree' = d.tree /\ blocks' = d.blocks /\ settings' = d.settings

(* What is written, without the nesting: a block holds wherever it lies. *)
Flat(list) ==
  LET none == [block |-> "", path |-> <<>>, properties |-> NoProperties, kind |-> "rule"]
      Noted(line) ==
        LET said == line.said
        IN CASE said.kind = "rule" ->
                  [i \in DOMAIN said.select |->
                     [none EXCEPT !.block = line.block, !.path = said.select[i],
                                  !.properties = said.properties]]
             [] said.kind = "media" ->
                  <<[none EXCEPT !.block = said.block, !.kind = "block"]>>
             [] said.kind = "list" -> <<>>
             [] said.kind = "configuration" ->
                  <<[none EXCEPT !.kind = "configuration",
                                 !.properties = said.properties]>>
             [] said.kind = "reset" -> <<[none EXCEPT !.kind = "reset"]>>
  IN FoldLeft(LAMBDA flat, line : flat \o Noted(line), <<>>, Directives(list))

(* What a later document leaves of the earlier, and what both configure. *)
SinceReset(flat) ==
  LET rules == SelectSeq(flat, LAMBDA f : f.kind # "configuration")
  IN SelectLastInSubSeq(rules, 1, Len(rules), LAMBDA f : f.kind = "reset") + 1
Heard(before, list) ==
  LET rules == SelectSeq(before \o Flat(list), LAMBDA f : f.kind # "configuration")
  IN /\ written' = SubSeq(rules, SinceReset(rules), Len(rules))
     /\ configured' = configured \o SelectSeq(Flat(list),
                                              LAMBDA f : f.kind = "configuration")

(* main(): the compiled-in documents, the system's file and the user's *)
ReadFile ==
  /\ phase = "files" /\ reads < MaxReads /\ reads' = reads + 1
  /\ \E list \in Documents : BecomesTheme(Parsed(list)) /\ Heard(written, list)
  /\ UNCHANGED <<refs, phase, screen, overrides>>

(* -theme is read into a tree of its own, which replaces the one there if it    *)
(* could be read.                                                               *)
ReadTheme ==
  /\ phase = "files" /\ phase' = "theme"
  /\ \/ UNCHANGED <<tree, blocks, settings, written, configured>>
     \/ \E list \in Documents \ {Broken} :
          /\ BecomesTheme(ApplyDirectives([Document EXCEPT !.settings = settings], list))
          /\ Heard(<<>>, list)
  /\ UNCHANGED <<refs, screen, reads, overrides>>

(* A theme without a widget is replaced by the layout. *)
EnsureLayout ==
  /\ phase = "theme" /\ phase' = "overrides"
  /\ IF DOMAIN tree = {<<>>}
     THEN /\ BecomesTheme(ApplyDirectives([Document EXCEPT !.settings = settings], Layout))
          /\ Heard(<<>>, Layout)
     ELSE UNCHANGED <<tree, blocks, settings, written, configured>>
  /\ UNCHANGED <<refs, screen, reads, overrides>>

Override ==
  /\ phase = "overrides" /\ overrides < MaxOverrides /\ overrides' = overrides + 1
  /\ \E list \in Documents : BecomesTheme(Parsed(list)) /\ Heard(written, list)
  /\ UNCHANGED <<refs, phase, screen, reads>>
--------------------------------------------------------------------------------
(* The switch of sofi_theme_parse_process_conditionals_int() *)
Holds(block, mon) ==
  LET media == Media[block]
  IN CASE media.type = "enabled" -> media.value = 1
       [] media.type = "min-width" -> mon.known /\ mon.width >= media.value
       [] media.type = "max-width" -> mon.known /\ mon.width < media.value
       [] media.type = "monitor-id" -> mon.known /\ mon.id >= 0 /\ mon.id = media.value

(* sofi_theme_parse_merge_widgets(), of a block's children into the root *)
WithoutBlock(t, block) ==
  [p \in {q \in DOMAIN t : q = <<>> \/ Head(q) # block} |-> t[p]]
MergeWidgets(t, block) ==
  LET inside == {p \in DOMAIN t : Len(p) > 1 /\ Head(p) = block}
      star == <<block, "*">>
      moved == {p \in inside : p[2] # "*"}
      rest == WithoutBlock(t, block)
      merged == [q \in DOMAIN rest \cup {Tail(p) : p \in moved} |->
                   LET old == IF q \in DOMAIN rest THEN rest[q] ELSE NoProperties
                   IN IF <<block>> \o q \in moved
                      THEN AddProperties(old, t[<<block>> \o q]) ELSE old]
  IN IF star \in inside
     THEN [merged EXCEPT ![<<>>] = AddProperties(@, t[star])] ELSE merged

ProcessConditionals(t, mon) ==
  FoldLeft(LAMBDA s, block : IF Holds(block, mon) THEN MergeWidgets(s, block)
                             ELSE WithoutBlock(s, block), t, blocks)

(* sofi_theme_resolve_link_property(), of a reference that is not resolved *)
PropertyAt(t, p) == t[p.path][p.name]
RootProperty(name) == [path |-> <<>>, name |-> name]
IsLink(t, p) == PropertyAt(t, p).kind = "link"
LinksOf(t) ==
  {p \in UNION {[path : {path}, name : DOMAIN t[path]] : path \in DOMAIN t} : IsLink(t, p)}
ResolveLink(t, known, first) ==
  LET resolved[p \in LinksOf(t), depth \in 0..Redirects + 1] ==
        LET link == PropertyAt(t, p)
            aim == RootProperty(link.to)
            there == link.to \in DOMAIN t[<<>>]
            deeper == IF there /\ IsLink(t, aim) /\ aim \notin DOMAIN known
                      THEN resolved[aim, depth + 1] ELSE known
            fallback == IF link.otherwise # {} THEN CHOOSE v \in link.otherwise : TRUE
                        ELSE link
            found == IF ~there THEN fallback
                     ELSE IF ~IsLink(t, aim) THEN PropertyAt(t, aim)
                     ELSE IF deeper[aim] = PropertyAt(t, aim) THEN fallback
                     ELSE deeper[aim]
        IN IF depth > Redirects THEN (p :> link) @@ known ELSE (p :> found) @@ deeper
  IN resolved[first, 0]

(* sofi_theme_parse_process_links(), in any order; the root's are left for the  *)
(* lookups.                                                                     *)
ProcessLinks(t, order) ==
  FoldLeft(LAMBDA known, p : IF p \in DOMAIN known THEN known
                             ELSE ResolveLink(t, known, p), NoProperties, order)

Settle ==
  /\ phase = "overrides" /\ phase' = "settled" /\ blocks' = <<>>
  /\ screen' \in Screens /\ tree' = ProcessConditionals(tree, screen')
  /\ \E order \in SetToAllKPermutations(LinksOf(tree')) :
       /\ {p \in LinksOf(tree') : p.path # <<>>} = ToSet(order)
       /\ refs' = ProcessLinks(tree', order)
  /\ UNCHANGED <<settings, written, configured, reads, overrides>>

(* sofi_theme_find_single() and sofi_theme_find() *)
Step(path, name) == IF Append(path, name) \in DOMAIN tree THEN Append(path, name) ELSE path
FindWidget(name, state) == FoldLeft(Step, Step(<<>>, name), state)

(* sofi_theme_find_property(): what is of another type is passed over *)
Fits(kind, type) == kind \in {type, "inherit"} \/ (kind = "number" /\ type = "length")
Found(known, p, type) ==
  IF IsLink(tree, p)
  THEN LET ref == IF p \in DOMAIN known THEN known[p] ELSE ResolveLink(tree, known, p)[p]
       IN IF ref.kind = type THEN {ref} ELSE {}
  ELSE IF Fits(PropertyAt(tree, p).kind, type) THEN {PropertyAt(tree, p)} ELSE {}
FindProperty(path, type, name) ==
  LET up == [n \in 0..Len(path) |->
               IF name \in DOMAIN tree[SubSeq(path, 1, n)]
               THEN Found(refs, [path |-> SubSeq(path, 1, n), name |-> name], type) ELSE {}]
      set == {n \in DOMAIN up : up[n] # {}}
  IN IF set = {} THEN {} ELSE up[CHOOSE n \in set : \A other \in set : other <= n]

(* sofi_theme_get_*(): an inherited property is the parent's, whose name is     *)
(* looked up in the child's state                                               *)
Get(widget, type, name) ==
  LET inside[w \in DOMAIN Widgets, state \in {Widgets[v].state : v \in DOMAIN Widgets}] ==
        LET found == FindProperty(FindWidget(w, state), type, name)
        IN IF \A v \in found : v.kind # "inherit" THEN found
           ELSE IF Widgets[w].parent = "" THEN {}
           ELSE inside[Widgets[w].parent, Widgets[w].state]
  IN inside[widget, Widgets[widget].state]

(* A lookup that comes to a reference of the root resolves it. *)
LookUp ==
  /\ phase = "settled"
  /\ \E p \in LinksOf(tree) :
       p.path = <<>> /\ p \notin DOMAIN refs /\ refs' = ResolveLink(tree, refs, p)
  /\ UNCHANGED <<tree, blocks, settings, phase, written, configured, screen, reads,
                 overrides>>

ThemeNext == ReadFile \/ ReadTheme \/ EnsureLayout \/ Override \/ Settle \/ LookUp
--------------------------------------------------------------------------------
(* A rule is in force outside the blocks and in one that holds.                 *)
IsInForce(i) ==
  /\ written[i].kind = "rule"
  /\ written[i].block # "" => Holds(written[i].block, screen)

(* `*` is the root.  What it is in a block is open: the root, says theme.c:2028, *)
(* an ordinary child, says doc/sofi-theme.5.markdown:1978-1979.                 *)
IsOpen(i) == written[i].block # "" /\ written[i].path[1] = "*"
Target(i) == IF written[i].path = <<"*">> THEN <<>> ELSE written[i].path
Setting(path, name) ==
  {i \in DOMAIN written :
     IsInForce(i) /\ Target(i) = path /\ name \in DOMAIN written[i].properties}

(* The later of two rules wins.  It is open too what a rule outside the blocks, *)
(* or in a block begun before, does to an earlier one in a block: it wins, says *)
(* doc/sofi-theme.5.markdown:15-17; but theme.c merges the blocks when the rest *)
(* is there, one after another as they began.                                   *)
BlockOrder(i) ==
  IF written[i].block = "" THEN 0
  ELSE SelectInSeq(written, LAMBDA f : f.kind = "block" /\ f.block = written[i].block)
MayDecide(path, name) ==
  {i \in Setting(path, name) :
     \A j \in Setting(path, name) : j > i => BlockOrder(j) < BlockOrder(i) \/ IsOpen(j)}

AllNames == UNION {DOMAIN written[i].properties : i \in DOMAIN written}
NamesAt(path, rules) ==
  UNION {DOMAIN written[i].properties : i \in {j \in rules : Target(j) = path}}
PathsOf(rules) ==
  {<<>>} \cup UNION {{SubSeq(Target(i), 1, n) : n \in 0..Len(Target(i))} : i \in rules}
TreeAsWritten ==
  LET rules == {i \in DOMAIN written : IsInForce(i)}
      certain == {i \in rules : ~IsOpen(i)}
  IN /\ PathsOf(certain) \subseteq DOMAIN tree /\ DOMAIN tree \subseteq PathsOf(rules)
     /\ \A path \in DOMAIN tree :
          /\ NamesAt(path, certain) \subseteq DOMAIN tree[path]
          /\ \A name \in DOMAIN tree[path] :
               \E i \in MayDecide(path, name) :
                 tree[path][name] = written[i].properties[name]

(* doc/sofi-theme.5.markdown:15-17: the order of the array is the cascade: the  *)
(* last directive to name a widget and a property wins -- media blocks lie      *)
(* amongst the rules for that (theme-lua.c:2281-2284).                          *)
LastDirectiveWins ==
  phase = "settled" =>
    \A path \in DOMAIN tree \ {<<>>} : \A name \in DOMAIN tree[path] :
      tree[path][name] = written[Max(Setting(path, name))].properties[name]

(* The links a reference leads along, the first of them its own; one more than  *)
(* there are, if it leads in a circle.                                          *)
Trail(p) ==
  LET Onward(link) == /\ link.to \in DOMAIN tree[<<>>]
                      /\ IsLink(tree, RootProperty(link.to))
      trail[n \in 0..Cardinality(LinksOf(tree))] ==
        IF n = 0 THEN <<PropertyAt(tree, p)>>
        ELSE LET before == trail[n - 1]
             IN IF Len(before) = n /\ Onward(Last(before))
                THEN Append(before, tree[<<>>][Last(before).to]) ELSE before
  IN trail[Cardinality(LinksOf(tree))]

RefersTo(p) ==
  LET trail == Trail(p)
      last == Last(trail)
      round == Len(trail) > Cardinality(LinksOf(tree))
      given == {n \in DOMAIN trail : trail[n].otherwise # {}}
  IN IF ~round /\ last.to \in DOMAIN tree[<<>>] THEN {tree[<<>>][last.to]}
     ELSE IF given = {} THEN {PropertyAt(tree, p)}
     ELSE IF round THEN UNION {trail[n].otherwise : n \in given}
     ELSE trail[CHOOSE n \in given : \A other \in given : other <= n].otherwise

(* Settled, the tree has the paths that rules in force name, and of each what   *)
(* one that may decide says; every reference is what the end of its trail       *)
(* says, or the last default on it if nothing is there, some default of a       *)
(* circle, itself without any; and no widget is given a value of another type   *)
(* than it asked for (theme.c:107-125, 1246-1377, 2024-2248,                    *)
(* theme-lua.c:1733-1764, 2104-2440, sofi.c:1507-1890).  What is configured is  *)
(* what was last read, blocks and resets notwithstanding.                       *)
ThemeAsWritten ==
  /\ phase = "settled" =>
       /\ TreeAsWritten
       /\ \A p \in DOMAIN refs : refs[p] \in RefersTo(p)
       /\ \A widget \in DOMAIN Widgets, type \in {"number", "string", "length"},
             name \in AllNames : \A v \in Get(widget, type, name) :
               v.kind = type \/ (v.kind = "number" /\ type = "length")
  /\ \A name \in UNION {DOMAIN configured[i].properties : i \in DOMAIN configured} :
       settings[name] =
         configured[CHOOSE i \in DOMAIN configured :
                      /\ name \in DOMAIN configured[i].properties
                      /\ \A j \in DOMAIN configured :
                           j > i => name \notin DOMAIN configured[j].properties
                   ].properties[name]
================================================================================
