---------------------------- MODULE BuilderForm ----------------------------
(***************************************************************************)
(* The run form of one experiment (web/src/components/builder.tsx) in the  *)
(* tabs of one browser, its draft and the last model entered, which the    *)
(* tabs share through localStorage (lib/run-draft.ts).                     *)
(* A form keeps the edits only: what it shows and sends for a parameter is *)
(* the edit, else the last model (snapshotted when the form opened), else  *)
(* what the manifest declares.  A dependant's fields are those of the      *)
(* value its selector shows, so an edit of the selector drops its edit.    *)
(* Objects are functions from the fields they carry, lists sequences.      *)
(***************************************************************************)
EXTENDS Naturals, Sequences, FiniteSets, Browser

CONSTANTS Params,
    Decl,       \* parameter -> kind, initial, first, nullable, depends, schema, of, minLen
    Typed(_),   \* the texts a reader may type into a parameter's field, in these instances
    Cells,      \* and into a cell
    EarlierModels, \* the last models that earlier visits may have left
    Unset, Blank, None

Selector(d) == Decl[d].depends

(* A selector is neither a model nor a dependant itself: what those show   *)
(* changes without an edit of their own, and then nothing is dropped.      *)
ASSUME SelectorsPlain ==
    \A d \in Params : Selector(d) # None =>
        /\ Selector(d) \in Params
        /\ Decl[Selector(d)].kind # "llm"
        /\ Selector(Selector(d)) = None
ASSUME NoEdit == Unset # Blank
ASSUME NoneIsNoParam == None \notin Params
ASSUME DraftIsNoTab == "draft" \notin Tabs

VARIABLES
    open,       \* tab -> the form is mounted
    vals,       \* tab -> parameter -> its edit, or Unset
    snap,       \* tab -> the last model when the form was mounted or reset
    publish,    \* tab -> no publication, one with a bad target, or a good one
    draft,      \* the stored edits
    lastLlm,    \* the stored last model
    under       \* history: for the edits of a tab and of the draft ("draft"), what the
                \* selector of the parameter showed when the edit was made
formVars == <<open, vals, snap, publish, draft, lastLlm, under>>

NoEdits == [p \in Params |-> Unset]

FormInit ==
    /\ open = [t \in Tabs |-> FALSE]
    /\ vals = [t \in Tabs |-> NoEdits]
    /\ snap = [t \in Tabs |-> Blank]
    /\ publish = [t \in Tabs |-> "off"]
    /\ draft = NoEdits
    /\ lastLlm \in EarlierModels
    /\ under = [x \in Tabs \cup {"draft"} |-> NoEdits]

-----------------------------------------------------------------------------
(* What a parameter without an edit stands for, and what the form shows.   *)
DefaultStr(p) == IF Decl[p].initial # Blank THEN Decl[p].initial ELSE Decl[p].first
EffectiveStr(p, v) ==
    IF v = Unset \/ (v = Blank /\ ~Decl[p].nullable) THEN DefaultStr(p) ELSE v

Seeded(t, p) ==
    IF /\ Decl[p].kind = "llm" /\ ~Decl[p].nullable
       /\ vals[t][p] \in {Unset, Blank} /\ snap[t] # Blank
    THEN snap[t] ELSE vals[t][p]
Shown(t, p) == EffectiveStr(p, Seeded(t, p))

(* One loop for the copied command and the posted body: a parameter is     *)
(* bound, bound to null, or missing (Unset).                               *)
Materialized(t) ==
    [p \in Params |-> CASE Shown(t, p) # Blank -> Shown(t, p)
                        [] Shown(t, p) = Blank /\ Decl[p].nullable -> "null"
                        [] OTHER -> Unset]
Missing(t) ==
    {p \in Params : Materialized(t)[p] = Unset} \cup
        IF publish[t] = "bad" THEN {"publish target/profile"} ELSE {}

-----------------------------------------------------------------------------
Mount(t) ==
    /\ ~open[t]
    /\ open' = [open EXCEPT ![t] = TRUE]
    /\ vals' = [vals EXCEPT ![t] = draft]
    /\ under' = [under EXCEPT ![t] = under["draft"]]
    /\ snap' = [snap EXCEPT ![t] = lastLlm]
    /\ publish' = [publish EXCEPT ![t] = "off"]
    /\ UNCHANGED <<draft, lastLlm>>

Leave(t) ==
    /\ open[t]
    /\ open' = [open EXCEPT ![t] = FALSE]
    /\ UNCHANGED <<vals, snap, publish, draft, lastLlm, under>>

(* Mutant: the dependants keep their edits. *)
EditedAlone(t, p, v) == [vals[t] EXCEPT ![p] = v]

(* The value of p becomes v in the form and in the draft; last is the last *)
(* model as the widget left it.                                            *)
Edited(t, p, v) ==
    [q \in Params |-> IF Selector(q) = p THEN Unset ELSE IF q = p THEN v ELSE vals[t][q]]
SetLastLlm(last, v) == IF v = Blank THEN last ELSE v
SetParam(t, p, v, last) ==
    LET now == [q \in Params |->
                   IF q = p /\ Selector(p) # None THEN Shown(t, Selector(p)) ELSE under[t][q]]
    IN  /\ open[t]
        /\ vals' = [vals EXCEPT ![t] = Edited(t, p, v)]
        /\ draft' = Edited(t, p, v)
        /\ under' = [x \in Tabs \cup {"draft"} |-> IF x \in {t, "draft"} THEN now ELSE under[x]]
        /\ lastLlm' = IF Decl[p].kind = "llm" THEN SetLastLlm(last, v) ELSE last
        /\ UNCHANGED <<open, snap, publish>>

(* A text field, a select, or the raw text of a list or an object.  A      *)
(* select offers the empty choice only when the parameter may be empty.    *)
MayBeEmpty(p) == Decl[p].nullable \/ DefaultStr(p) = Blank
Type(t, p) ==
    \E v \in Typed(p) \ {Shown(t, p)} :
        /\ Decl[p].kind = "enum" /\ v = Blank => MayBeEmpty(p)
        /\ SetParam(t, p, v, lastLlm)

(* The sub-form of an object: a field at its initial value is left out.    *)
VariantFields(t, p) ==
    IF Selector(p) = None THEN DOMAIN Decl[p].schema[Blank]
    ELSE IF Shown(t, Selector(p)) \in DOMAIN Decl[p].schema
         THEN DOMAIN Decl[p].schema[Shown(t, Selector(p))] ELSE {}
FieldInitial(p, sel, f) == Decl[p].schema[sel][f].initial
EditField(t, p) ==
    LET sel == IF Selector(p) = None THEN Blank ELSE Shown(t, Selector(p))
        obj == IF Shown(t, p) = Blank THEN <<>> ELSE Shown(t, p) IN
    /\ Decl[p].kind = "object"
    /\ \E f \in VariantFields(t, p), v \in Cells :
          /\ v # IF f \in DOMAIN obj THEN obj[f] ELSE FieldInitial(p, sel, f)
          /\ LET rest == [g \in DOMAIN obj \ {f} |-> obj[g]]
                 next == IF v \in {Blank, FieldInitial(p, sel, f)} THEN rest
                         ELSE [g \in DOMAIN obj \cup {f} |-> IF g = f THEN v ELSE obj[g]]
             IN  SetParam(t, p, next, IF Decl[p].schema[sel][f].kind = "llm"
                                      THEN SetLastLlm(lastLlm, v) ELSE lastLlm)

(* The row editor: a cleared cell, a new row and a field that a row lacks  *)
(* take the empty value of their kind, a model the last one.               *)
ZeroOf(p, f, last) == IF Decl[p].schema[f].kind = "llm" THEN last ELSE "0"
Rows(t, p) == IF Shown(t, p) = Blank THEN <<>> ELSE Shown(t, p)
Serialize(p, rows, last) ==
    [i \in DOMAIN rows |-> [f \in DOMAIN Decl[p].schema |->
        IF f \in DOMAIN rows[i] THEN rows[i][f] ELSE ZeroOf(p, f, last)]]
EditCell(t, p) ==
    /\ Decl[p].kind = "rows"
    /\ \E i \in DOMAIN Rows(t, p), f \in DOMAIN Decl[p].schema, v \in Cells :
          LET row  == Rows(t, p)[i]
              cell == IF v = Blank THEN ZeroOf(p, f, lastLlm) ELSE v
              last == IF Decl[p].schema[f].kind = "llm" THEN SetLastLlm(lastLlm, v) ELSE lastLlm
              was  == IF f \in DOMAIN row THEN row[f] ELSE ZeroOf(p, f, lastLlm)
              set  == [g \in DOMAIN row \cup {f} |-> IF g = f THEN cell ELSE row[g]]
          IN  v # was /\ SetParam(t, p, Serialize(p, [Rows(t, p) EXCEPT ![i] = set], last), last)
AddRow(t, p) ==
    /\ Decl[p].kind = "rows"
    /\ SetParam(t, p, Serialize(p, Append(Rows(t, p), <<>>), lastLlm), lastLlm)
Without(s, i) == [k \in 1..Len(s) - 1 |-> s[IF k < i THEN k ELSE k + 1]]
RemoveRow(t, p) ==
    /\ Decl[p].kind = "rows"
    /\ Len(Rows(t, p)) > Decl[p].minLen
    /\ \E i \in DOMAIN Rows(t, p) :
          SetParam(t, p, Serialize(p, Without(Rows(t, p), i), lastLlm), lastLlm)

(* The editor of a list of scalars: the same without fields.               *)
EditList(t, p) ==
    LET zero == IF Decl[p].of = "llm" THEN lastLlm ELSE "0" IN
    /\ Decl[p].kind = "list"
    /\ \/ \E i \in DOMAIN Rows(t, p), v \in Cells : v # Rows(t, p)[i] /\
             SetParam(t, p, [Rows(t, p) EXCEPT ![i] = IF v = Blank THEN zero ELSE v],
                      IF Decl[p].of = "llm" THEN SetLastLlm(lastLlm, v) ELSE lastLlm)
       \/ SetParam(t, p, Append(Rows(t, p), zero), lastLlm)
       \/ Len(Rows(t, p)) > Decl[p].minLen
             /\ \E i \in DOMAIN Rows(t, p) : SetParam(t, p, Without(Rows(t, p), i), lastLlm)

(* Back to a fresh form, with the last model as a new form would have it.  *)
Reset(t) ==
    /\ open[t] /\ vals[t] # NoEdits
    /\ vals' = [vals EXCEPT ![t] = NoEdits]
    /\ draft' = NoEdits
    /\ snap' = [snap EXCEPT ![t] = lastLlm]
    /\ UNCHANGED <<open, publish, lastLlm, under>>

SetPublish(t) ==
    /\ open[t]
    /\ \E x \in {"off", "bad", "good"} \ {publish[t]} : publish' = [publish EXCEPT ![t] = x]
    /\ UNCHANGED <<open, vals, snap, draft, lastLlm, under>>

Edit(t) ==
    \/ \E p \in Params :
          \/ Type(t, p) \/ EditField(t, p)
          \/ EditCell(t, p) \/ AddRow(t, p) \/ RemoveRow(t, p)
          \/ EditList(t, p)
    \/ Reset(t)
    \/ SetPublish(t)
FormNext == \E t \in Tabs : Mount(t) \/ Leave(t) \/ Edit(t)
FormSpec == FormInit /\ [][FormNext]_formVars

-----------------------------------------------------------------------------
(* A dependant's edit was made for the value its selector shows: the form  *)
(* never sends the fields of one task with another one, in any tab and     *)
(* whatever another tab left in the draft (builder.tsx:500-505).           *)
DependantFollows ==
    \A t \in Tabs, d \in Params :
        open[t] /\ Selector(d) # None /\ vals[t][d] # Unset
            => under[t][d] = Shown(t, Selector(d))
=============================================================================
