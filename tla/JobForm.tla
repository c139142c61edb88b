------------------------------- MODULE JobForm -------------------------------
(***************************************************************************)
(* One parameter of a benchmark job in the job form (benchmarks.html and   *)
(* partials/job_form.html): the row's checkboxes or text, the settings of  *)
(* the speculative modes, what is posted, what the server makes of it      *)
(* (resolveSweeps), and how the stored job is shown again.  The form and   *)
(* the job are loaded anew whenever the dialog opens, and the replies may  *)
(* come in any order, or not at all.                                       *)
(***************************************************************************)
EXTENDS Naturals, Sequences, SequencesExt

CONSTANTS
    MaxBoxes, MaxLoads,     \* bounds: checkboxes of a row; loads under way
    MaxCells                \* data-max-cells

VARIABLES
    row,        \* the parameter (Init picks one)
    more,       \* the job sets another parameter as well
    job,        \* the stored job, of which the parameter's part is followed
    showing, editing, \* the dialog, and whether a save will be a PUT to the job
    form,       \* the row in the loaded form
    unmapped,   \* unmappedOverrides
    loads,      \* loads of the form under way, oldest first
    untouched, raced \* history: since it arrived; opened while one was under way

formVars == <<row, more, job, showing, editing, form, unmapped, loads, untouched, raced>>

\* A value is what is before its ":" and "+" (a plain value only has that), the
\* n-gram assist after the "+", and the settings.
V(name) == [name |-> name, assist |-> "", settings |-> {}]
Blank == V("")
Unset == V("unset")

Drafts == {"draft-mtp"}
Assists == {"ngram-mod"}
Modes == {"draft-mtp", "ngram-mod"}     \* the boxes that are followed

Rows == {"temperature", "gpu_assign", "tensor_split", "spec_type"}

\* What the inputs of a mode's box hold: the assist chosen in it, draft_max and
\* assist_n_max ("" when it is empty, or is not in the box).  Bound: only the
\* settings of a draft mode are changed.
Inputs(mode) ==
    [assist : IF mode \in Drafts THEN {""} \cup Assists ELSE {""},
     max : IF mode \in Drafts THEN {"", "6"} ELSE {""},
     nmax : IF mode \in Drafts THEN {"", "64"} ELSE {"64"}]

\* updateSpecValue's encoding, and the server's of the choices it offers.
Encode(mode, in) ==
    [name |-> mode, assist |-> in.assist,
     settings |-> {s \in {<<"draft_max", in.max>>, <<"assist_n_max", in.nmax>>} :
                      /\ s[2] # ""
                      /\ s[1] = "assist_n_max" /\ mode \in Drafts => in.assist = "ngram-mod"}]

Setting(v, key) ==
    IF \E s \in v.settings : s[1] = key
    THEN (CHOOSE s \in v.settings : s[1] = key)[2] ELSE ""

\* The inputs as the server renders them, with the recommended settings.
DefaultInputs ==
    [mode \in Modes |-> IF mode \in Drafts THEN [assist |-> "", max |-> "6", nmax |-> "64"]
                        ELSE [assist |-> "", max |-> "", nmax |-> "64"]]

\* The numbers among the values, in tenths.
NumberOf == [v \in {"0", "1", "1.0", "0.5"} |->
                CASE v = "0" -> 0 [] v = "0.5" -> 5 [] OTHER -> 10]

NumEqPrefix(a, b) ==    \* faulty variant of NumEq: "0-1" counts as 0
    LET number(v) == IF v.name = "0-1" THEN "0" ELSE v.name
    IN a = b \/ (number(a) \in DOMAIN NumberOf /\ number(b) \in DOMAIN NumberOf
                 /\ NumberOf[number(a)] = NumberOf[number(b)])

NumEq(a, b) ==
    a = b \/ (a.name \in DOMAIN NumberOf /\ b.name \in DOMAIN NumberOf
              /\ NumberOf[a.name] = NumberOf[b.name])

-----------------------------------------------------------------------------
\* The row as the form has it.
Choice(v, mode) == [value |-> v, checked |-> FALSE, mode |-> mode]

\* The checkboxes of a row, as the template renders its choices.
BoxesFor(values) == FoldLeft(LAMBDA out, v : Append(out, Choice(V(v), "")), <<>>, values)

\* The saved value is ticked.
MkRow(values) ==
    [boxes |-> BoxesFor(values),
     inherit |-> TRUE,
     inputs |-> DefaultInputs, text |-> <<>>, summary |-> <<>>, picked |-> FALSE, cells |-> 0]

\* A text row has no checkbox, and none for the saved value.
MkTextRow == MkRow(<<>>)

\* The server encodes the values of the modes that it offers.
MkSpecRow ==
    [MkRow(<<"none">>) EXCEPT !.boxes = @ \o
        [i \in 1..2 |-> LET mode == <<"draft-mtp", "ngram-mod">>[i]
                        IN Choice(Encode(mode, DefaultInputs[mode]), mode)]]

\* The boxes of the models, the builds and the presets, together: whether one of
\* each is ticked.  Bound: no more than one of each.
MkCheck(f, checked) == [f EXCEPT !.picked = checked]

\* Bound: two of the choices of a row (its other choices are like them).
RenderedForm(r) ==
    CASE r = "temperature" -> MkRow(<<"0", "1.0">>)
      [] r = "gpu_assign" -> MkRow(<<"0", "0-1">>)
      [] r = "tensor_split" -> MkTextRow
      [] r = "spec_type" -> MkSpecRow

BuildJobForm == RenderedForm(row)

\* What can be typed: into the custom entry, or between the separators.
Typed ==
    CASE row = "temperature" -> {V("1"), V("0.5")}
      [] row = "gpu_assign" -> {V("0"), V("1-2")}
      [] row = "tensor_split" -> {Blank, V("1,1"), V("3,1")}
      [] row = "spec_type" -> {}

NoForm == [MkTextRow EXCEPT !.inherit = FALSE]

-----------------------------------------------------------------------------
\* The form that the tests of these scripts work on (web/jstest/dom.js), with the
\* same choices of its rows.
TestRow(choices) ==
    [NoForm EXCEPT !.boxes = [i \in DOMAIN choices |-> Choice(V(choices[i]), "")],
                   !.inherit = TRUE]

TestTextRow == TestRow(<<>>)

\* The value of the draft mode is its name alone; the n-gram mode's has its settings.
TestSpecRow ==
    [TestRow(<<"none">>) EXCEPT
        !.boxes = @ \o <<Choice(V("draft-mtp"), "draft-mtp"),
                         Choice([V("ngram-mod") EXCEPT !.settings = {<<"assist_n_max", "64">>}],
                                "ngram-mod")>>,
        !.inputs["draft-mtp"] = [assist |-> "", max |-> "6", nmax |-> "64"],
        !.inputs["ngram-mod"] = [assist |-> "", max |-> "", nmax |-> "64"]]

\* A model, a build and a preset are ticked from the start.
TestCheck(f) == [f EXCEPT !.picked = TRUE]

TestForm(r) ==
    TestCheck(CASE r = "temperature" -> TestRow(<<"0", "1.0">>)
                [] r = "gpu_assign" -> TestRow(<<"0", "0-1">>)
                [] r = "tensor_split" -> TestTextRow
                [] r = "spec_type" -> TestSpecRow)

\* What the tests' form is, of the form the page renders: one of each is ticked, and
\* a draft mode's value lacks its settings.
AsTested(f) ==
    [MkCheck(f, TRUE) EXCEPT !.boxes = [i \in DOMAIN @ |->
        IF @[i].mode \in Drafts THEN [@[i] EXCEPT !.value = V(@.name)] ELSE @[i]]]

-----------------------------------------------------------------------------
ParamValues(f) ==
    IF row = "tensor_split" THEN SelectSeq(f.text, LAMBDA v : v # Blank)
    ELSE IF f.inherit THEN <<>>
    ELSE LET checked == SelectSeq(f.boxes, LAMBDA b : b.checked)
         IN [i \in DOMAIN checked |-> checked[i].value]

\* The size of the matrix that is shown; 0 where the form asks for a selection.
UpdateMatrixCount(f) ==
    [f EXCEPT !.cells = IF f.picked THEN Max({1, Len(ParamValues(f))}) ELSE 0]

SyncParamRow(f) ==
    UpdateMatrixCount(
        [f EXCEPT !.summary = IF row = "tensor_split" THEN <<>> ELSE ParamValues(f)])

OnParamInheritToggle(f) ==
    LET ticked == ~f.inherit
    IN SyncParamRow([f EXCEPT !.inherit = ticked,
          !.boxes = [i \in DOMAIN @ |-> [@[i] EXCEPT !.checked = @ /\ ~ticked]]])

OnParamValueToggle(f, i) ==
    SyncParamRow([f EXCEPT !.boxes[i].checked = ~@,
                           !.inherit = @ /\ f.boxes[i].checked])

BoxOf(f, mode) == CHOOSE i \in DOMAIN f.boxes : f.boxes[i].mode = mode

\* An input or the dropdown of a mode's box was changed.
UpdateSpecValue(f, mode, in) ==
    LET i == BoxOf(f, mode)
    IN SyncParamRow([f EXCEPT !.inputs[mode] = in, !.inherit = FALSE,
          !.boxes[i].value = Encode(mode, in), !.boxes[i].checked = TRUE])

\* addParamValue: a mode's value goes to its checkbox and inputs; the settings of
\* an assist that is not chosen are emptied.
RestoreMode(f, v) ==
    LET i == BoxOf(f, v.name)
        hidden == v.name \in Drafts /\ v.assist # "ngram-mod"
    IN [f EXCEPT !.boxes[i].value = v, !.boxes[i].checked = TRUE, !.inherit = FALSE,
          !.inputs[v.name] = [assist |-> v.assist, max |-> Setting(v, "draft_max"),
                              nmax |-> IF hidden THEN "" ELSE Setting(v, "assist_n_max")]]

AddParamValue(f, v) ==
    LET same == {i \in DOMAIN f.boxes : NumEq(f.boxes[i].value, v)}
    IN SyncParamRow(
        IF v.name # "" /\ \E i \in DOMAIN f.boxes : f.boxes[i].mode = v.name
        THEN RestoreMode(f, v)
        ELSE IF same # {}
        THEN [f EXCEPT !.boxes[Min(same)].checked = TRUE, !.inherit = FALSE]
        ELSE [f EXCEPT !.boxes = Append(@, [Choice(v, "") EXCEPT !.checked = TRUE]),
                       !.inherit = FALSE])

\* prefillJobForm: each checkbox takes the first value left that equals its own,
\* and what remains is added.
Match(m, i) ==
    LET hits == {k \in DOMAIN m.wanted : NumEq(m.wanted[k], m.f.boxes[i].value)}
    IN IF hits = {} THEN m
       ELSE [f |-> [m.f EXCEPT !.boxes[i].checked = TRUE],
             wanted |-> RemoveAt(m.wanted, Min(hits))]

Selection(j) == IF j.swept # <<>> THEN j.swept ELSE IF j.fixed = Unset THEN <<>> ELSE <<j.fixed>>

PrefillJobForm(j) ==
    LET values == Selection(j)
        f == MkCheck(BuildJobForm, TRUE)
        m == FoldLeft(Match, [f |-> f, wanted |-> values], [i \in DOMAIN f.boxes |-> i])
    IN IF row = "tensor_split" THEN [f EXCEPT !.text = values]
       ELSE SyncParamRow([FoldLeft(AddParamValue, m.f, m.wanted)
                            EXCEPT !.inherit = values = <<>>])

-----------------------------------------------------------------------------
\* SplitParams: without blanks and repetitions; numbers are the same if equal.
Distinct(values) ==
    LET same(a, b) == IF row = "temperature" THEN NumEq(a, b) ELSE a = b
    IN FoldLeft(LAMBDA out, v :
                   IF v = Blank \/ \E i \in DOMAIN out : same(out[i], v) THEN out
                   ELSE Append(out, v), <<>>, values)

\* The overrides of the settings of speculative decoding, and of the assist.
NoRest == [assist |-> "unset", settings |-> {}]

\* A single value fixes the parameter.  A number is stored as one; applySpecValue
\* takes a speculative value to pieces.
Fix(v) ==
    CASE row = "temperature" -> [fixed |-> IF v = V("1.0") THEN V("1") ELSE v, rest |-> NoRest]
      [] row = "spec_type" ->
            [fixed |-> IF v.name \in Drafts THEN V(v.name) ELSE Blank,
             rest |-> [assist |-> IF v.name \in Assists THEN v.name ELSE v.assist,
                       settings |-> v.settings]]
      [] OTHER -> [fixed |-> v, rest |-> NoRest]

\* KeepUnsweepable: the settings of speculative decoding, which the parameters can
\* say, go from the overrides; others stay.
KeepUnsweepable(overrides) == [overrides EXCEPT !.rest = NoRest]

\* SplitParams: one value fixes the parameter, several sweep it.
SplitParams(values) ==
    [fix |-> IF Len(values) = 1 THEN Fix(values[1]) ELSE [fixed |-> Unset, rest |-> NoRest],
     swept |-> IF Len(values) > 1 THEN values ELSE <<>>]

\* MergeOverrides: what the parameters fix is put over the base.
MergeOverrides(base, fix) ==
    [fixed |-> fix.fixed, rest |-> IF fix.rest = NoRest THEN base.rest ELSE fix.rest,
     path |-> base.path]

\* resolveSweeps of what submitNewJob posts; without parameters the overrides are
\* taken as they are sent.
Saved(f) ==
    LET posted == ParamValues(f)
        split == SplitParams(Distinct(posted))
        base == IF posted # <<>> \/ more THEN KeepUnsweepable(unmapped) ELSE unmapped
        merged == MergeOverrides(base, split.fix)
    IN [fixed |-> merged.fixed, rest |-> merged.rest, path |-> merged.path,
        swept |-> split.swept]

NoJob == [fixed |-> Unset, rest |-> NoRest, path |-> FALSE, swept |-> <<>>]
NoUnmapped == [rest |-> NoRest, path |-> FALSE]

\* What prefillJobForm finds no row for.
Unmapped(j) == [rest |-> j.rest, path |-> j.path]

-----------------------------------------------------------------------------
\* The job may have been made over the API, with another parameter and with a
\* draft_model_path.
FormInit ==
    /\ row \in Rows /\ more \in BOOLEAN
    /\ job = [NoJob EXCEPT !.path = more]
    /\ showing = FALSE /\ editing = FALSE
    /\ form = NoForm /\ unmapped = NoUnmapped
    /\ loads = <<>>
    /\ untouched = TRUE /\ raced = FALSE

\* openJobForm and openJobEditForm; loadJobForm empties the dialog.
OpenForm(edit) ==
    /\ ~showing /\ Len(loads) < MaxLoads
    /\ showing' = TRUE /\ editing' = edit
    /\ form' = NoForm
    /\ unmapped' = IF edit THEN unmapped ELSE NoUnmapped
    /\ loads' = Append(loads, edit)
    /\ raced' = (loads # <<>>)
    /\ untouched' = TRUE
    /\ UNCHANGED <<row, more, job>>

\* The replies of a load are there, whatever the dialog is now open for (the
\* server's is as old as that: an older one differs only where a save came in
\* between, and then the load has been overtaken).
FormArrives ==
    \E i \in DOMAIN loads :
        /\ loads' = RemoveAt(loads, i)
        /\ form' = IF ~showing THEN NoForm
                   ELSE UpdateMatrixCount(
                            IF loads[i] THEN PrefillJobForm(job) ELSE BuildJobForm)
        /\ unmapped' = IF loads[i] THEN Unmapped(job) ELSE unmapped
        /\ untouched' = TRUE
        /\ UNCHANGED <<row, more, job, showing, editing, raced>>

\* A load fails, in the form's request or in the job's: the dialog, whatever it is
\* open for by now, says so in place of a form.
LoadFails ==
    \E i \in DOMAIN loads :
        /\ loads' = RemoveAt(loads, i)
        /\ form' = NoForm /\ untouched' = TRUE
        /\ UNCHANGED <<row, more, job, showing, editing, unmapped, raced>>

Loaded == showing /\ form # NoForm

Edited(f) ==
    /\ Loaded /\ form' = f
    /\ untouched' = FALSE
    /\ UNCHANGED <<row, more, job, showing, editing, unmapped, loads, raced>>

ToggleValue == \E i \in DOMAIN form.boxes : Edited(OnParamValueToggle(form, i))

ToggleInherit == row # "tensor_split" /\ Edited(OnParamInheritToggle(form))

\* addParamCustom.
AddCustom ==
    \E v \in Typed : /\ row # "tensor_split" /\ Len(form.boxes) < MaxBoxes
                     /\ Edited(AddParamValue(form, v))

TypeText ==
    /\ row = "tensor_split"
    /\ \E n \in 0..2 : \E text \in [1..n -> Typed] :
          Edited(UpdateMatrixCount([form EXCEPT !.text = text]))

Pick == Edited(UpdateMatrixCount(MkCheck(form, ~form.picked)))

ChangeSetting ==
    /\ row = "spec_type"
    /\ \E mode \in Modes : \E in \in Inputs(mode) :
        in # form.inputs[mode] /\ Edited(UpdateSpecValue(form, mode, in))

CloseForm ==
    /\ showing' = FALSE /\ form' = NoForm /\ untouched' = TRUE
    /\ UNCHANGED <<row, more, job, editing, unmapped, loads, raced>>

\* submitNewJob, unless the count has disabled the button: a PUT to the job, or a
\* POST of another one, which is not followed.  The request and its answer are one
\* step.
Submitted == IF editing THEN Saved(form) ELSE job

SubmitNewJob ==
    /\ Loaded /\ form.cells \in 1..MaxCells
    /\ job' = Submitted
    /\ showing' = FALSE /\ form' = NoForm /\ untouched' = TRUE
    /\ UNCHANGED <<row, more, editing, unmapped, loads, raced>>

\* The server refuses what is submitted, or its answer is lost and the job was
\* saved: the form stays open, with the error.
SubmitFails ==
    /\ Loaded /\ form.cells \in 1..MaxCells
    /\ job' \in {job, Submitted}
    /\ UNCHANGED <<row, more, showing, editing, form, unmapped, loads, untouched, raced>>

FormNext ==
    \/ \E edit \in BOOLEAN : OpenForm(edit)
    \/ FormArrives \/ LoadFails \/ CloseForm \/ SubmitNewJob \/ SubmitFails
    \/ ToggleValue \/ ToggleInherit \/ AddCustom \/ TypeText \/ ChangeSetting \/ Pick

FormSpec == FormInit /\ [][FormNext]_formVars

FormTypeOK ==
    /\ row \in Rows /\ {more, showing, editing, untouched, raced} \subseteq BOOLEAN
    /\ form.inputs \in [Modes -> UNION {Inputs(mode) : mode \in Modes}]
    /\ Len(form.boxes) <= MaxBoxes /\ Len(loads) <= MaxLoads
    /\ DOMAIN job = DOMAIN NoJob /\ DOMAIN unmapped = DOMAIN NoUnmapped

-----------------------------------------------------------------------------
\* What the form shows is what it will post: the summary names the selected
\* values, the selected value of a speculative mode is what its inputs and its
\* dropdown say, the saved value is not asked for along with others, no two
\* selected values are the same number, and each selected value is a cell of the
\* matrix for the count and for the server alike (which drops what a text repeats,
\* and the empty box that shows a fixed "none").
ShownIsPosted ==
    LET boxes == form.boxes
        posted == ParamValues(form)
    IN /\ row # "tensor_split" => form.summary = posted
       /\ form.cells = IF form.picked THEN Max({1, Len(posted)}) ELSE 0
       /\ row # "tensor_split" /\ Blank \notin ToSet(posted) => Distinct(posted) = posted
       /\ \A i \in DOMAIN boxes :
            boxes[i].mode # "" => boxes[i].value = Encode(boxes[i].mode, form.inputs[boxes[i].mode])
       /\ \A i, k \in DOMAIN boxes :
            boxes[i].checked => /\ ~form.inherit
                                /\ boxes[k].checked /\ i # k =>
                                     ~NumEq(boxes[i].value, boxes[k].value)

\* A fixed speculative value of which the form, shown again, has not everything.
TakenToPieces(j) ==
    /\ row = "spec_type" /\ j.fixed # Unset
    /\ j.fixed = Blank \/ j.rest # [assist |-> "", settings |-> {}]

\* Opening a job and saving it as it is shown leaves the job as it was, down to
\* the settings the form cannot show; only a single speculative value that has
\* settings, an assist or no draft method is not shown again as it was chosen.
\* The form for a new job starts empty.  Both hold of a form whose dialog was
\* opened when no earlier load of it was under way: the reply to an earlier one
\* may replace it.
EditKeepsJob ==
    Loaded /\ untouched /\ ~raced =>
        IF editing THEN Saved(form) = job \/ TakenToPieces(job) ELSE form = BuildJobForm

\* A setting of the job that the form has no control for is never lost.
UnmappedKept == Loaded /\ editing /\ ~raced => unmapped.path = job.path

JobFormKept == ShownIsPosted /\ EditKeepsJob /\ UnmappedKept
=============================================================================
