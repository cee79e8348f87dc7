----------------------------- MODULE Documents -----------------------------
(***************************************************************************)
(* Run documents: from a submitted TOML document to a run's definition.    *)
(*                                                                         *)
(* A controller's document refers to the documents of its children, inline *)
(* or in files, and these may again be controllers.  Submission freezes    *)
(* every reference to its text, merges the replacements given with the     *)
(* request, expands placeholders, applies the defaults of integrations and *)
(* checks the result; children are instantiated from the frozen text when  *)
(* the controller starts them, much later, with bindings of their own.     *)
(* Definitions are exported and submitted again as duplicates.             *)
(*                                                                         *)
(* A document has one field with a value or a placeholder $(p:default), an *)
(* optional evaluator, at most one child, and replacements for p.  A value *)
(* keeps its form: a placeholder that is the whole string takes the        *)
(* replacement as it is, one inside a longer string makes it text.         *)
(***************************************************************************)
EXTENDS Integers, Sequences, FiniteSets

CONSTANTS Files, Directory,   \* file contents that can occur: documents or None
          Submittable,        \* documents and their replacements a user submits
          ScanValue,          \* the value a scan binds p to
          MaxDepth,           \* child run reference nesting (32 in the code)
          MaxRuns, MaxEdits,  \* bounds
          None

VARIABLES disk, runs, edits, refused
vars == <<disk, runs, edits, refused>>

Kinds == {"integration", "integration_campaign", "parameter_scan"}
Plain(v) == [form |-> "plain", v |-> v]
Typed(d) == [form |-> "typed", v |-> d]     \* "$(p:d)"
Inside(d) == [form |-> "inside", v |-> d]   \* "... $(p:d) ..."
InFile(f) == [file |-> f, doc |-> None]
Inline(d) == [file |-> None, doc |-> d]

(***************************************************************************)
(* Freezing                                                                *)
(***************************************************************************)
\* validate_document: kinds have fields of their own; controllers are not integrations.
FieldsFit(d) ==
  /\ d.kind \in Kinds
  /\ (d.child # None) <=> (d.kind # "integration")
  /\ d.evaluator # None => d.kind = "integration"

RECURSIVE FreezeSources(_, _, _, _)
RECURSIVE ResolveChild(_, _, _, _)

\* resolve_child: the frozen document of a source, or None.
ResolveChild(source, files, stack, depth) ==
  LET doc == IF source.file = None THEN source.doc
             ELSE IF source.file \in stack THEN None       \* cyclic reference
             ELSE files[source.file]
      frozen == IF doc = None THEN None
                ELSE FreezeSources(doc, files, IF source.file = None THEN stack
                                               ELSE stack \cup {source.file}, depth)
  IN  IF frozen = None THEN None ELSE IF FieldsFit(frozen) THEN frozen ELSE None

KeepSources(doc, files, stack, depth) == doc     \* mutant: references are left to be read later
FreezeSources(doc, files, stack, depth) ==
  IF depth > MaxDepth THEN None
  ELSE IF doc.child = None THEN doc
  ELSE LET child == ResolveChild(doc.child.run, files, stack, depth + 1)
       IN  IF child = None THEN None ELSE [doc EXCEPT !.child.run = Inline(child)]

(***************************************************************************)
(* Placeholders and defaults                                               *)
(***************************************************************************)
\* expand_value on a string.
Filled(value, replacement) ==
  LET chosen == IF replacement = None THEN Plain(value.v) ELSE replacement
  IN  CASE value.form = "plain" -> value
        [] value.form = "typed" -> chosen
        [] value.form = "inside" -> [form |-> "plain", v |-> <<"text", chosen.v>>]

\* expand_toml_template: the table of replacements goes, and texts of child runs stay as they are.
Expand(doc) ==
  [doc EXCEPT !.field = Filled(@, doc.repl), !.repl = None,
              !.child = IF @ = None THEN None
                        ELSE [@ EXCEPT !.repl = IF @ = None THEN None ELSE Filled(@, doc.repl)]]

\* merge_replacements: those of the request win.
Merged(doc, bindings) == IF bindings = None THEN doc ELSE [doc EXCEPT !.repl = bindings]

\* parse_integration_value over config_defaults/run.toml: an evaluator of the default's kind takes
\* the options it leaves open, one of another kind takes none, and none is invented.
DefaultEvaluator == [kind |-> "unit", option |-> 7]
WithDefaults(doc) ==
  IF doc.kind # "integration" \/ doc.evaluator = None \/ doc.evaluator.kind # DefaultEvaluator.kind
    THEN doc
  ELSE [doc EXCEPT !.evaluator.option = IF @ = None THEN DefaultEvaluator.option ELSE @]

(***************************************************************************)
(* Definitions                                                             *)
(***************************************************************************)
RECURSIVE Instantiate(_, _, _)

\* instantiate_child: what a controller's definition makes of its child.
InstantiateChild(definition, extra, files) ==
  LET doc == ResolveChild(definition.child.run, files, {}, 1)
      bindings == IF extra # None THEN extra ELSE definition.child.repl
  IN  IF doc = None THEN None ELSE Instantiate(doc, bindings, files)

\* A campaign's children are integrations; of a scan one point is checked.
ChildrenFit(definition, files) ==
  LET child == InstantiateChild(definition,
                 IF definition.kind = "parameter_scan" THEN ScanValue ELSE None, files)
  IN  definition.child # None =>
        /\ child # None
        /\ definition.kind = "integration_campaign" => child.effective.kind = "integration"

\* instantiate and prepare_run: [original, effective], or None when the document is refused.
Instantiate(doc, bindings, files) ==
  LET frozen == FreezeSources(doc, files, {}, 0)
      merged == IF frozen = None THEN None ELSE Merged(frozen, bindings)
      effective == IF merged = None THEN None ELSE WithDefaults(Expand(merged))
  IN  IF effective = None THEN None
      ELSE IF FieldsFit(effective) /\ ChildrenFit(effective, files)
        THEN [original |-> merged, effective |-> effective]
      ELSE None

(***************************************************************************)
(* Actions                                                                 *)
(***************************************************************************)
Record(definition, doc, files, parent, extra) ==
  [original |-> definition.original, effective |-> definition.effective,
   source |-> doc, files |-> files, parent |-> parent, extra |-> extra]    \* ghosts

\* create_run
\* (one submission: definitions of different runs do not meet)
Submit(s) ==
  /\ runs = <<>>
  /\ \E d \in {Instantiate(s.doc, s.bindings, disk)} :
       /\ d # None
       /\ runs' = Append(runs, Record(d, Merged(s.doc, s.bindings), disk, 0, None))
  /\ UNCHANGED <<disk, edits, refused>>

\* A request that is refused changes nothing.
Refuse(s) ==
  /\ runs = <<>>
  /\ Instantiate(s.doc, s.bindings, disk) = None
  /\ UNCHANGED vars

\* create_child_run: a controller starts a child, with its point's value in a scan.
Spawn(i) ==
  /\ Len(runs) < MaxRuns
  /\ runs[i].effective.child # None
  /\ \E extra \in {IF runs[i].effective.kind = "parameter_scan" THEN ScanValue ELSE None} :
       \E d \in {InstantiateChild(runs[i].effective, extra, disk)} :
         IF d = None THEN refused' = refused \cup {i} /\ runs' = runs
         ELSE /\ runs' = Append(runs, Record(d, None, runs[i].files, i, extra))
              /\ refused' = refused
  /\ UNCHANGED <<disk, edits>>

\* export_run_definition: controllers give the expanded document, integrations the parameters and
\* tasks they were created with.
Export(run) == run.effective

\* Duplicating submits an export as it is, under a fresh name.
Duplicate(i) ==
  /\ Len(runs) < MaxRuns
  /\ \E d \in {Instantiate(Export(runs[i]), None, disk)} :
       IF d = None THEN refused' = refused \cup {i} /\ runs' = runs
       ELSE /\ runs' = Append(runs, [Record(d, None, runs[i].files, -i, None) EXCEPT !.extra = i])
            /\ refused' = refused
  /\ UNCHANGED <<disk, edits>>

EditFile(f) ==
  /\ edits < MaxEdits /\ edits' = edits + 1
  /\ \E c \in Directory : c # disk[f] /\ disk' = [disk EXCEPT ![f] = c]
  /\ UNCHANGED <<runs, refused>>

Init ==
  /\ disk \in [Files -> Directory]
  /\ runs = <<>> /\ edits = 0 /\ refused = {}

Next ==
  \/ \E s \in Submittable : Submit(s) \/ Refuse(s)
  \/ \E i \in DOMAIN runs : Spawn(i) \/ Duplicate(i)
  \/ \E f \in Files : EditFile(f)

Spec == Init /\ [][Next]_vars

(***************************************************************************)
(* Properties                                                              *)
(***************************************************************************)
RECURSIVE Closed(_)
Closed(doc) == doc.child = None \/ (doc.child.run.file = None /\ Closed(doc.child.run.doc))

\* Definitions are self-contained: no stored document refers to a file any more, at any depth.
SelfContained ==
  \A i \in DOMAIN runs : Closed(runs[i].original) /\ Closed(runs[i].effective)

\* The text a source had at submission.
Text(source, files) == IF source.file = None THEN source.doc ELSE files[source.file]

\* What p stands for in a child of the submitted document, read off the documents: what the
\* controller binds it to (a value of its own scope), else the child's own replacement, else its
\* default.  The controller's replacements are not otherwise visible.
Meant(doc, files, extra) ==
  LET text == Text(doc.child.run, files)
      bound == IF extra # None THEN extra
               ELSE IF doc.child.repl = None THEN None
               ELSE IF doc.child.repl.form = "plain" THEN doc.child.repl
               ELSE Filled(doc.child.repl, doc.repl)
  IN  Filled(text.field, IF bound # None THEN bound ELSE text.repl)

\* A child started at any time is the one that was submitted: later changes of files do not reach
\* it, and placeholders take the values of their own scope.
ChildAsSubmitted ==
  \A i \in DOMAIN runs :
    LET p == runs[i].parent
    IN  (p > 0 /\ runs[IF p > 0 THEN p ELSE 1].source # None) =>
          /\ runs[i].effective.kind = Text(runs[p].source.child.run, runs[p].files).kind
          /\ runs[i].effective.field = Meant(runs[p].source, runs[p].files, runs[i].extra)

\* Exporting a definition and submitting it again gives the same definition.
DuplicateIsSame ==
  \A i \in DOMAIN runs : runs[i].parent < 0 =>
    runs[i].effective = runs[runs[i].extra].effective

\* What was accepted can be carried out: no child of an accepted definition is refused when it is
\* started, nor an export when it is submitted, and a campaign only ever starts integrations.
AcceptedRuns ==
  /\ refused = {}
  /\ \A i \in DOMAIN runs :
       (runs[i].parent > 0 /\ runs[IF runs[i].parent > 0 THEN runs[i].parent ELSE 1].effective.kind
            = "integration_campaign")
       => runs[i].effective.kind = "integration"

\* Type of the variables.
TypeOK ==
  /\ edits \in 0 .. MaxEdits /\ Len(runs) <= MaxRuns /\ refused \subseteq DOMAIN runs
  /\ \A i \in DOMAIN runs :
       /\ runs[i].effective.repl = None /\ runs[i].effective.field.form = "plain"
       /\ runs[i].effective.kind \in Kinds
=============================================================================
