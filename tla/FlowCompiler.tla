---------------------------- MODULE FlowCompiler ----------------------------
(***************************************************************************)
(* The compiler of flows (flow_ir.py, flow_compile.py): an author adds a   *)
(* step at a time, and each that passes becomes a SELECT over the steps    *)
(* before it. Next to what the compiler makes of a step (its schema and    *)
(* the kinds of its columns) stands what the engine makes of it: each      *)
(* column with the source columns its cells come from, and the source      *)
(* columns that choose and order the rows.                                 *)
(*                                                                         *)
(* The engine takes a quoted name for the first column whose name folds    *)
(* alike. Values, parameters and the text of the SQL are left out.         *)
(***************************************************************************)
EXTENDS Naturals, Sequences, FiniteSets

CONSTANTS
    Folded,         \* name -> what identifiers that are confused with it fold to
    Tables,         \* dataset -> Seq of [name, kind]
    Invented,       \* names an author may give a column
    HelperNames,    \* Seq of names for row_number(), in the order they are tried
    Expressions,    \* that an author may write, well formed or not, and their parts
    MaxNesting,     \* of operations in an expression
    MaxSteps        \* bound

ValueKinds == {"number", "text", "boolean", "time"}

CompilerConstants ==
    /\ MaxNesting \in Nat /\ MaxSteps \in Nat
    /\ \A d \in DOMAIN Tables :
          Tables[d] \in Seq([name : DOMAIN Folded, kind : ValueKinds \cup {""}])
    /\ HelperNames \in Seq(DOMAIN Folded)
    /\ \A e \in Expressions :
          /\ e.t \in {"col", "lit", "op"}
          /\ e.t = "op" => \A i \in DOMAIN e.args : e.args[i] \in Expressions

ASSUME FlowCompilerAssumption == CompilerConstants

VARIABLES
    steps,          \* Seq of [inputs, schema, kinds, cells, rows]
    mentioned,      \* the column names that the flow mentions
    sourced         \* the datasets that it reads

compilerVars == <<steps, mentioned, sourced>>

\* "" has no opinion.
NoKinds == [name \in {} |-> ""]
OneKind(name, kind) == [n \in {name} |-> kind]
KindIn(kinds, name) == IF name \in DOMAIN kinds THEN kinds[name] ELSE ""

\* The kinds and more, which wins where both name a column.
With(kinds, more) ==
    [n \in DOMAIN kinds \cup DOMAIN more |-> IF n \in DOMAIN more THEN more[n] ELSE kinds[n]]

Members(seq) == {seq[i] : i \in DOMAIN seq}

Col(name) == [t |-> "col", name |-> name]
Lit(kind) == [t |-> "lit", kind |-> kind]
Op(op, args) == [t |-> "op", op |-> op, args |-> args]

NumberOps == {"add", "sub", "mul", "div", "abs", "round", "floor"}
TextOps == {"upper", "lower", "trim", "concat"}
Comparisons == {"eq", "ne", "lt", "lte", "gt", "gte"}
BooleanOps ==
    Comparisons \cup {"and", "or", "not", "is_null", "is_not_null", "in", "not_in", "like"}

Unary == {"not", "is_null", "is_not_null", "upper", "lower", "trim", "length", "abs", "floor"}
AtLeastTwo == {"and", "or", "in", "not_in", "coalesce", "concat"}

TakesArgs(op, n) ==
    CASE op \in Unary -> n = 1
      [] op \in AtLeastTwo -> n >= 2
      [] op = "if_else" -> n = 3
      [] op = "round" -> n \in 1..2
      [] OTHER -> n = 2

IsBoolean(e) == e.t = "op" /\ e.op \in BooleanOps

\* _validate_op_shape.
Shaped(op, args) ==
    /\ op \in {"in", "not_in"} => \A i \in 2..Len(args) : args[i].t = "lit"
    /\ op = "like" => args[2] = Lit("text")
    /\ op = "date_trunc" => args[1] = Lit("text")
    /\ op = "round" /\ Len(args) = 2 => args[2] = Lit("number")
    /\ op = "if_else" => IsBoolean(args[1])

\* The operations: they are named in these lists, or once here.
Ops == Unary \cup AtLeastTwo \cup NumberOps \cup BooleanOps \cup {"if_else", "date_trunc"}

\* What has no more than n levels: validate_expr, whose depth is at most MaxNesting.
WellShapedIn[n \in Nat] ==
    IF n = 0 THEN {}
    ELSE {e \in Expressions : e.t = "op" =>
            /\ e.op \in Ops /\ TakesArgs(e.op, Len(e.args)) /\ Shaped(e.op, e.args)
            /\ \A i \in DOMAIN e.args : e.args[i] \in WellShapedIn[n - 1]}

WellShaped(e) == e \in WellShapedIn[MaxNesting + 1]

\* Of what is well shaped, as are the kinds below.
NamesWithin[n \in Nat] ==
    IF n = 0 THEN [e \in Expressions |-> {}]
    ELSE [e \in Expressions |->
            CASE e.t = "col" -> {e.name}
              [] e.t = "lit" -> {}
              [] OTHER -> UNION {NamesWithin[n - 1][e.args[i]] : i \in DOMAIN e.args}]

NamesIn(e) == NamesWithin[MaxNesting + 1][e]

BranchArgs(e) == DOMAIN e.args \ (IF e.op = "if_else" THEN {1} ELSE {})

Branches(e, below) == {below[e.args[i]] : i \in BranchArgs(e)}

\* The only one of the kinds that is one; otherwise the other.
Agreed(kinds, otherwise) ==
    IF \E k \in kinds : kinds \ {""} = {k} THEN CHOOSE k \in kinds : k # "" ELSE otherwise

\* Where the operation says it.
ResultKind(e) ==
    CASE IsBoolean(e) -> "boolean"
      [] e.op \in NumberOps \cup {"length"} -> "number"
      [] e.op \in TextOps -> "text"
      [] e.op = "date_trunc" -> "time"
      [] OTHER -> ""

Branching(e) == e.op \in {"if_else", "coalesce"}

\* _expr_kind: branches that agree, but for those without an opinion.
KindOf(e, kinds, below) ==
    CASE e.t = "col" -> KindIn(kinds, e.name)
      [] e.t = "lit" -> e.kind
      [] e.t = "op" /\ Branching(e) -> Agreed(Branches(e, below), "")
      [] OTHER -> ResultKind(e)

ExprKind(e, kinds) ==
    LET within[n \in Nat] == IF n = 0 THEN [x \in Expressions |-> ""]
                             ELSE [x \in Expressions |-> KindOf(x, kinds, within[n - 1])]
    IN  within[MaxNesting + 1][e]

\* Of the operands, only columns of a known kind are judged.
MistakenAt(e, kinds) ==
    LET col(i, wrong) == e.args[i].t = "col" /\ ExprKind(e.args[i], kinds) \in wrong
    IN  \/ e.op \in NumberOps /\ \E i \in DOMAIN e.args : col(i, {"text", "boolean"})
        \/ e.op = "like" /\ col(1, ValueKinds \ {"text"})
        \/ e.op = "date_trunc" /\ col(2, ValueKinds \ {"time"})
        \/ /\ e.op \in Comparisons
           /\ \E i \in 1..2 : col(i, ValueKinds \ {ExprKind(e.args[3 - i], kinds)})
           /\ ExprKind(e.args[1], kinds) # "" /\ ExprKind(e.args[2], kinds) # ""

\* _check_expr_types.
Mistaken(e, kinds) ==
    LET within[n \in Nat] ==
            IF n = 0 THEN [x \in Expressions |-> FALSE]
            ELSE [x \in Expressions |->
                    /\ x.t = "op"
                    /\ MistakenAt(x, kinds) \/ \E i \in DOMAIN x.args : within[n - 1][x.args[i]]]
    IN  within[MaxNesting + 1][e]

-----------------------------------------------------------------------------
(* Names. *)

\* A mutant: names are compared as they are spelled.
Spelled(name, schema) == \E c \in Members(schema) : c = name

\* _collides: with a column the engine would confuse it with.
Collides(name, schema) == \E c \in Members(schema) : Folded[c] = Folded[name]

\* _reject_confusable_schema.
Distinct(schema) == \A i, j \in DOMAIN schema : i # j => Folded[schema[i]] # Folded[schema[j]]

\* _unique_helper_column. The names never run out in the code, which appends to the last.
HelperExists(schema) == \E i \in DOMAIN HelperNames : ~Collides(HelperNames[i], schema)

Helper(schema) ==
    HelperNames[CHOOSE i \in DOMAIN HelperNames :
        /\ ~Collides(HelperNames[i], schema)
        /\ \A j \in 1..(i - 1) : Collides(HelperNames[j], schema)]

Resolves(names, schema) == names \subseteq Members(schema)

\* The columns of the schema that are wanted, in its order.
Wanted(schema, wanted) ==
    LET upto[n \in Nat] ==
            IF n = 0 THEN <<>>
            ELSE IF n \in DOMAIN schema /\ schema[n] \in wanted THEN Append(upto[n - 1], schema[n])
            ELSE upto[n - 1]
    IN  upto[Len(schema)]

\* A list of columns, of which nothing but the set matters here.
Listed(schema) == (SUBSET Members(schema)) \ {{}}

-----------------------------------------------------------------------------
(* The engine. *)

Cell(name, kind, from) == [name |-> name, kind |-> kind, from |-> from]

Renamed(cell, name) == Cell(name, cell.kind, cell.from)

Bind(name, cells) == cells[CHOOSE i \in DOMAIN cells :
    /\ Folded[cells[i].name] = Folded[name]
    /\ \A j \in 1..(i - 1) : Folded[cells[j].name] # Folded[name]]

Reading(names, cells) == UNION {Bind(n, cells).from : n \in names}

\* "other" stands for arithmetic on dates and for branches of different kinds.
RealKindOf(e, cells, below) ==
    CASE e.t = "col" -> Bind(e.name, cells).kind
      [] e.t = "lit" -> e.kind
      [] e.t = "op" /\ Branching(e) -> Agreed(Branches(e, below), "other")
      [] e.t = "op" /\ e.op \in NumberOps ->
            IF \A i \in DOMAIN e.args : below[e.args[i]] \in {"number", ""} THEN "number"
            ELSE "other"
      [] OTHER -> ResultKind(e)

EngineKind(e, cells) ==
    LET within[n \in Nat] == IF n = 0 THEN [x \in Expressions |-> ""]
                             ELSE [x \in Expressions |-> RealKindOf(x, cells, within[n - 1])]
    IN  within[MaxNesting + 1][e]

-----------------------------------------------------------------------------
CompilerInit == steps = <<>> /\ mentioned = {} /\ sourced = {}

Compiled(inputs, schema, kinds, cells, rows) ==
    [inputs |-> inputs, schema |-> schema, kinds |-> kinds, cells |-> cells, rows |-> rows]

AddStep(step, names) == steps' = Append(steps, step) /\ mentioned' = mentioned \cup names

\* A step over step i.
Onto(i, names, schema, kinds, cells, rows) ==
    AddStep(Compiled({i}, schema, kinds, cells, rows), names) /\ UNCHANGED sourced

\* SELECT * FROM the dataset.
Source == \E d \in DOMAIN Tables :
    LET names == [i \in DOMAIN Tables[d] |-> Tables[d][i].name]
        kind(n) == (CHOOSE c \in Members(Tables[d]) : c.name = n).kind
    IN
    /\ Distinct(names)
    /\ AddStep(Compiled({}, names, [n \in Members(names) |-> kind(n)],
                    [i \in DOMAIN names |-> Cell(names[i], kind(names[i]), {<<d, names[i]>>})], {}),
               {})
    /\ sourced' = sourced \cup {d}

Filter(i) == \E e \in Expressions :
    LET s == steps[i] IN
    /\ WellShaped(e) /\ IsBoolean(e) /\ ~Mistaken(e, s.kinds) /\ Resolves(NamesIn(e), s.schema)
    /\ Onto(i, NamesIn(e), s.schema, s.kinds, s.cells,
            s.rows \cup Reading(NamesIn(e), s.cells))

Select(i) == \E wanted \in Listed(steps[i].schema), mode \in {"keep", "drop"} :
    LET s == steps[i]
        kept == Wanted(s.schema, IF mode = "keep" THEN wanted ELSE Members(s.schema) \ wanted)
    IN
    /\ kept # <<>>
    /\ Onto(i, wanted, kept, [c \in DOMAIN s.kinds \cap Members(kept) |-> s.kinds[c]],
            [j \in DOMAIN kept |-> Renamed(Bind(kept[j], s.cells), kept[j])], s.rows)

\* Each name once on either side.
Renamings(schema) ==
    {m \in UNION {[S -> Invented] : S \in Listed(schema)} :
        \A a, b \in DOMAIN m : m[a] = m[b] => a = b}

Rename(i) == \E mapping \in Renamings(steps[i].schema) :
    LET s == steps[i]
        new(c) == IF c \in DOMAIN mapping THEN mapping[c] ELSE c
        schema == [j \in DOMAIN s.schema |-> new(s.schema[j])]
        kinds == [n \in {new(c) : c \in DOMAIN s.kinds} |->
                    s.kinds[CHOOSE c \in DOMAIN s.kinds : new(c) = n]]
    IN
    /\ Distinct(schema)
    /\ Onto(i, DOMAIN mapping, schema, kinds,
            [j \in DOMAIN schema |-> Renamed(Bind(s.schema[j], s.cells), schema[j])], s.rows)

Derive(i) == \E name \in Invented, e \in Expressions :
    LET s == steps[i] IN
    /\ WellShaped(e) /\ ~Collides(name, s.schema)
    /\ ~Mistaken(e, s.kinds) /\ Resolves(NamesIn(e), s.schema)
    /\ Onto(i, NamesIn(e), Append(s.schema, name),
            With(s.kinds, OneKind(name, ExprKind(e, s.kinds))),
            Append(s.cells, Cell(name, EngineKind(e, s.cells), Reading(NamesIn(e), s.cells))),
            s.rows)

Cast(i) == \E column \in Members(steps[i].schema), to \in ValueKinds :
    LET s == steps[i]
        cast(c) == Cell(c, IF c = column THEN to ELSE Bind(c, s.cells).kind, Bind(c, s.cells).from)
    IN  Onto(i, {column}, s.schema, With(s.kinds, OneKind(column, to)),
             [j \in DOMAIN s.schema |-> cast(s.schema[j])], s.rows)

\* What an aggregate function makes of a column of a kind; "count" stands for
\* count_distinct, "sum" for avg, "min" for max and any_value.
AggregateKind(fn, kind) == IF fn \in {"count_star", "count", "sum"} THEN "number" ELSE kind

\* By no column, or by up to two different ones.
Groupings(schema) ==
    UNION {{g \in [1..n -> Members(schema)] : \A j, k \in 1..n : g[j] = g[k] => j = k} : n \in 0..2}

\* One summary of the groups.
Aggregate(i) ==
    \E groupBy \in Groupings(steps[i].schema),
       fn \in {"count_star", "count", "sum", "min", "median"},
       column \in Members(steps[i].schema), as \in Invented :
        LET s == steps[i]
            schema == Append(groupBy, as)
            of == IF fn = "count_star" THEN {} ELSE {column}
            kinds == [c \in DOMAIN s.kinds \cap Members(groupBy) |-> s.kinds[c]]
            real == Bind(column, s.cells).kind
        IN
        /\ fn \in {"sum", "median"} => KindIn(s.kinds, column) \notin {"text", "boolean"}
        /\ Distinct(schema)
        /\ Onto(i, Members(groupBy) \cup of, schema,
                With(kinds, OneKind(as, AggregateKind(fn, KindIn(s.kinds, column)))),
                Append([j \in DOMAIN groupBy |-> Bind(groupBy[j], s.cells)],
                       Cell(as, IF fn = "sum" /\ real # "number" THEN "other"
                                ELSE AggregateKind(fn, real), Reading(of, s.cells))),
                s.rows \cup Reading(Members(groupBy), s.cells))

\* The helper column takes the place behind the others, and the outer WHERE
\* reads it by its name. The kinds are forgotten.
Dedupe(i) == \E keys, order \in Listed(steps[i].schema) :
    LET s == steps[i]
        helper == Helper(s.schema)
        numbered == Append(s.cells, Cell(helper, "number", Reading(keys \cup order, s.cells)))
    IN
    /\ HelperExists(s.schema)
    /\ Onto(i, keys \cup order, s.schema, NoKinds, s.cells, s.rows \cup Bind(helper, numbered).from)

Sort(i) == \E by \in Listed(steps[i].schema) :
    LET s == steps[i]
    IN  Onto(i, by, s.schema, s.kinds, s.cells, s.rows \cup Reading(by, s.cells))

\* A mutant: every kind of the right side is taken over.
AllKinds(left, right, kept) == With(left.kinds, right.kinds)

\* The kinds of the left side, and of what is kept of the right.
JoinedKinds(left, right, kept) ==
    With(left.kinds, [c \in DOMAIN right.kinds \cap Members(kept) |-> right.kinds[c]])

\* On one pair of columns; the right one is left out.
Join(i, j) == \E lkey \in Members(steps[i].schema), rkey \in Members(steps[j].schema) :
    LET left == steps[i]
        right == steps[j]
        kept == Wanted(right.schema, Members(right.schema) \ {rkey})
    IN
    /\ i # j
    /\ ~\E c \in Members(kept) : Collides(c, left.schema)
    /\ AddStep(Compiled({i, j}, left.schema \o kept, JoinedKinds(left, right, kept),
                    [x \in DOMAIN left.schema |-> Bind(left.schema[x], left.cells)]
                    \o [x \in DOMAIN kept |-> Bind(kept[x], right.cells)],
                    left.rows \cup right.rows
                    \cup Reading({lkey}, left.cells) \cup Reading({rkey}, right.cells)),
               {lkey, rkey})
    /\ UNCHANGED sourced

\* Within the bound, the steps that nothing uses yet can still be connected.
Unused == {i \in DOMAIN steps : ~\E j \in DOMAIN steps : i \in steps[j].inputs}
Bounded == Len(steps) + Cardinality(Unused) <= MaxSteps + 1

CompilerNext ==
    /\ Len(steps) < MaxSteps /\ Bounded
    /\ \/ Source
       \/ \E i \in DOMAIN steps :
            \/ Filter(i) \/ Select(i) \/ Rename(i) \/ Derive(i) \/ Cast(i)
            \/ Aggregate(i) \/ Dedupe(i) \/ Sort(i)
            \/ \E j \in DOMAIN steps : Join(i, j)

CompilerSpec == CompilerInit /\ [][CompilerNext]_compilerVars

-----------------------------------------------------------------------------
Terminal == steps[Len(steps)]

\* _validate_graph: every step is connected to the last.
Connected == Unused = {Len(steps)}

\* check_flow_governance, were column c of a source masked.
Refused(c) == \E n \in mentioned \cup Members(Terminal.schema) : Folded[n] = Folded[c]

(* The soundness argument of referenced_columns (flow_governance.py): the  *)
(* columns that a flow mentions and those in its result are all that it    *)
(* could have read. A flow that passes with a masked column publishes      *)
(* nothing that depends on it, whatever the engine takes a name for.       *)
MaskedStaysOut ==
    steps # <<>> /\ Connected =>
        \A d \in sourced : \A c \in {x.name : x \in Members(Tables[d])} :
            ~Refused(c) =>
                /\ <<d, c>> \notin Terminal.rows
                /\ \A x \in Members(Terminal.cells) : <<d, c>> \notin x.from

(* "Within one schema, a column name resolves to exactly one column": the  *)
(* schema the compiler has of a step names the columns that the engine     *)
(* makes, in their order, and where it has a kind of one that is its kind. *)
(* Arithmetic on dates is left out: the compiler takes it for a number.    *)
ResultIsKnown ==
    steps # <<>> =>
        LET s == Terminal IN
        /\ s.schema = [j \in DOMAIN s.cells |-> s.cells[j].name]
        /\ Distinct(s.schema)
        /\ \A c \in Members(s.cells) : \/ KindIn(s.kinds, c.name) \in {"", c.kind}
                                      \/ c.kind = "other"
=============================================================================
