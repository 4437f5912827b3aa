----------------------- MODULE OpenAPIContract_proofs -----------------------
(***************************************************************************)
(* The validator against what the keywords mean, for every document and    *)
(* every body.                                                             *)
(***************************************************************************)
EXTENDS OpenAPIContract, Recursion

(***************************************************************************)
(* The recursive definitions are what they say.                            *)
(***************************************************************************)
LEMMA SchemasWithinUnfolds ==
  \A schema \in Schemas : SchemasWithin[schema] =
    {schema} \cup UNION {SchemasWithin[n] : n \in Nested(schema)}
<1>. DEFINE Unfolds(g) == g = [schema \in Schemas |->
              {schema} \cup UNION {g[n] : n \in Nested(schema)}]
            T == SUBSET Schemas
            F == [g \in [Schemas -> T] |-> [schema \in Schemas |->
              {schema} \cup UNION {g[n] : n \in Nested(schema)}]]
            m == [schema \in Schemas |-> Depth[schema]]
<1>1. m \in [Schemas -> Nat]
  BY TreesAssumption
<1>2. F \in [[Schemas -> T] -> [Schemas -> T]]
  <2>. SUFFICES ASSUME NEW g \in [Schemas -> T], NEW schema \in Schemas
                PROVE  {schema} \cup UNION {g[n] : n \in Nested(schema)} \in T
    OBVIOUS
  <2>1. \A n \in Nested(schema) : g[n] \in SUBSET Schemas
    BY TreesAssumption
  <2>. QED
    BY <2>1
<1>3. \A g, h \in [Schemas -> T], schema \in Schemas :
        (\A y \in Schemas : m[y] < m[schema] => g[y] = h[y]) =>
          F[g][schema] = F[h][schema]
  <2>. SUFFICES ASSUME NEW g \in [Schemas -> T], NEW h \in [Schemas -> T],
                       NEW schema \in Schemas,
                       \A y \in Schemas : m[y] < m[schema] => g[y] = h[y]
                PROVE  F[g][schema] = F[h][schema]
    OBVIOUS
  <2>1. \A n \in Nested(schema) : g[n] = h[n]
    BY TreesAssumption
  <2>. QED
    BY <2>1
<1>4. Contractive(F, m, Schemas, T)
  BY <1>2, <1>3 DEF Contractive
<1>5. PICK f \in [Schemas -> T] : f = F[f]
  <2>1. T # {}
    OBVIOUS
  <2>. HIDE DEF T, F, m
  <2>. QED
    BY <1>1, <1>4, <2>1, FixedPoint
<1>6. Unfolds(f)
  BY <1>5
<1>7. SchemasWithin = CHOOSE g : Unfolds(g)
  BY DEF SchemasWithin
<1>8. Unfolds(SchemasWithin)
  <2>. HIDE DEF Unfolds
  <2>. QED
    BY <1>6, <1>7
<1>. QED
  BY <1>8

(***************************************************************************)
(* A check inside another is of a shallower value, or of the same value    *)
(* with one more reference being resolved: the recursion ends.             *)
(***************************************************************************)
Weight ==
  [check \in Checks |->
     Depth[check.value] * (Cardinality(LocalRefs) + 1)
       + Cardinality(LocalRefs \ check.resolving)]

(***************************************************************************)
(* Resolving one more reference leaves one fewer to resolve.               *)
(***************************************************************************)
LEMMA RefsLeft ==
  ASSUME NEW resolving \in SUBSET LocalRefs
  PROVE  /\ Cardinality(LocalRefs \ resolving) \in Nat
         /\ Cardinality(LocalRefs) \in Nat
         /\ Cardinality(LocalRefs \ resolving) <= Cardinality(LocalRefs)
         /\ \A ref \in LocalRefs \ resolving :
              Cardinality(LocalRefs \ (resolving \cup {ref}))
                = Cardinality(LocalRefs \ resolving) - 1
<1>1. IsFiniteSet(LocalRefs) /\ LocalRefs \ resolving \subseteq LocalRefs
  BY ReferencesAssumption
<1>2. /\ IsFiniteSet(LocalRefs \ resolving)
      /\ Cardinality(LocalRefs \ resolving) <= Cardinality(LocalRefs)
  BY <1>1, FS_Subset
<1>3. Cardinality(LocalRefs) \in Nat /\ Cardinality(LocalRefs \ resolving) \in Nat
  BY <1>1, <1>2, FS_CardinalityType
<1>4. ASSUME NEW ref \in LocalRefs \ resolving
      PROVE  Cardinality(LocalRefs \ (resolving \cup {ref}))
               = Cardinality(LocalRefs \ resolving) - 1
  <2>. DEFINE left == LocalRefs \ resolving
  <2>1. LocalRefs \ (resolving \cup {ref}) = left \ {ref}
    OBVIOUS
  <2>2. IsFiniteSet(left) /\ ref \in left
    BY <1>2
  <2>3. Cardinality(left \ {ref}) = Cardinality(left) - 1
    <3>. HIDE DEF left
    <3>. QED
      BY <2>2, FS_RemoveElement
  <2>. QED
    BY <2>1, <2>3
<1>. QED
  BY <1>2, <1>3, <1>4

(***************************************************************************)
(* A shallower value weighs less, whatever references are left.            *)
(***************************************************************************)
LEMMA Multiples ==
  ASSUME NEW a \in Nat, NEW b \in Nat, NEW k \in Nat, a < b
  PROVE  a * (k + 1) + k < b * (k + 1)
OBVIOUS

\* A weight is a natural number.
LEMMA WeightType == Weight \in [Checks -> Nat]
<1>. SUFFICES ASSUME NEW check \in Checks
              PROVE  Weight[check] \in Nat
  BY DEF Weight
<1>1. Depth[check.value] \in Nat
  BY TreesAssumption DEF Checks
<1>2. /\ Cardinality(LocalRefs) \in Nat
      /\ Cardinality(LocalRefs \ check.resolving) \in Nat
  BY RefsLeft DEF Checks
<1>. QED
  BY <1>1, <1>2 DEF Weight

(***************************************************************************)
(* A part of a schema and a part of a value make a check of less weight,   *)
(* whatever is being resolved there; so does the schema that a reference   *)
(* leads to, if it is not yet being resolved.                              *)
(***************************************************************************)
LEMMA InnerChecks ==
  ASSUME NEW check \in Checks,
         NEW schema \in Nested(check.schema), NEW value \in Parts(check.value),
         NEW resolving \in SUBSET LocalRefs
  PROVE  LET inner == [schema |-> schema, value |-> value, resolving |-> resolving]
         IN  inner \in Checks /\ Weight[inner] < Weight[check]
<1>. DEFINE inner == [schema |-> schema, value |-> value, resolving |-> resolving]
<1>1. inner \in Checks
  BY TreesAssumption DEF Checks
<1>2. /\ Depth[value] \in Nat /\ Depth[check.value] \in Nat
      /\ Depth[value] < Depth[check.value]
  BY TreesAssumption DEF Checks
<1>3. /\ Weight[inner] = Depth[value] * (Cardinality(LocalRefs) + 1)
                            + Cardinality(LocalRefs \ resolving)
      /\ Weight[check] = Depth[check.value] * (Cardinality(LocalRefs) + 1)
                            + Cardinality(LocalRefs \ check.resolving)
  BY <1>1 DEF Weight
<1>4. /\ Cardinality(LocalRefs) \in Nat
      /\ Cardinality(LocalRefs \ resolving) \in Nat
      /\ Cardinality(LocalRefs \ check.resolving) \in Nat
      /\ Cardinality(LocalRefs \ resolving) <= Cardinality(LocalRefs)
  BY RefsLeft DEF Checks
<1>5. Depth[value] * (Cardinality(LocalRefs) + 1) + Cardinality(LocalRefs)
        < Depth[check.value] * (Cardinality(LocalRefs) + 1)
  BY <1>2, <1>4, Multiples
<1>6. /\ Depth[value] * (Cardinality(LocalRefs) + 1) \in Nat
      /\ Depth[check.value] * (Cardinality(LocalRefs) + 1) \in Nat
  BY <1>2, <1>4
<1>. QED
  BY <1>1, <1>3, <1>4, <1>5, <1>6

\* A reference leads to a check of less weight.
LEMMA ReferencedChecks ==
  ASSUME NEW check \in Checks, check.schema.ref \in DOMAIN Components \ check.resolving
  PROVE  Referenced(check) \in Checks /\ Weight[Referenced(check)] < Weight[check]
<1>1. check.schema.ref \in LocalRefs \ check.resolving
  BY ReferencesAssumption
<1>2. Referenced(check) \in Checks
  BY <1>1, ReferencesAssumption DEF Referenced, Checks
<1>3. Weight[Referenced(check)] =
        Depth[check.value] * (Cardinality(LocalRefs) + 1)
          + Cardinality(LocalRefs \ (check.resolving \cup {check.schema.ref}))
  BY <1>2 DEF Weight, Referenced
<1>4. /\ Cardinality(LocalRefs) \in Nat
      /\ Cardinality(LocalRefs \ check.resolving) \in Nat
      /\ Cardinality(LocalRefs \ (check.resolving \cup {check.schema.ref}))
           = Cardinality(LocalRefs \ check.resolving) - 1
  BY <1>1, RefsLeft DEF Checks
<1>5. Depth[check.value] \in Nat
  BY TreesAssumption DEF Checks
<1>. QED
  BY <1>2, <1>3, <1>4, <1>5 DEF Weight

(***************************************************************************)
(* The first error is one of the verdicts, or there is none.               *)
(***************************************************************************)
LEMMA FirstErrorIsOne ==
  ASSUME NEW f, DOMAIN f \subseteq Nat
  PROVE  \/ FirstError(f) = "ok" /\ \A i \in DOMAIN f : f[i] = "ok"
         \/ \E i \in DOMAIN f : f[i] = FirstError(f) /\ f[i] # "ok"
<1>. DEFINE errors == {i \in DOMAIN f : f[i] # "ok"}
<1>1. CASE errors = {}
  BY <1>1 DEF FirstError
<1>2. CASE errors # {}
  <2>1. \E n \in errors : \A k \in errors : n <= k
    <3>1. errors \in SUBSET Nat
      OBVIOUS
    <3>. HIDE DEF errors
    <3>. QED
      BY <1>2, <3>1, LeastElement
  <2>2. Min(errors) \in errors
    <3>. HIDE DEF errors
    <3>. QED
      BY <2>1 DEF Min
  <2>. QED
    BY <1>2, <2>2 DEF FirstError
<1>. QED
  BY <1>1, <1>2

(***************************************************************************)
(* The checks that an object and an array lead to, by the validator and by *)
(* the meaning, weigh less.                                                *)
(***************************************************************************)
LEMMA PropertyChecks ==
  ASSUME NEW check \in Checks, check.value.kind = "object",
         NEW name \in Names(check.schema.properties) \cap Names(check.value.fields),
         NEW c \in {Inside(check, check.schema.properties[name], check.value.fields[name]),
                    Check(check.schema.properties[name], check.value.fields[name])}
  PROVE  c \in Checks /\ Weight[c] < Weight[check]
<1>1. /\ check.schema.properties[name] \in Nested(check.schema)
      /\ check.value.fields[name] \in Parts(check.value)
  BY DEF Nested, Parts
<1>2. {} \in SUBSET LocalRefs /\ check.resolving \in SUBSET LocalRefs
  BY DEF Checks
<1>. QED
  BY <1>1, <1>2, InnerChecks DEF Inside, Check

\* So do the items of an array.
LEMMA ItemChecks ==
  ASSUME NEW check \in Checks, check.value.kind = "array", check.schema.items # <<>>,
         NEW i \in DOMAIN check.value.items,
         NEW c \in {Inside(check, check.schema.items[1], check.value.items[i]),
                    Check(check.schema.items[1], check.value.items[i])}
  PROVE  c \in Checks /\ Weight[c] < Weight[check]
<1>1. check.schema.items[1] \in Nested(check.schema)
  BY SchemasAssumption DEF Nested, Checks
<1>2. check.value.items[i] \in Parts(check.value)
  BY DEF Parts
<1>3. {} \in SUBSET LocalRefs /\ check.resolving \in SUBSET LocalRefs
  BY DEF Checks
<1>. QED
  BY <1>1, <1>2, <1>3, InnerChecks DEF Inside, Check

(***************************************************************************)
(* The validator asks nothing of itself but about checks of less weight,   *)
(* and its answers are codes: so its recursive definition defines it.      *)
(***************************************************************************)
LEMMA ValidateReads ==
  ASSUME NEW check \in Checks, NEW g, NEW h,
         \A c \in Checks : Weight[c] < Weight[check] => g[c] = h[c]
  PROVE  /\ ValidateReferencedSchema(g, check) = ValidateReferencedSchema(h, check)
         /\ ValidateType(g, check) = ValidateType(h, check)
<1>1. ValidateReferencedSchema(g, check) = ValidateReferencedSchema(h, check)
  <2>1. CASE check.schema.ref \in DOMAIN Components \ check.resolving
    <3>1. g[Referenced(check)] = h[Referenced(check)]
      BY <2>1, ReferencedChecks
    <3>. QED
      BY <3>1 DEF ValidateReferencedSchema
  <2>2. CASE check.schema.ref \notin DOMAIN Components \ check.resolving
    BY <2>2 DEF ValidateReferencedSchema
  <2>. QED
    BY <2>1, <2>2
<1>2. CASE check.value.kind = "object"
  <2>1. \A name : ValidateProperty(g, check, name) = ValidateProperty(h, check, name)
    BY <1>2, PropertyChecks DEF ValidateProperty
  <2>2. ValidateObject(g, check) = ValidateObject(h, check)
    BY <2>1 DEF ValidateObject
  <2>. QED
    BY <1>1, <1>2, <2>2 DEF ValidateType
<1>3. CASE check.value.kind = "array"
  <2>1. ValidateArray(g, check) = ValidateArray(h, check)
    <3>1. CASE check.schema.items = <<>>
      BY <3>1 DEF ValidateArray
    <3>2. CASE check.schema.items # <<>>
      <4>1. \A i \in DOMAIN check.value.items :
              g[Inside(check, check.schema.items[1], check.value.items[i])]
                = h[Inside(check, check.schema.items[1], check.value.items[i])]
        BY <1>3, <3>2, ItemChecks
      <4>. QED
        BY <4>1 DEF ValidateArray
    <3>. QED
      BY <3>1, <3>2
  <2>. QED
    BY <1>1, <1>3, <2>1 DEF ValidateType
<1>4. CASE check.value.kind \notin {"object", "array"}
  BY <1>1, <1>4 DEF ValidateType
<1>. QED
  BY <1>2, <1>3, <1>4

\* What a check can come to.
Codes ==
  {"ok", "violation", "cyclic", "unresolved", "non_local_refs",
   "additional_properties_schema"} \cup Compositions

\* The validator answers with a code.
LEMMA ValidateRange ==
  ASSUME NEW check \in Checks, NEW g,
         \A c \in Checks : Weight[c] < Weight[check] => g[c] \in Codes
  PROVE  /\ ValidateReferencedSchema(g, check) \in Codes
         /\ ValidateType(g, check) \in Codes
<1>1. ValidateReferencedSchema(g, check) \in Codes
  <2>1. CASE check.schema.ref \in DOMAIN Components \ check.resolving
    <3>1. g[Referenced(check)] \in Codes
      BY <2>1, ReferencedChecks
    <3>. QED
      BY <2>1, <3>1 DEF ValidateReferencedSchema, Codes
  <2>2. CASE check.schema.ref \notin DOMAIN Components \ check.resolving
    BY <2>2 DEF ValidateReferencedSchema, Codes
  <2>. QED
    BY <2>1, <2>2
<1>2. CASE check.value.kind = "object"
  <2>. DEFINE fields == [i \in DOMAIN NameOrder |-> ValidateProperty(g, check, NameOrder[i])]
  <2>1. \A name : ValidateProperty(g, check, name) \in Codes
    BY <1>2, PropertyChecks DEF ValidateProperty, Codes
  <2>2. DOMAIN fields \subseteq Nat
    BY SchemasAssumption
  <2>3. FirstError(fields) \in Codes
    <3>1. \A i \in DOMAIN fields : fields[i] \in Codes
      BY <2>1
    <3>. HIDE DEF fields
    <3>. QED
      BY <2>2, <3>1, FirstErrorIsOne DEF Codes
  <2>4. ValidateAdditionalProperties(check.schema, check.value) \in Codes
    BY DEF ValidateAdditionalProperties, Verdict, Codes
  <2>5. ValidateObject(g, check) \in Codes
    <3>. HIDE DEF fields
    <3>1. ValidateObject(g, check) \in
            {"violation", FirstError(fields), ValidateAdditionalProperties(check.schema, check.value)}
      BY DEF ValidateObject, Then, fields
    <3>. QED
      BY <2>3, <2>4, <3>1 DEF Codes
  <2>. QED
    BY <1>1, <1>2, <2>5 DEF ValidateType, Codes, Verdict
<1>3. CASE check.value.kind = "array"
  <2>1. ValidateArray(g, check) \in Codes
    <3>1. CASE check.schema.items = <<>>
      BY <3>1 DEF ValidateArray, Codes
    <3>2. CASE check.schema.items # <<>>
      <4>. DEFINE items == [i \in DOMAIN check.value.items |->
                 g[Inside(check, check.schema.items[1], check.value.items[i])]]
      <4>1. \A i \in DOMAIN items : items[i] \in Codes
        BY <1>3, <3>2, ItemChecks
      <4>2. DOMAIN items \subseteq Nat
        BY <1>3, SchemasAssumption DEF Checks
      <4>3. FirstError(items) \in Codes
        <5>. HIDE DEF items
        <5>. QED
          BY <4>1, <4>2, FirstErrorIsOne DEF Codes
      <4>. QED
        BY <3>2, <4>3 DEF ValidateArray
    <3>. QED
      BY <3>1, <3>2
  <2>. QED
    BY <1>1, <1>3, <2>1 DEF ValidateType, Codes, Verdict
<1>4. CASE check.value.kind \notin {"object", "array"}
  BY <1>1, <1>4 DEF ValidateType, Codes, Verdict
<1>. QED
  BY <1>2, <1>3, <1>4

\* The right-hand side of ValidateSchema.
ValidateBody(validate, check) ==
  LET schema == check.schema
  IN  CASE schema.ref # "absent" -> ValidateReferencedSchema(validate, check)
        [] schema.ref = "absent" /\ check.value = Null /\ schema.nullable -> "ok"
        [] OTHER ->
             IF schema.composition # "absent" THEN schema.composition
             ELSE IF SchemaType(schema) = "absent" THEN "ok"
             ELSE Then(ValidateType(validate, check),
                       ValidateEnum(schema, check.value))

\* Its right-hand side does so if what it asks does.
LEMMA ValidateBodyRange ==
  ASSUME NEW check \in Checks, NEW g,
         \A c \in Checks : Weight[c] < Weight[check] => g[c] \in Codes
  PROVE  ValidateBody(g, check) \in Codes
<1>1. check.schema.composition \in Codes
  BY SchemasAssumption DEF Checks, Codes
<1>2. ValidateEnum(check.schema, check.value) \in Codes
  BY DEF ValidateEnum, Verdict, Codes
<1>3. "ok" \in Codes
  BY DEF Codes
<1>. QED
  BY <1>1, <1>2, <1>3, ValidateRange DEF ValidateBody, Then

(***************************************************************************)
(* ValidateSchema satisfies its definition.                                *)
(***************************************************************************)
LEMMA ValidateUnfolds ==
  /\ \A check \in Checks : ValidateSchema[check] = ValidateBody(ValidateSchema, check)
  /\ \A check \in Checks : ValidateSchema[check] \in Codes
<1>. DEFINE F == [g \in [Checks -> Codes] |-> [check \in Checks |-> ValidateBody(g, check)]]
            Unfolds(g) == g = [check \in Checks |-> ValidateBody(g, check)]
<1>1. F \in [[Checks -> Codes] -> [Checks -> Codes]]
  <2>1. \A g \in [Checks -> Codes], check \in Checks : ValidateBody(g, check) \in Codes
    BY ValidateBodyRange
  <2>. QED
    BY <2>1
<1>2. Contractive(F, Weight, Checks, Codes)
  <2>. SUFFICES ASSUME NEW g \in [Checks -> Codes], NEW h \in [Checks -> Codes],
                       NEW check \in Checks,
                       \A c \in Checks : Weight[c] < Weight[check] => g[c] = h[c]
                PROVE  ValidateBody(g, check) = ValidateBody(h, check)
    BY <1>1 DEF Contractive
  <2>. QED
    BY ValidateReads DEF ValidateBody
<1>3. PICK f \in [Checks -> Codes] : f = F[f]
  <2>1. Codes # {}
    BY DEF Codes
  <2>. HIDE DEF F
  <2>. QED
    BY <1>2, <2>1, WeightType, FixedPoint
<1>4. Unfolds(f)
  BY <1>3
<1>5. ValidateSchema = CHOOSE g : Unfolds(g)
  BY DEF ValidateSchema, ValidateBody
<1>6. Unfolds(ValidateSchema)
  <2>. HIDE DEF Unfolds
  <2>. QED
    BY <1>4, <1>5
<1>. DEFINE P == {check \in Checks : ValidateSchema[check] \in Codes}
<1>7. Checks \subseteq P
  <2>1. ASSUME NEW check \in Checks, \A c \in Checks : Weight[c] < Weight[check] => c \in P
        PROVE  check \in P
    <3>1. ValidateBody(ValidateSchema, check) \in Codes
      BY <2>1, ValidateBodyRange
    <3>. QED
      BY <1>6, <3>1
  <2>. HIDE DEF P
  <2>. QED
    BY <2>1, WeightType, MeasureInduction
<1>. QED
  BY <1>6, <1>7

\* So does ValuesWithin, along the depth of values.
LEMMA ValuesWithinUnfolds ==
  \A value \in Values : ValuesWithin[value] =
    {value} \cup UNION {ValuesWithin[part] : part \in Parts(value)}
<1>. DEFINE Unfolds(g) == g = [value \in Values |->
              {value} \cup UNION {g[part] : part \in Parts(value)}]
            T == SUBSET Values
            F == [g \in [Values -> T] |-> [value \in Values |->
              {value} \cup UNION {g[part] : part \in Parts(value)}]]
            m == [value \in Values |-> Depth[value]]
<1>1. m \in [Values -> Nat]
  BY TreesAssumption
<1>2. F \in [[Values -> T] -> [Values -> T]]
  <2>. SUFFICES ASSUME NEW g \in [Values -> T], NEW value \in Values
                PROVE  {value} \cup UNION {g[part] : part \in Parts(value)} \in T
    OBVIOUS
  <2>1. \A part \in Parts(value) : g[part] \in SUBSET Values
    BY TreesAssumption
  <2>. QED
    BY <2>1
<1>3. \A g, h \in [Values -> T], value \in Values :
        (\A y \in Values : m[y] < m[value] => g[y] = h[y]) =>
          F[g][value] = F[h][value]
  <2>. SUFFICES ASSUME NEW g \in [Values -> T], NEW h \in [Values -> T],
                       NEW value \in Values,
                       \A y \in Values : m[y] < m[value] => g[y] = h[y]
                PROVE  F[g][value] = F[h][value]
    OBVIOUS
  <2>1. \A part \in Parts(value) : g[part] = h[part]
    BY TreesAssumption
  <2>. QED
    BY <2>1
<1>4. Contractive(F, m, Values, T)
  BY <1>2, <1>3 DEF Contractive
<1>5. PICK f \in [Values -> T] : f = F[f]
  <2>1. T # {}
    OBVIOUS
  <2>. HIDE DEF T, F, m
  <2>. QED
    BY <1>1, <1>4, <2>1, FixedPoint
<1>6. Unfolds(f)
  BY <1>5
<1>7. ValuesWithin = CHOOSE g : Unfolds(g)
  BY DEF ValuesWithin
<1>8. Unfolds(ValuesWithin)
  <2>. HIDE DEF Unfolds
  <2>. QED
    BY <1>6, <1>7
<1>. QED
  BY <1>8

\* The right-hand side of Admits.
AdmitsBody(admits, check) ==
  LET schema == check.schema
      value == check.value
  IN  IF schema.ref # "absent"
        THEN /\ schema.ref \in DOMAIN Components \ check.resolving
             /\ admits[Referenced(check)]
      ELSE \/ schema.nullable /\ value = Null
           \/ /\ schema.composition = "absent"
              /\ KindAdmitted(schema.type, value.kind)
              /\ schema.enum = {} \/ \E v \in schema.enum : SameValue(v, value)
              /\ value.kind = "object" => AdmitsFields(admits, schema, value)
              /\ (value.kind = "array" /\ schema.items # <<>>) =>
                   \A i \in DOMAIN value.items :
                     admits[Check(schema.items[1], value.items[i])]

\* It, too, asks only about checks of less weight.
LEMMA AdmitsReads ==
  ASSUME NEW check \in Checks, NEW g, NEW h,
         \A c \in Checks : Weight[c] < Weight[check] => g[c] = h[c]
  PROVE  AdmitsBody(g, check) <=> AdmitsBody(h, check)
<1>1. CASE check.schema.ref # "absent"
  BY <1>1, ReferencedChecks DEF AdmitsBody
<1>2. CASE check.schema.ref = "absent"
  <2>1. check.value.kind = "object" =>
          (AdmitsFields(g, check.schema, check.value)
             <=> AdmitsFields(h, check.schema, check.value))
    BY PropertyChecks DEF AdmitsFields
  <2>2. (check.value.kind = "array" /\ check.schema.items # <<>>) =>
          \A i \in DOMAIN check.value.items :
             g[Check(check.schema.items[1], check.value.items[i])]
               = h[Check(check.schema.items[1], check.value.items[i])]
    BY ItemChecks
  <2>. QED
    BY <1>2, <2>1, <2>2 DEF AdmitsBody
<1>. QED
  BY <1>1, <1>2

(***************************************************************************)
(* Admits satisfies its definition.                                        *)
(***************************************************************************)
LEMMA AdmitsUnfolds ==
  \A check \in Checks : Admits[check] = AdmitsBody(Admits, check)
<1>. DEFINE F == [g \in [Checks -> BOOLEAN] |-> [check \in Checks |-> AdmitsBody(g, check)]]
            T == BOOLEAN
            Unfolds(g) == g = [check \in Checks |-> AdmitsBody(g, check)]
<1>1. F \in [[Checks -> BOOLEAN] -> [Checks -> BOOLEAN]]
  <2>1. \A g \in [Checks -> BOOLEAN], check \in Checks : AdmitsBody(g, check) \in BOOLEAN
    BY DEF AdmitsBody
  <2>. QED
    BY <2>1
<1>2. Contractive(F, Weight, Checks, T)
  <2>. SUFFICES ASSUME NEW g \in [Checks -> BOOLEAN], NEW h \in [Checks -> BOOLEAN],
                       NEW check \in Checks,
                       \A c \in Checks : Weight[c] < Weight[check] => g[c] = h[c]
                PROVE  AdmitsBody(g, check) = AdmitsBody(h, check)
    BY <1>1 DEF Contractive
  <2>. QED
    BY AdmitsReads DEF AdmitsBody
<1>3. PICK f \in [Checks -> T] : f = F[f]
  <2>1. T # {}
    OBVIOUS
  <2>. HIDE DEF F, T
  <2>. QED
    BY <1>2, <2>1, WeightType, FixedPoint
<1>4. Unfolds(f)
  BY <1>3
<1>5. Admits = CHOOSE g : Unfolds(g)
  BY DEF Admits, AdmitsBody
<1>6. Unfolds(Admits)
  <2>. HIDE DEF Unfolds
  <2>. QED
    BY <1>4, <1>5
<1>. QED
  BY <1>6

(***************************************************************************)
(* What a part holds the whole holds.                                      *)
(***************************************************************************)
LEMMA SchemasFromGrows ==
  ASSUME NEW schema \in Schemas
  PROVE  /\ schema \in SchemasFrom(schema)
         /\ \A n \in Nested(schema) : SchemasFrom(n) \subseteq SchemasFrom(schema)
         /\ \A ref \in DOMAIN Components :
              SchemasFrom(Components[ref]) \subseteq SchemasFrom(schema)
BY SchemasWithinUnfolds DEF SchemasFrom

\* What a value holds is held by what holds it.
LEMMA ValuesWithinGrows ==
  ASSUME NEW value \in Values
  PROVE  /\ value \in ValuesWithin[value]
         /\ \A part \in Parts(value) : ValuesWithin[part] \subseteq ValuesWithin[value]
BY ValuesWithinUnfolds

(***************************************************************************)
(* What a check inside another has to do with it, for properties, items    *)
(* and references.                                                         *)
(***************************************************************************)
Under(check) ==
  {c \in Checks :
     /\ Weight[c] < Weight[check]
     /\ SchemasFrom(c.schema) \subseteq SchemasFrom(check.schema)
     /\ ValuesWithin[c.value] \subseteq ValuesWithin[check.value]}

\* A property's schema and value are within those of the object.
LEMMA PropertyUnder ==
  ASSUME NEW check \in Checks, check.value.kind = "object",
         NEW name \in Names(check.schema.properties) \cap Names(check.value.fields)
  PROVE  Inside(check, check.schema.properties[name], check.value.fields[name])
           \in Under(check)
<1>1. /\ check.schema.properties[name] \in Nested(check.schema)
      /\ check.value.fields[name] \in Parts(check.value)
  BY DEF Nested, Parts
<1>2. /\ SchemasFrom(check.schema.properties[name]) \subseteq SchemasFrom(check.schema)
      /\ ValuesWithin[check.value.fields[name]] \subseteq ValuesWithin[check.value]
  BY <1>1, SchemasFromGrows, ValuesWithinGrows DEF Checks
<1>. QED
  BY <1>2, PropertyChecks DEF Under, Inside

\* An item's schema and value are within those of the array.
LEMMA ItemUnder ==
  ASSUME NEW check \in Checks, check.value.kind = "array", check.schema.items # <<>>,
         NEW i \in DOMAIN check.value.items
  PROVE  Inside(check, check.schema.items[1], check.value.items[i]) \in Under(check)
<1>1. /\ check.schema.items[1] \in Nested(check.schema)
      /\ check.value.items[i] \in Parts(check.value)
  BY SchemasAssumption DEF Nested, Parts, Checks
<1>2. /\ SchemasFrom(check.schema.items[1]) \subseteq SchemasFrom(check.schema)
      /\ ValuesWithin[check.value.items[i]] \subseteq ValuesWithin[check.value]
  BY <1>1, SchemasFromGrows, ValuesWithinGrows DEF Checks
<1>. QED
  BY <1>2, ItemChecks DEF Under, Inside

\* So are the schema and the value that a reference leads to.
LEMMA ReferencedUnder ==
  ASSUME NEW check \in Checks, check.schema.ref \in DOMAIN Components \ check.resolving
  PROVE  Referenced(check) \in Under(check)
<1>1. SchemasFrom(Components[check.schema.ref]) \subseteq SchemasFrom(check.schema)
  BY SchemasFromGrows DEF Checks
<1>. QED
  BY <1>1, ReferencedChecks DEF Under, Referenced

(***************************************************************************)
(* Where the answer to a check of an object or an array comes from.        *)
(***************************************************************************)
LEMMA ObjectAnswer ==
  ASSUME NEW check \in Checks, check.value.kind = "object"
  PROVE  LET answer == ValidateObject(ValidateSchema, check)
             extra == ValidateAdditionalProperties(check.schema, check.value)
             required == check.schema.required \subseteq Names(check.value.fields)
             inner(name) == ValidateSchema[Inside(check, check.schema.properties[name],
                                                         check.value.fields[name])]
             present == Names(check.schema.properties) \cap Names(check.value.fields)
         IN  \/ answer = "violation" /\ ~ required
             \/ \E name \in present : answer = inner(name) /\ answer # "ok"
             \/ /\ required /\ answer = extra
                /\ \A name \in present : inner(name) = "ok"
<1>. DEFINE present == Names(check.schema.properties) \cap Names(check.value.fields)
            fields == [i \in DOMAIN NameOrder |->
                         ValidateProperty(ValidateSchema, check, NameOrder[i])]
            inner(name) == ValidateSchema[Inside(check, check.schema.properties[name],
                                                        check.value.fields[name])]
<1>1. DOMAIN fields \subseteq Nat
  BY SchemasAssumption
<1>2. \A name \in present : \E i \in DOMAIN fields : NameOrder[i] = name
  BY SchemasAssumption DEF Range, Checks
<1>3. \A i \in DOMAIN fields :
        \/ fields[i] = "ok"
        \/ NameOrder[i] \in present /\ fields[i] = inner(NameOrder[i])
  BY DEF ValidateProperty
<1>4. \A i \in DOMAIN fields : NameOrder[i] \in present => fields[i] = inner(NameOrder[i])
  BY DEF ValidateProperty
<1>5. \/ FirstError(fields) = "ok" /\ \A i \in DOMAIN fields : fields[i] = "ok"
      \/ \E i \in DOMAIN fields : fields[i] = FirstError(fields) /\ fields[i] # "ok"
  <2>. HIDE DEF fields
  <2>. QED
    BY <1>1, FirstErrorIsOne
<1>6. \/ FirstError(fields) = "ok" /\ \A name \in present : inner(name) = "ok"
      \/ \E name \in present : inner(name) = FirstError(fields) /\ inner(name) # "ok"
  <2>. HIDE DEF fields, present, inner
  <2>. QED
    BY <1>2, <1>3, <1>4, <1>5
<1>7. ValidateObject(ValidateSchema, check) =
        IF ~ (check.schema.required \subseteq Names(check.value.fields))
          THEN "violation"
          ELSE Then(FirstError(fields),
                    ValidateAdditionalProperties(check.schema, check.value))
  BY DEF ValidateObject
<1>. HIDE DEF fields
<1>. QED
  BY <1>6, <1>7 DEF Then

\* How the validator answers for an array.
LEMMA ArrayAnswer ==
  ASSUME NEW check \in Checks, check.value.kind = "array"
  PROVE  LET answer == ValidateArray(ValidateSchema, check)
             inner(i) == ValidateSchema[Inside(check, check.schema.items[1],
                                                      check.value.items[i])]
         IN  \/ answer = "ok" /\ check.schema.items = <<>>
             \/ /\ check.schema.items # <<>>
                /\ \E i \in DOMAIN check.value.items : answer = inner(i) /\ answer # "ok"
             \/ /\ check.schema.items # <<>> /\ answer = "ok"
                /\ \A i \in DOMAIN check.value.items : inner(i) = "ok"
<1>. DEFINE items == [i \in DOMAIN check.value.items |->
              ValidateSchema[Inside(check, check.schema.items[1], check.value.items[i])]]
<1>1. DOMAIN items \subseteq Nat
  BY SchemasAssumption DEF Checks
<1>2. \/ FirstError(items) = "ok" /\ \A i \in DOMAIN items : items[i] = "ok"
      \/ \E i \in DOMAIN items : items[i] = FirstError(items) /\ items[i] # "ok"
  <2>. HIDE DEF items
  <2>. QED
    BY <1>1, FirstErrorIsOne
<1>3. ValidateArray(ValidateSchema, check) =
        IF check.schema.items = <<>> THEN "ok" ELSE FirstError(items)
  BY DEF ValidateArray
<1>. QED
  BY <1>2, <1>3

(***************************************************************************)
(* The answer to a check that is not of a reference.                       *)
(***************************************************************************)
LEMMA PlainAnswer ==
  ASSUME NEW check \in Checks, check.schema.ref = "absent",
         ~ (check.value = Null /\ check.schema.nullable)
  PROVE  LET answer == ValidateSchema[check]
             type == ValidateType(ValidateSchema, check)
         IN  \/ /\ check.schema.composition # "absent"
                /\ answer = check.schema.composition
             \/ /\ check.schema.composition = "absent"
                /\ SchemaType(check.schema) = "absent" /\ answer = "ok"
             \/ /\ check.schema.composition = "absent"
                /\ SchemaType(check.schema) # "absent"
                /\ type # "ok" /\ answer = type
             \/ /\ check.schema.composition = "absent"
                /\ SchemaType(check.schema) # "absent"
                /\ type = "ok" /\ answer = ValidateEnum(check.schema, check.value)
BY ValidateUnfolds DEF ValidateBody, Then

\* How it answers by the type of the schema.
LEMMA TypeAnswer ==
  ASSUME NEW check \in Checks
  PROVE  LET answer == ValidateType(ValidateSchema, check)
             type == SchemaType(check.schema)
             kind == check.value.kind
         IN  \/ answer = "violation"
             \/ /\ type = "object" /\ kind = "object"
                /\ answer = ValidateObject(ValidateSchema, check)
             \/ /\ type = "array" /\ kind = "array"
                /\ answer = ValidateArray(ValidateSchema, check)
             \/ /\ type \in DOMAIN ScalarKinds
                /\ kind \in ScalarKinds[type] /\ answer = "ok"
BY DEF ValidateType, Verdict

\* How it answers for a reference.
LEMMA ReferenceAnswer ==
  ASSUME NEW check \in Checks, check.schema.ref # "absent"
  PROVE  \/ /\ check.schema.ref \in DOMAIN Components \ check.resolving
            /\ ValidateSchema[check] = ValidateSchema[Referenced(check)]
         \/ /\ check.schema.ref \notin LocalRefs
            /\ ValidateSchema[check] = "non_local_refs"
         \/ ValidateSchema[check] \in {"cyclic", "unresolved"}
<1>1. ValidateSchema[check] = ValidateReferencedSchema(ValidateSchema, check)
  BY ValidateUnfolds DEF ValidateBody
<1>. QED
  BY <1>1, ReferencesAssumption DEF ValidateReferencedSchema

(***************************************************************************)
(* An unsupported feature that a check names is one of a schema on the     *)
(* way, which the scan of the document visits too.                         *)
(***************************************************************************)
LEMMA FeatureOrigin ==
  ASSUME NEW check \in Checks, ValidateSchema[check] \in UnsupportedFeatures,
         \A c \in Under(check) : ValidateSchema[c] # ValidateSchema[check]
  PROVE  ValidateSchema[check] \in FeaturesOf(check.schema)
<1>. USE DEF UnsupportedFeatures, FeaturesOf
<1>1. CASE check.schema.ref # "absent"
  BY <1>1, ReferenceAnswer, ReferencedUnder
<1>2. CASE check.schema.ref = "absent" /\ check.value = Null /\ check.schema.nullable
  BY <1>2, ValidateUnfolds DEF ValidateBody
<1>3. CASE check.schema.ref = "absent" /\ ~ (check.value = Null /\ check.schema.nullable)
  <2>1. CASE ValidateSchema[check] = check.schema.composition
    BY <2>1, SchemasAssumption DEF Checks, Compositions
  <2>2. CASE ValidateSchema[check] \in
               {"ok", "violation", ValidateEnum(check.schema, check.value)}
    BY <2>2 DEF ValidateEnum, Verdict
  <2>3. CASE /\ check.value.kind = "object"
             /\ ValidateSchema[check] = ValidateObject(ValidateSchema, check)
    <3>1. ValidateSchema[check] =
            ValidateAdditionalProperties(check.schema, check.value)
      BY <2>3, ObjectAnswer, PropertyUnder
    <3>. QED
      BY <3>1 DEF ValidateAdditionalProperties, Verdict
  <2>4. CASE /\ check.value.kind = "array"
             /\ ValidateSchema[check] = ValidateArray(ValidateSchema, check)
    BY <2>4, ArrayAnswer, ItemUnder
  <2>. QED
    BY <1>3, <2>1, <2>2, <2>3, <2>4, PlainAnswer, TypeAnswer
<1>. QED
  BY <1>1, <1>2, <1>3

\* A feature that is refused is within the schema that is checked.
LEMMA RefusedFeatureIsWithin ==
  ASSUME NEW check \in Checks, ValidateSchema[check] \in UnsupportedFeatures
  PROVE  \E schema \in SchemasFrom(check.schema) :
           ValidateSchema[check] \in FeaturesOf(schema)
<1>. DEFINE P == {c \in Checks : ValidateSchema[c] \in UnsupportedFeatures =>
                    \E schema \in SchemasFrom(c.schema) :
                      ValidateSchema[c] \in FeaturesOf(schema)}
<1>1. ASSUME NEW c \in Checks, \A d \in Checks : Weight[d] < Weight[c] => d \in P
      PROVE  c \in P
  <2>. SUFFICES ASSUME ValidateSchema[c] \in UnsupportedFeatures
                PROVE  \E schema \in SchemasFrom(c.schema) :
                         ValidateSchema[c] \in FeaturesOf(schema)
    OBVIOUS
  <2>1. CASE \E d \in Under(c) : ValidateSchema[d] = ValidateSchema[c]
    BY <1>1, <2>1 DEF Under
  <2>2. CASE \A d \in Under(c) : ValidateSchema[d] # ValidateSchema[c]
    BY <2>2, FeatureOrigin, SchemasFromGrows DEF Checks
  <2>. QED
    BY <2>1, <2>2
<1>2. Checks \subseteq P
  <2>. HIDE DEF P
  <2>. QED
    BY <1>1, WeightType, MeasureInduction
<1>. QED
  BY <1>2

(***************************************************************************)
(* What is accepted is admitted.                                           *)
(***************************************************************************)
Through(check, resolving) ==
  [schema |-> check.schema, value |-> check.value, resolving |-> resolving]

Sound(check) ==
  (/\ ValidateSchema[check] = "ok"
   /\ \A schema \in SchemasFrom(check.schema) : ~ IgnoresKeywords(schema)) =>
    \A r \in SUBSET check.resolving : Admits[Through(check, r)]

\* A reference is accepted only for what it admits.
LEMMA SoundReference ==
  ASSUME NEW check \in Checks, check.schema.ref # "absent",
         \A c \in Under(check) : Sound(c)
  PROVE  Sound(check)
<1>. SUFFICES ASSUME ValidateSchema[check] = "ok",
                     \A schema \in SchemasFrom(check.schema) : ~ IgnoresKeywords(schema),
                     NEW r \in SUBSET check.resolving
              PROVE  Admits[Through(check, r)]
  BY DEF Sound
<1>1. /\ check.schema.ref \in DOMAIN Components \ check.resolving
      /\ ValidateSchema[Referenced(check)] = "ok"
  BY ReferenceAnswer
<1>2. Sound(Referenced(check)) /\ Referenced(check) \in Under(check)
  BY <1>1, ReferencedUnder
<1>3. Admits[Through(Referenced(check), r \cup {check.schema.ref})]
  BY <1>1, <1>2 DEF Sound, Under, Referenced
<1>4. Through(Referenced(check), r \cup {check.schema.ref}) = Referenced(Through(check, r))
  BY DEF Through, Referenced
<1>5. Through(check, r) \in Checks
  BY DEF Through, Checks
<1>. QED
  BY <1>1, <1>3, <1>4, <1>5, AdmitsUnfolds DEF AdmitsBody, Through

\* So is a schema that is none.
LEMMA SoundPlain ==
  ASSUME NEW check \in Checks, check.schema.ref = "absent",
         \A c \in Under(check) : Sound(c)
  PROVE  Sound(check)
<1>. SUFFICES ASSUME ValidateSchema[check] = "ok",
                     \A schema \in SchemasFrom(check.schema) : ~ IgnoresKeywords(schema),
                     NEW r \in SUBSET check.resolving
              PROVE  Admits[Through(check, r)]
  BY DEF Sound
<1>1. Through(check, r) \in Checks
  BY DEF Through, Checks
<1>2. Admits[Through(check, r)] = AdmitsBody(Admits, Through(check, r))
  BY <1>1, AdmitsUnfolds
<1>3. CASE check.value = Null /\ check.schema.nullable
  BY <1>2, <1>3 DEF AdmitsBody, Through
<1>4. CASE ~ (check.value = Null /\ check.schema.nullable)
  <2>1. check.schema.composition = "absent"
    BY <1>4, PlainAnswer, SchemasAssumption DEF Checks, Compositions
  <2>2. check.schema.enum = {} \/ \E v \in check.schema.enum : SameValue(v, check.value)
    <3>1. CASE SchemaType(check.schema) = "absent"
      BY <3>1, SchemasFromGrows DEF IgnoresKeywords, Checks
    <3>2. CASE SchemaType(check.schema) # "absent"
      BY <1>4, <2>1, <3>2, PlainAnswer DEF ValidateEnum, Verdict, SameValue
    <3>. QED
      BY <3>1, <3>2
  <2>3. \/ SchemaType(check.schema) = "absent"
        \/ ValidateType(ValidateSchema, check) = "ok"
    BY <1>4, <2>1, PlainAnswer
  <2>4. KindAdmitted(check.schema.type, check.value.kind)
    BY <2>3, TypeAnswer DEF SchemaType, KindAdmitted, ScalarKinds
  <2>5. check.value.kind = "object" => AdmitsFields(Admits, check.schema, check.value)
    <3>. SUFFICES ASSUME check.value.kind = "object"
                  PROVE  AdmitsFields(Admits, check.schema, check.value)
      OBVIOUS
    <3>1. CASE SchemaType(check.schema) = "absent"
      <4>1. ~ IgnoresKeywords(check.schema)
        BY SchemasFromGrows DEF Checks
      <4>2. check.schema.required = {} /\ Names(check.schema.properties) = {}
        BY <3>1 DEF SchemaType
      <4>. QED
        BY <3>1, <4>1, <4>2 DEF IgnoresKeywords, AdmitsFields
    <3>2. CASE SchemaType(check.schema) # "absent"
      <4>1. ValidateObject(ValidateSchema, check) = "ok"
        BY <2>3, <3>2, TypeAnswer DEF ScalarKinds
      <4>2. /\ check.schema.required \subseteq Names(check.value.fields)
            /\ ValidateAdditionalProperties(check.schema, check.value) = "ok"
            /\ \A name \in Names(check.schema.properties) \cap Names(check.value.fields) :
                 ValidateSchema[Inside(check, check.schema.properties[name],
                                              check.value.fields[name])] = "ok"
        BY <4>1, ObjectAnswer
      <4>3. ASSUME NEW name \in Names(check.schema.properties) \cap Names(check.value.fields)
            PROVE  Admits[Check(check.schema.properties[name], check.value.fields[name])]
        <5>. DEFINE c == Inside(check, check.schema.properties[name], check.value.fields[name])
        <5>1. c \in Under(check) /\ Sound(c) /\ ValidateSchema[c] = "ok"
          BY <4>2, PropertyUnder
        <5>2. Admits[Through(c, {})]
          <6>. HIDE DEF c
          <6>. QED
            BY <5>1 DEF Sound, Under
        <5>3. Through(c, {}) = Check(check.schema.properties[name], check.value.fields[name])
          BY DEF Through, Check, Inside
        <5>. QED
          BY <5>2, <5>3
      <4>4. check.schema.additionalProperties = "false" =>
              Names(check.value.fields) \subseteq Names(check.schema.properties)
        BY <4>2 DEF ValidateAdditionalProperties, Verdict
      <4>. QED
        BY <4>2, <4>3, <4>4 DEF AdmitsFields
    <3>. QED
      BY <3>1, <3>2
  <2>6. (check.value.kind = "array" /\ check.schema.items # <<>>) =>
          \A i \in DOMAIN check.value.items :
            Admits[Check(check.schema.items[1], check.value.items[i])]
    <3>. SUFFICES ASSUME check.value.kind = "array", check.schema.items # <<>>,
                         NEW i \in DOMAIN check.value.items
                  PROVE  Admits[Check(check.schema.items[1], check.value.items[i])]
      OBVIOUS
    <3>. DEFINE c == Inside(check, check.schema.items[1], check.value.items[i])
    <3>1. SchemaType(check.schema) # "absent"
      BY SchemasFromGrows DEF IgnoresKeywords, Checks
    <3>2. ValidateArray(ValidateSchema, check) = "ok"
      BY <2>3, <3>1, TypeAnswer DEF ScalarKinds
    <3>3. c \in Under(check) /\ Sound(c) /\ ValidateSchema[c] = "ok"
      BY <3>2, ArrayAnswer, ItemUnder
    <3>4. Admits[Through(c, {})]
      <4>. HIDE DEF c
      <4>. QED
        BY <3>3 DEF Sound, Under
    <3>5. Through(c, {}) = Check(check.schema.items[1], check.value.items[i])
      BY DEF Through, Check, Inside
    <3>. QED
      BY <3>4, <3>5
  <2>. QED
    BY <1>2, <2>1, <2>2, <2>4, <2>5, <2>6 DEF AdmitsBody, Through
<1>. QED
  BY <1>3, <1>4

\* What is accepted is admitted, by induction on the weight of checks.
LEMMA Soundness == \A check \in Checks : Sound(check)
<1>. DEFINE P == {c \in Checks : Sound(c)}
<1>1. ASSUME NEW c \in Checks, \A d \in Checks : Weight[d] < Weight[c] => d \in P
      PROVE  c \in P
  <2>1. \A d \in Under(c) : Sound(d)
    BY <1>1 DEF Under
  <2>. QED
    BY <2>1, SoundReference, SoundPlain
<1>2. Checks \subseteq P
  <2>. HIDE DEF P
  <2>. QED
    BY <1>1, WeightType, MeasureInduction
<1>. QED
  BY <1>2

(***************************************************************************)
(* What is admitted is not called a violation.                             *)
(***************************************************************************)
PlainCheck(check) ==
  \A schema \in SchemasFrom(check.schema) :
    /\ ~ ImplicitObject(schema)
    /\ \A value \in ValuesWithin[check.value] : PlainFor(schema, value)

Complete(check) ==
  PlainCheck(check) =>
    \A r \in SUBSET LocalRefs :
      Admits[Through(check, r)] => ValidateSchema[check] # "violation"

\* A reference that admits a value calls it no violation.
LEMMA CompleteReference ==
  ASSUME NEW check \in Checks, check.schema.ref # "absent",
         \A c \in Under(check) : Complete(c)
  PROVE  Complete(check)
<1>. SUFFICES ASSUME PlainCheck(check), NEW r \in SUBSET LocalRefs,
                     Admits[Through(check, r)], ValidateSchema[check] = "violation"
              PROVE  FALSE
  BY DEF Complete
<1>1. /\ check.schema.ref \in DOMAIN Components \ check.resolving
      /\ ValidateSchema[Referenced(check)] = "violation"
  BY ReferenceAnswer
<1>2. Through(check, r) \in Checks
  BY DEF Through, Checks
<1>3. Admits[Referenced(Through(check, r))]
  BY <1>2, AdmitsUnfolds DEF AdmitsBody, Through
<1>4. Referenced(Through(check, r)) = Through(Referenced(check), r \cup {check.schema.ref})
  BY DEF Through, Referenced
<1>5. Complete(Referenced(check)) /\ PlainCheck(Referenced(check))
  BY <1>1, ReferencedUnder DEF PlainCheck, Under
<1>6. r \cup {check.schema.ref} \in SUBSET LocalRefs
  BY <1>1, ReferencesAssumption
<1>. QED
  BY <1>1, <1>3, <1>4, <1>5, <1>6 DEF Complete

\* Nor does a schema that is none.
LEMMA CompletePlain ==
  ASSUME NEW check \in Checks, check.schema.ref = "absent",
         \A c \in Under(check) : Complete(c)
  PROVE  Complete(check)
<1>. SUFFICES ASSUME PlainCheck(check), NEW r \in SUBSET LocalRefs,
                     Admits[Through(check, r)], ValidateSchema[check] = "violation"
              PROVE  FALSE
  BY DEF Complete
<1>1. AdmitsBody(Admits, Through(check, r))
  <2>1. Through(check, r) \in Checks
    BY DEF Through, Checks
  <2>. QED
    BY <2>1, AdmitsUnfolds
<1>2. ~ (check.value = Null /\ check.schema.nullable)
  BY ValidateUnfolds DEF ValidateBody
<1>3. /\ check.schema.composition = "absent"
      /\ KindAdmitted(check.schema.type, check.value.kind)
      /\ check.schema.enum = {} \/ \E v \in check.schema.enum : SameValue(v, check.value)
      /\ check.value.kind = "object" => AdmitsFields(Admits, check.schema, check.value)
      /\ (check.value.kind = "array" /\ check.schema.items # <<>>) =>
           \A i \in DOMAIN check.value.items :
             Admits[Check(check.schema.items[1], check.value.items[i])]
  BY <1>1, <1>2 DEF AdmitsBody, Through
<1>4. ~ ImplicitObject(check.schema) /\ PlainFor(check.schema, check.value)
  BY SchemasFromGrows, ValuesWithinGrows DEF PlainCheck, Checks
<1>5. SchemaType(check.schema) = check.schema.type
  BY <1>4 DEF ImplicitObject, SchemaType
<1>6. ValidateEnum(check.schema, check.value) = "ok"
  BY <1>3, <1>4 DEF ValidateEnum, Verdict, PlainFor
<1>7. SchemaType(check.schema) # "absent" /\ ValidateType(ValidateSchema, check) = "violation"
  BY <1>2, <1>3, <1>6, PlainAnswer
<1>8. ASSUME NEW c \in Under(check), Admits[Through(c, {})]
      PROVE  ValidateSchema[c] # "violation"
  BY <1>8 DEF Complete, PlainCheck, Under
<1>9. CASE check.value.kind = "object"
  <2>1. ValidateObject(ValidateSchema, check) = "violation"
    <3>1. SchemaType(check.schema) = "object"
      BY <1>3, <1>5, <1>7, <1>9 DEF KindAdmitted
    <3>. QED
      BY <1>7, <1>9, <3>1 DEF ValidateType, ScalarKinds
  <2>2. AdmitsFields(Admits, check.schema, check.value)
    BY <1>3, <1>9
  <2>3. ValidateAdditionalProperties(check.schema, check.value) # "violation"
    BY <2>2 DEF AdmitsFields, ValidateAdditionalProperties, Verdict
  <2>4. PICK name \in Names(check.schema.properties) \cap Names(check.value.fields) :
          ValidateSchema[Inside(check, check.schema.properties[name],
                                       check.value.fields[name])] = "violation"
    BY <1>9, <2>1, <2>2, <2>3, ObjectAnswer DEF AdmitsFields
  <2>. DEFINE c == Inside(check, check.schema.properties[name], check.value.fields[name])
  <2>5. Through(c, {}) = Check(check.schema.properties[name], check.value.fields[name])
    BY DEF Through, Check, Inside
  <2>6. c \in Under(check) /\ Admits[Through(c, {})]
    BY <1>9, <2>2, <2>5, PropertyUnder DEF AdmitsFields
  <2>. HIDE DEF c
  <2>. QED
    BY <1>8, <2>4, <2>6 DEF c
<1>10. CASE check.value.kind = "array"
  <2>1. ValidateArray(ValidateSchema, check) = "violation"
    <3>1. SchemaType(check.schema) = "array"
      BY <1>3, <1>5, <1>7, <1>10 DEF KindAdmitted
    <3>. QED
      BY <1>7, <1>10, <3>1 DEF ValidateType, ScalarKinds
  <2>2. PICK i \in DOMAIN check.value.items :
          /\ check.schema.items # <<>>
          /\ ValidateSchema[Inside(check, check.schema.items[1], check.value.items[i])]
               = "violation"
    BY <1>10, <2>1, ArrayAnswer
  <2>. DEFINE c == Inside(check, check.schema.items[1], check.value.items[i])
  <2>3. Through(c, {}) = Check(check.schema.items[1], check.value.items[i])
    BY DEF Through, Check, Inside
  <2>4. c \in Under(check) /\ Admits[Through(c, {})]
    BY <1>3, <1>10, <2>2, <2>3, ItemUnder
  <2>. QED
    BY <1>8, <2>2, <2>4
<1>11. CASE check.value.kind \notin {"object", "array"}
  <2>1. /\ check.schema.type \in DOMAIN ScalarKinds
        /\ check.value.kind \in ScalarKinds[check.schema.type]
    BY <1>3, <1>4, <1>5, <1>7, <1>11 DEF KindAdmitted, PlainFor, ScalarKinds
  <2>. QED
    BY <1>5, <1>7, <1>11, <2>1 DEF ValidateType, Verdict, ScalarKinds
<1>. QED
  BY <1>9, <1>10, <1>11

\* What is admitted is no violation, by the same induction.
LEMMA Completeness == \A check \in Checks : Complete(check)
<1>. DEFINE P == {c \in Checks : Complete(c)}
<1>1. ASSUME NEW c \in Checks, \A d \in Checks : Weight[d] < Weight[c] => d \in P
      PROVE  c \in P
  <2>1. \A d \in Under(c) : Complete(d)
    BY <1>1 DEF Under
  <2>. QED
    BY <2>1, CompleteReference, CompletePlain
<1>2. Checks \subseteq P
  <2>. HIDE DEF P
  <2>. QED
    BY <1>1, WeightType, MeasureInduction
<1>. QED
  BY <1>2

-----------------------------------------------------------------------------
(***************************************************************************)
(* What a load and a validation leave in the state.                        *)
(***************************************************************************)
OpenAPIInv ==
  /\ input \in Inputs
  /\ outcome # "loaded" => verdict = "pending"
  /\ outcome = "loaded" => announced = ScanUnsupportedFeatures(input.document)
  /\ verdict # "pending" => verdict = ValidateResponseRule(input.document, input.rule)

\* Every step keeps it.
LEMMA OpenAPIInvariance == Spec => []OpenAPIInv
<1>1. Init => OpenAPIInv
  BY DEF Init, OpenAPIInv
<1>2. OpenAPIInv /\ [Next]_openAPIVars => OpenAPIInv'
  <2>. SUFFICES ASSUME OpenAPIInv, [Next]_openAPIVars PROVE OpenAPIInv'
    OBVIOUS
  <2>1. CASE Load
    BY <2>1 DEF Load, OpenAPIInv
  <2>2. CASE Validate
    BY <2>2 DEF Validate, OpenAPIInv
  <2>3. CASE UNCHANGED openAPIVars
    BY <2>3 DEF openAPIVars, OpenAPIInv
  <2>. QED
    BY <2>1, <2>2, <2>3 DEF Next
<1>. QED
  BY <1>1, <1>2, PTL DEF Spec

(***************************************************************************)
(* A rule whose body decides gets the answer to the check of its body.     *)
(***************************************************************************)
LEMMA BodyVerdict ==
  ASSUME OpenAPIInv, BodyDecides, verdict # "pending"
  PROVE  LET check == Check(input.document.schema, input.rule.body)
         IN  check \in Checks /\ verdict = ValidateSchema[check]
<1>. DEFINE found == Candidates(input.document.operations, input.rule.method, input.rule.path)
<1>1. PICK o \in found : found = {o} /\ ResponseFor(o, input.rule.status) = "json"
  BY DEF BodyDecides
<1>2. (CHOOSE p \in found : TRUE) = o
  BY <1>1
<1>3. verdict = ValidateContent("json", input.document.schema, input.rule)
  BY <1>1, <1>2 DEF OpenAPIInv, ValidateResponseRule
<1>4. verdict = ValidateSchema[Check(input.document.schema, input.rule.body)]
  BY <1>3 DEF ValidateContent, BodyDecides
<1>5. input.document.schema \in Schemas /\ input.rule.body \in Values
  BY InputsAssumption DEF OpenAPIInv, BodyDecides
<1>. QED
  BY <1>4, <1>5 DEF Check, Checks

(***************************************************************************)
(* Any other verdict than these is the answer to the check of the body.    *)
(***************************************************************************)
LEMMA ContentVerdict ==
  ASSUME OpenAPIInv, verdict \notin {"pending", "ok", "violation"},
         verdict # "ambiguous" \/
           ~ \E o, p \in Candidates(input.document.operations,
                                    input.rule.method, input.rule.path) : o # p
  PROVE  /\ verdict = ValidateSchema[Check(input.document.schema, input.rule.body)]
         /\ input.rule.body # Malformed
<1>. DEFINE found == Candidates(input.document.operations, input.rule.method, input.rule.path)
            operation == CHOOSE o \in found : TRUE
<1>1. found # {} /\ ~ \E o, p \in found : o # p
  BY DEF OpenAPIInv, ValidateResponseRule
<1>2. operation \in input.document.operations
  BY <1>1 DEF Candidates
<1>3. verdict = ValidateContent(ResponseFor(operation, input.rule.status),
                                input.document.schema, input.rule)
  BY <1>1 DEF OpenAPIInv, ValidateResponseRule
<1>4. ResponseFor(operation, input.rule.status) \in Contents \cup {"undefined"}
  <2>. HIDE DEF operation
  <2>. QED
    BY <1>2, InputsAssumption DEF OpenAPIInv, ResponseFor
<1>. QED
  BY <1>3, <1>4 DEF ValidateContent, Contents

(***************************************************************************)
(* Soundness of the validator, for every document, reference structure and *)
(* body: nothing gets past a schema that does not admit it.                *)
(***************************************************************************)
THEOREM AcceptanceCorrectness == Spec => []AcceptsOnlyAdmitted
<1>1. OpenAPIInv => AcceptsOnlyAdmitted
  <2>. SUFFICES ASSUME OpenAPIInv, Accepted, BodyDecides,
                       \A schema \in SchemasFrom(input.document.schema) :
                         ~ IgnoresKeywords(schema)
                PROVE  Admits[Check(input.document.schema, input.rule.body)]
    BY DEF AcceptsOnlyAdmitted
  <2>. DEFINE check == Check(input.document.schema, input.rule.body)
  <2>1. check \in Checks /\ ValidateSchema[check] = "ok"
    BY BodyVerdict DEF Accepted
  <2>2. Admits[Through(check, {})]
    <3>1. check.schema = input.document.schema
      BY DEF Check
    <3>. HIDE DEF check
    <3>. QED
      BY <2>1, <3>1, Soundness DEF Sound, Checks
  <2>3. Through(check, {}) = check
    BY DEF Through, Check
  <2>. QED
    BY <2>2, <2>3
<1>. QED
  BY <1>1, OpenAPIInvariance, PTL

(***************************************************************************)
(* Its completeness: a body that the schema admits is refused only as      *)
(* undecided, never as a violation.                                        *)
(***************************************************************************)
THEOREM ViolationCorrectness == Spec => []AdmittedIsNoViolation
<1>1. OpenAPIInv => AdmittedIsNoViolation
  <2>. DEFINE check == Check(input.document.schema, input.rule.body)
  <2>. SUFFICES ASSUME OpenAPIInv, BodyDecides, Admits[check], PlainCheck(check),
                       verdict = "violation"
                PROVE  FALSE
    BY DEF AdmittedIsNoViolation, PlainCheck, Check
  <2>1. check \in Checks /\ ValidateSchema[check] = "violation"
    BY BodyVerdict
  <2>2. Through(check, {}) = check
    BY DEF Through, Check
  <2>. HIDE DEF check
  <2>. QED
    BY <2>1, <2>2, Completeness DEF Complete
<1>. QED
  BY <1>1, OpenAPIInvariance, PTL

(***************************************************************************)
(* Every unsupported feature that a rule fails for was announced by the    *)
(* load, whatever path of references led to it.                            *)
(***************************************************************************)
THEOREM AnnouncementCorrectness == Spec => []RefusedFeatureIsAnnounced
<1>1. OpenAPIInv => RefusedFeatureIsAnnounced
  <2>. SUFFICES ASSUME OpenAPIInv, verdict \in UnsupportedFeatures,
                       ~ input.document.hugeNumber
                PROVE  verdict \in announced
    BY DEF RefusedFeatureIsAnnounced
  <2>. DEFINE check == Check(input.document.schema, input.rule.body)
              found == Candidates(input.document.operations, input.rule.method, input.rule.path)
  <2>1. verdict # "pending" /\ verdict \notin {"violation", "ok", "ambiguous"}
    BY DEF UnsupportedFeatures
  <2>2. verdict = ValidateSchema[check] /\ input.rule.body # Malformed
    BY <2>1, ContentVerdict
  <2>3. check \in Checks
    BY <2>2, InputsAssumption DEF OpenAPIInv, Check, Checks
  <2>4. \E schema \in SchemasFrom(check.schema) : verdict \in FeaturesOf(schema)
    <3>. HIDE DEF check
    <3>. QED
      BY <2>2, <2>3, RefusedFeatureIsWithin
  <2>5. announced = ScanUnsupportedFeatures(input.document)
    BY <2>1 DEF OpenAPIInv
  <2>. QED
    BY <2>4, <2>5 DEF ScanUnsupportedFeatures, Check
<1>. QED
  BY <1>1, OpenAPIInvariance, PTL

\* A path in the contract is a template that matches itself.
LEMMA PathMatchesItself ==
  ASSUME NEW path
  PROVE  PathMatches(path, path)
BY Zenon DEF PathMatches

(***************************************************************************)
(* Whatever the routes, a rule is ambiguous only for want of its exact     *)
(* path, and accepted by a template only if no other matches.              *)
(***************************************************************************)
THEOREM RouteCorrectness == Spec => []RoutesAreUnambiguous
<1>1. OpenAPIInv => RoutesAreUnambiguous
  <2>. SUFFICES ASSUME OpenAPIInv PROVE RoutesAreUnambiguous
    OBVIOUS
  <2>. DEFINE operations == input.document.operations
              found == Candidates(operations, input.rule.method, input.rule.path)
              named == {o \in operations :
                o.method = Lower(input.rule.method) /\ o.path = input.rule.path}
              matching == {o \in operations :
                o.method = Lower(input.rule.method) /\ PathMatches(o.path, input.rule.path)}
  <2>1. named \subseteq matching
    BY PathMatchesItself
  <2>2. found = IF named # {} THEN named ELSE matching
    BY DEF Candidates
  <2>3. \A o, p \in named : o = p
    BY InputsAssumption DEF OpenAPIInv
  <2>4. ASSUME verdict = "ambiguous"
        PROVE  named = {} /\ \E o, p \in matching : o # p
    <3>1. \E o, p \in found : o # p
      <4>1. SUFFICES ASSUME ~ \E o, p \in found : o # p PROVE FALSE
        OBVIOUS
      <4>2. /\ verdict = ValidateSchema[Check(input.document.schema, input.rule.body)]
            /\ input.rule.body # Malformed
        BY <2>4, <4>1, ContentVerdict
      <4>3. Check(input.document.schema, input.rule.body) \in Checks
        BY <4>2, InputsAssumption DEF OpenAPIInv, Check, Checks
      <4>. QED
        BY <2>4, <4>2, <4>3, ValidateUnfolds DEF Codes, Compositions
    <3>. HIDE DEF named, matching
    <3>. QED
      BY <2>2, <2>3, <3>1
  <2>5. ASSUME Accepted, named = {}
        PROVE  \E o \in matching : matching = {o}
    <3>1. found # {} /\ ~ \E o, p \in found : o # p
      BY <2>5 DEF Accepted, OpenAPIInv, ValidateResponseRule
    <3>. HIDE DEF named, matching
    <3>. QED
      BY <2>2, <2>5, <3>1
  <2>. QED
    BY <2>1, <2>4, <2>5 DEF RoutesAreUnambiguous
<1>. QED
  BY <1>1, OpenAPIInvariance, PTL

=============================================================================
