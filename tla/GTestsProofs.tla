---------------------------- MODULE GTestsProofs ----------------------------
(***************************************************************************)
(* The variables of ms_add_gtests and of its callers stay in their scopes, *)
(* what is registered for a test depends on its own target only, and every *)
(* target gets exactly the tests of its executable: for every list of      *)
(* targets, every test type and every set of factors.                      *)
(***************************************************************************)
EXTENDS GTests, TLAPS, FiniteSetTheorems

\* A step that finds or adds tests is a step inside ms_add_gtests.
Inside ==
  /\ todo # {}
  /\ UNCHANGED <<targets, testType, factor, current, pass, network>>

\* The steps of the three passes stay inside.
LEMMA PassesStayInside ==
  ASSUME NEW m \in todo,
         \/ GetTypedefTypes(m) \/ GetFixturesTypes(m)
         \/ GetFixturesValueParameters(m) \/ GetFixturesTypeParameters(m)
         \/ AddRegisteredTypedTests(m) \/ AddNonTypeParameterised(m)
  PROVE  Inside
BY DEF Inside, GetTypedefTypes, GetFixturesTypes, GetFixturesValueParameters,
       GetFixturesTypeParameters, AddRegisteredTypedTests,
       AddNonTypeParameterised, Take, given, result

\* The scopes are kept by every step.
LEMMA ScopeKept == ScopeInv /\ [Next]_vars => ScopeInv'
<1> SUFFICES ASSUME ScopeInv, [Next]_vars PROVE ScopeInv'
  OBVIOUS
<1> USE DEF ScopeInv
<1>1. ASSUME NEW f \in Factors, SetGlobalTestTimeoutFactor(f) PROVE ScopeInv'
  BY <1>1 DEF SetGlobalTestTimeoutFactor, given, where
<1>2. CASE AddGtests
  <2>1. pass' = 1 /\ UNCHANGED <<targets, testType, current, factor>>
    BY <1>2 DEF AddGtests, given
  <2>2. network' = (network \/ targets[current].network) /\ network = FALSE
    BY <1>2 DEF AddGtests
  <2>3. current \in DOMAIN targets
    BY <1>2, GTestsAssumption DEF AddGtests
  <2>4. targets[current].network \in BOOLEAN
    BY <2>3, GTestsAssumption
  <2> QED
    BY <2>1, <2>2, <2>3, <2>4
<1>3. CASE NextFile
  BY <1>3 DEF NextFile, given
<1>4. CASE Return
  BY <1>4 DEF Return, given
<1>5. CASE Inside
  BY <1>5 DEF Inside
<1>6. CASE UNCHANGED vars
  BY <1>6 DEF vars, given, where
<1> QED
  BY <1>1, <1>2, <1>3, <1>4, <1>5, <1>6, PassesStayInside DEF Next

\* In every state of every CMake run the scopes are as ScopeInv says.
THEOREM ScopesHold == Spec => []ScopeInv
<1>1. Init => ScopeInv
  BY DEF Init, ScopeInv, SetupTestType
<1> QED
  BY <1>1, ScopeKept, PTL DEF Spec

\* A new test has been given the bootstrap argument, the timeout and the target
\* of the scope it is added in.
LEMMA AddedTests ==
  ASSUME NEW full, NEW name, AddMaidsafeTests(full, name), NEW t \in tests'
  PROVE  \/ t \in tests
         \/ /\ t.target = current
            /\ t.skipped = Skipped(t.full)
            /\ t.bootstrap = (network /\ ~Skipped(t.full))
            /\ \E k \in DOMAIN full : t.full = full[k]
            /\ t.timeout = Timeout(name.word)
BY DEF AddMaidsafeTests, result

\* Every test added after a step has one name and comes from AddMaidsafeTests.
LEMMA NewTests ==
  ASSUME ScopeInv, [Next]_vars, NEW t \in tests', t \notin tests
  PROVE  /\ Inside
         /\ t.target = current
         /\ t.skipped = Skipped(t.full)
         /\ t.bootstrap = (network /\ ~Skipped(t.full))
         /\ t.timeout = Timeout(t.full.name.word)
<1>1. tests' # tests
  OBVIOUS
<1>2. PICK m \in todo : AddRegisteredTypedTests(m) \/ AddNonTypeParameterised(m)
  BY <1>1
  DEF Next, SetGlobalTestTimeoutFactor, AddGtests, NextFile, Return, GetTypedefTypes,
      GetFixturesTypes, GetFixturesValueParameters, GetFixturesTypeParameters,
      result, vars
<1>3. Inside
  BY <1>2, PassesStayInside
<1>4. \E full, name : /\ AddMaidsafeTests(full, name)
                      /\ \A k \in DOMAIN full : full[k].name = name
  <2>1. CASE AddRegisteredTypedTests(m)
    <3> DEFINE d == Declaration(m)
               name == d.names[m[2]]
    <3>1. AddMaidsafeTests(FullNames("types", d.fixture, name), name)
      BY <2>1 DEF AddRegisteredTypedTests
    <3>2. \A k \in DOMAIN FullNames("types", d.fixture, name) :
            FullNames("types", d.fixture, name)[k].name = name
      BY DEF FullNames
    <3> QED
      BY <3>1, <3>2
  <2>2. CASE AddNonTypeParameterised(m)
    <3> DEFINE d == Declaration(m)
               plain == <<[kind |-> "plain", inst |-> "", fixture |-> d.fixture,
                           index |-> 0, name |-> d.name]>>
    <3>1. \/ AddMaidsafeTests(FullNames("values", d.fixture, d.name), d.name)
          \/ AddMaidsafeTests(FullNames("typed", d.fixture, d.name), d.name)
          \/ AddMaidsafeTests(plain, d.name)
      BY <2>2, <1>1 DEF AddNonTypeParameterised, result
    <3>2. \A kind : \A k \in DOMAIN FullNames(kind, d.fixture, d.name) :
            FullNames(kind, d.fixture, d.name)[k].name = d.name
      BY DEF FullNames
    <3>3. \A k \in DOMAIN plain : plain[k].name = d.name
      <4> DEFINE r == [kind |-> "plain", inst |-> "", fixture |-> d.fixture,
                       index |-> 0, name |-> d.name]
      <4>1. r.name = d.name
        OBVIOUS
      <4>2. plain = <<r>>
        OBVIOUS
      <4> HIDE DEF r, plain
      <4> QED
        BY <4>1, <4>2
    <3> HIDE DEF d, plain
    <3>4. CASE AddMaidsafeTests(FullNames("values", d.fixture, d.name), d.name)
      BY <3>2, <3>4
    <3>5. CASE AddMaidsafeTests(FullNames("typed", d.fixture, d.name), d.name)
      BY <3>2, <3>5
    <3>6. CASE AddMaidsafeTests(plain, d.name)
      BY <3>3, <3>6
    <3> QED
      BY <3>1, <3>4, <3>5, <3>6
  <2> QED
    BY <1>2, <2>1, <2>2
<1>5. PICK full, name : /\ AddMaidsafeTests(full, name)
                        /\ \A k \in DOMAIN full : full[k].name = name
  BY <1>4
<1>6. /\ t.target = current
      /\ t.skipped = Skipped(t.full)
      /\ t.bootstrap = (network /\ ~Skipped(t.full))
      /\ \E k \in DOMAIN full : t.full = full[k]
      /\ t.timeout = Timeout(name.word)
  BY <1>5, AddedTests
<1> QED
  BY <1>3, <1>5, <1>6

\* --bootstrap_file is passed to the tests of network targets, and to them only,
\* however targets with and without the network follow one another.
THEOREM BootstrapStaysInScope == Spec => []BootstrapForNetworkTests
<1>1. Init => BootstrapForNetworkTests
  BY DEF Init, BootstrapForNetworkTests
<1>2. ScopeInv /\ BootstrapForNetworkTests /\ [Next]_vars
        => BootstrapForNetworkTests'
  <2> SUFFICES ASSUME ScopeInv, BootstrapForNetworkTests, [Next]_vars,
                      NEW t \in tests'
               PROVE  t.bootstrap = (targets'[t.target].network /\ ~t.skipped)
    BY DEF BootstrapForNetworkTests
  <2>1. targets' = targets
    BY DEF Next, SetGlobalTestTimeoutFactor, AddGtests, NextFile, Return,
       GetTypedefTypes, GetFixturesTypes, GetFixturesValueParameters,
       GetFixturesTypeParameters, AddRegisteredTypedTests,
       AddNonTypeParameterised, given, vars
  <2>2. CASE t \in tests
    BY <2>1, <2>2 DEF BootstrapForNetworkTests
  <2>3. CASE t \notin tests
    <3>1. Inside /\ t.target = current
      BY <2>3, NewTests
    <3>2. network = targets[current].network
      BY <3>1 DEF Inside, ScopeInv
    <3> QED
      BY <2>1, <2>3, <3>1, <3>2, NewTests
  <2> QED
    BY <2>2, <2>3
<1> QED
  BY <1>1, <1>2, ScopesHold, PTL DEF Spec

\* No timeout is multiplied twice, however many tests have been added before.
THEOREM TimeoutsAreNotCompounded == Spec => []TimeoutsScaledOnce
<1>1. Init => TimeoutsScaledOnce
  BY DEF Init, TimeoutsScaledOnce
<1>2. ScopeInv /\ TimeoutsScaledOnce /\ [Next]_vars => TimeoutsScaledOnce'
  <2> SUFFICES ASSUME ScopeInv, TimeoutsScaledOnce, [Next]_vars, NEW t \in tests',
                      BaseTimeout(t.full.name.word) # None
               PROVE  t.timeout \in {BaseTimeout(t.full.name.word)} \cup
                        {BaseTimeout(t.full.name.word) * f : f \in Factors}
    BY DEF TimeoutsScaledOnce
  <2>1. CASE t \in tests
    BY <2>1 DEF TimeoutsScaledOnce
  <2>2. CASE t \notin tests
    <3>1. t.timeout = Timeout(t.full.name.word)
      BY <2>2, NewTests
    <3>2. factor \in Factors \cup {None}
      BY DEF ScopeInv
    <3> QED
      BY <3>1, <3>2 DEF Timeout
  <2> QED
    BY <2>1, <2>2
<1> QED
  BY <1>1, <1>2, ScopesHold, PTL DEF Spec

-----------------------------------------------------------------------------
(* The matches of a target *)

\* The matches of all passes over target t: file, place in it, part.
Decl(t, x) == t.files[x[1]][x[2]]
Places(t) ==
  {x \in Nat \X Nat \X Nat :
     x[1] \in DOMAIN t.files /\ x[2] \in DOMAIN t.files[x[1]] /\ x[3] \in Parts(Decl(t, x))}

\* Those handled when pass p is at file f and has the matches td left in it.
DoneOf(t, p, f, td) ==
  {x \in Places(t) :
     \/ PassOf(Decl(t, x).macro) < p
     \/ /\ PassOf(Decl(t, x).macro) = p
        /\ (x[1] < f) \/ (x[1] = f /\ <<x[2], x[3]>> \notin td)}

Done == DoneOf(targets[current], pass, file, todo)

OfFixture(t, D, kind, fixture) ==
  {x \in D : Decl(t, x).macro = kind /\ Decl(t, x).fixture = fixture}

Kinds == {"typed", "values", "types"}
Fixtures(t) == {Decl(t, x).fixture : x \in {y \in Places(t) : Decl(t, y).macro # "alias"}}

\* The variables <alias>Var after the declarations D of t.
AliasFor(t, D, al) ==
  LET As == {x \in D : Decl(t, x).macro = "alias"}
  IN  /\ DOMAIN al = {Decl(t, x).alias : x \in As}
      /\ \A x \in As : al[Decl(t, x).alias] = Decl(t, x).n

IsList(s) == s \in Seq(Range(s)) /\ IsInjective(s)

\* The parameters a declaration gives a fixture.
Elements(t, d) ==
  {[inst |-> InstanceName(d), index |-> j] : j \in 0 .. Instances(t, d) - 1}
ElementsOf(t, X) == UNION {Elements(t, Decl(t, x)) : x \in X}

\* The lists of parameters after the declarations D of t.
ParamsFor(t, D, pa) ==
  \A kind \in Kinds : \A fixture \in Fixtures(t) :
    LET s == Get(pa, <<kind, fixture>>, <<>>)
    IN  /\ IsList(s)
        /\ Range(s) = ElementsOf(t, OfFixture(t, D, kind, fixture))

\* The tests one match stands for.
Names(t, x) ==
  LET d == Decl(t, x)
  IN  CASE d.macro = "register" -> Instantiated(t, "types", d.fixture, d.names[x[3]])
        [] d.macro = "test" /\ d.type \in {"TEST", "TEST_F"} -> {Plain(d)}
        [] d.macro = "test" /\ d.type = "TEST_P" -> Instantiated(t, "values", d.fixture, d.name)
        [] d.macro = "test" /\ d.type = "TYPED_TEST" -> Instantiated(t, "typed", d.fixture, d.name)
        [] OTHER -> {}

NamesOf(t, D) == UNION {Names(t, x) : x \in D}

TestsOf(k) == {u.full : u \in {v \in tests : v.target = k}}
AcceptedOf(F) == {f \in F : Accepted(f.name)}

Listed ==
  /\ IsFiniteSet(tests)
  /\ all \in Seq(Range(all))
  /\ Len(all) = Cardinality(tests)
  /\ Range(all) = {u.full : u \in tests}
  /\ \A u \in tests : u.target \in 1 .. current

\* Inside ms_add_gtests.
InsideInv ==
  LET t == targets[current]
  IN  /\ file \in DOMAIN t.files
      /\ todo \subseteq Matches(pass, t.files[file])
      /\ AliasFor(t, Done, alias)
      /\ ParamsFor(t, Done, params)
      /\ TestsOf(current) = AcceptedOf(NamesOf(t, Done))

OutsideInv ==
  /\ alias = Nothing /\ params = Nothing
  /\ \A u \in tests : u.target # current

RegistrationInv ==
  /\ pass = 0 => OutsideInv
  /\ pass # 0 => InsideInv
  /\ 1 .. current - 1 \subseteq DOMAIN targets
  /\ \A k \in 1 .. current - 1 : TestsOf(k) = AcceptedOf(InExecutable(targets[k]))
  /\ Listed

-----------------------------------------------------------------------------
(* Matches *)

LEMMA PassOfMacro ==
  /\ PassOf("alias") = 1
  /\ PassOf("typed") = 2 /\ PassOf("values") = 2 /\ PassOf("types") = 2
  /\ PassOf("register") = 3 /\ PassOf("test") = 3
<1> DEFINE P(m, p) == p \in 1 .. 3 /\ m \in Range(Passes[p])
<1>1. /\ Passes[1] = <<"alias">>
      /\ Passes[2] = <<"typed", "values", "types">>
      /\ Passes[3] = <<"register", "test">>
  BY DEF Passes
<1>2. /\ Range(Passes[1]) = {"alias"}
      /\ Range(Passes[2]) = {"typed", "values", "types"}
      /\ Range(Passes[3]) = {"register", "test"}
  <2>1. Range(<<"alias">>) = {"alias"}
    BY DEF Range
  <2>2. Range(<<"typed", "values", "types">>) = {"typed", "values", "types"}
    <3> DEFINE s == <<"typed", "values", "types">>
    <3>1. DOMAIN s = {1, 2, 3} /\ s[1] = "typed" /\ s[2] = "values" /\ s[3] = "types"
      OBVIOUS
    <3> HIDE DEF s
    <3> QED
      BY <3>1 DEF Range
  <2>3. Range(<<"register", "test">>) = {"register", "test"}
    <3> DEFINE s == <<"register", "test">>
    <3>1. DOMAIN s = {1, 2} /\ s[1] = "register" /\ s[2] = "test"
      OBVIOUS
    <3> HIDE DEF s
    <3> QED
      BY <3>1 DEF Range
  <2> QED
    BY <1>1, <2>1, <2>2, <2>3
<1>3. ASSUME NEW m, NEW p \in 1 .. 3, m \in Range(Passes[p]),
             \A q \in 1 .. 3 : m \in Range(Passes[q]) => q = p
      PROVE  PassOf(m) = p
  BY <1>3 DEF PassOf
<1>4. 1 .. 3 = {1, 2, 3}
  OBVIOUS
<1> QED
  BY <1>2, <1>3, <1>4

LEMMA IsDone ==
  ASSUME NEW t, NEW x \in Places(t), NEW p, NEW f, NEW td
  PROVE  (x \in DoneOf(t, p, f, td)) <=>
           \/ PassOf(Decl(t, x).macro) < p
           \/ PassOf(Decl(t, x).macro) = p /\ x[1] < f
           \/ PassOf(Decl(t, x).macro) = p /\ x[1] = f /\ <<x[2], x[3]>> \notin td
BY DEF DoneOf

\* What is matched in the current file are places of it in this pass.
LEMMA MatchPlace ==
  ASSUME NEW t, Compiles(t), NEW k \in DOMAIN t.files, NEW p, NEW m \in Matches(p, t.files[k])
  PROVE  /\ <<k, m[1], m[2]>> \in Places(t)
         /\ m = <<m[1], m[2]>>
         /\ PassOf(Decl(t, <<k, m[1], m[2]>>).macro) = p
         /\ Decl(t, <<k, m[1], m[2]>>) = t.files[k][m[1]]
<1>1. PICK i \in DOMAIN t.files[k] : PassOf(t.files[k][i].macro) = p /\ m \in {i} \X Parts(t.files[k][i])
  BY DEF Matches
<1>2. m = <<i, m[2]>> /\ m[1] = i /\ m[2] \in Parts(t.files[k][i])
  BY <1>1
<1>3. k \in Nat /\ i \in Nat /\ m[2] \in Nat
  BY <1>1, <1>2 DEF Compiles, Readable
<1> QED
  BY <1>1, <1>2, <1>3 DEF Places, Decl

\* Every place of the pass in the file is matched.
LEMMA PlaceMatch ==
  ASSUME NEW t, NEW x \in Places(t), NEW p, PassOf(Decl(t, x).macro) = p
  PROVE  <<x[2], x[3]>> \in Matches(p, t.files[x[1]])
BY DEF Places, Decl, Matches

\* The pass of a place.
LEMMA PassOfPlace ==
  ASSUME NEW t, Compiles(t), NEW x \in Places(t)
  PROVE  /\ PassOf(Decl(t, x).macro) \in 1 .. 3
         /\ x[1] \in 1 .. Len(t.files) /\ Len(t.files) \in Nat
         /\ Decl(t, x).macro \in {"alias", "typed", "values", "types", "register", "test"}
<1>1. Decl(t, x).macro \in {"alias", "typed", "values", "types", "register", "test"}
  BY DEF Places, Decl, Compiles, Readable
<1> QED
  BY <1>1, PassOfMacro DEF Places, Compiles

\* Nothing is done when a target is entered.
LEMMA NothingDone ==
  ASSUME NEW t, Compiles(t)
  PROVE  DoneOf(t, 1, 1, Matches(1, t.files[1])) = {}
<1> SUFFICES ASSUME NEW x \in DoneOf(t, 1, 1, Matches(1, t.files[1])) PROVE FALSE
  OBVIOUS
<1>1. x \in Places(t)
  BY DEF DoneOf
<1>2. x[1] = 1 /\ PassOf(Decl(t, x).macro) = 1 /\ <<x[2], x[3]>> \notin Matches(1, t.files[1])
  BY <1>1, PassOfPlace, IsDone
<1> QED
  BY <1>1, <1>2, PlaceMatch

\* One match is handled.
LEMMA MatchDone ==
  ASSUME NEW t, Compiles(t), NEW p \in 1 .. 3, NEW f \in DOMAIN t.files, NEW td,
         td \subseteq Matches(p, t.files[f]), NEW m \in td,
         NEW x, x = <<f, m[1], m[2]>>
  PROVE  /\ x \in Places(t) /\ x \notin DoneOf(t, p, f, td)
         /\ DoneOf(t, p, f, td \ {m}) = DoneOf(t, p, f, td) \cup {x}
<1>1. /\ x \in Places(t) /\ m = <<m[1], m[2]>> /\ PassOf(Decl(t, x).macro) = p
      /\ x[1] = f /\ x[2] = m[1] /\ x[3] = m[2]
  BY MatchPlace
<1>2. p \in Nat /\ f \in Nat
  BY <1>1, PassOfPlace
<1>3. x \notin DoneOf(t, p, f, td)
  BY <1>1, <1>2, IsDone
<1>4. ASSUME NEW y \in Places(t)
      PROVE  (y \in DoneOf(t, p, f, td \ {m})) <=> (y \in DoneOf(t, p, f, td) \/ y = x)
  <2> DEFINE q == PassOf(Decl(t, y).macro)
  <2>1. y = <<y[1], y[2], y[3]>> /\ x = <<x[1], x[2], x[3]>>
    BY <1>1 DEF Places
  <2>2. <<y[2], y[3]>> = m <=> (y[2] = x[2] /\ y[3] = x[3])
    BY <1>1, <2>1
  <2>3. (y = x) <=> (y[1] = f /\ <<y[2], y[3]>> = m)
    BY <1>1, <2>1, <2>2
  <2>4. y = x => q = p
    BY <1>1
  <2>5. q \in Nat /\ y[1] \in Nat
    BY <1>4, PassOfPlace
  <2>6. (y \in DoneOf(t, p, f, td)) <=>
          \/ q < p \/ (q = p /\ y[1] < f)
          \/ q = p /\ y[1] = f /\ <<y[2], y[3]>> \notin td
    BY <1>4, IsDone
  <2>7. (y \in DoneOf(t, p, f, td \ {m})) <=>
          \/ q < p \/ (q = p /\ y[1] < f)
          \/ q = p /\ y[1] = f /\ <<y[2], y[3]>> \notin td \ {m}
    BY <1>4, IsDone
  <2> HIDE DEF q
  <2> QED
    BY <2>3, <2>4, <2>6, <2>7
<1>5. DoneOf(t, p, f, td) \subseteq Places(t) /\ DoneOf(t, p, f, td \ {m}) \subseteq Places(t)
  BY DEF DoneOf
<1> QED
  BY <1>1, <1>3, <1>4, <1>5

\* The loops lose no match and repeat none: the next file,
LEMMA FileDone ==
  ASSUME NEW t, Compiles(t), NEW p \in 1 .. 3, NEW f \in DOMAIN t.files
  PROVE  DoneOf(t, p, f, {}) = DoneOf(t, p, f + 1, Matches(p, t.files[f + 1]))
<1> DEFINE td == Matches(p, t.files[f + 1])
<1>0. f \in Nat
  BY DEF Compiles
<1>1. ASSUME NEW y \in Places(t)
      PROVE  (y \in DoneOf(t, p, f, {})) <=> (y \in DoneOf(t, p, f + 1, td))
  <2> DEFINE q == PassOf(Decl(t, y).macro)
  <2>1. q \in 1 .. 3 /\ y[1] \in Nat
    BY <1>1, PassOfPlace
  <2>2. (y \in DoneOf(t, p, f, {})) <=> \/ q < p \/ (q = p /\ y[1] < f) \/ (q = p /\ y[1] = f)
    BY <1>1, IsDone
  <2>3. (y \in DoneOf(t, p, f + 1, td)) <=>
          \/ q < p \/ (q = p /\ y[1] < f + 1)
          \/ q = p /\ y[1] = f + 1 /\ <<y[2], y[3]>> \notin td
    BY <1>1, IsDone
  <2>4. q = p /\ y[1] = f + 1 => <<y[2], y[3]>> \in td
    BY <1>1, PlaceMatch
  <2> HIDE DEF q, td
  <2> QED
    BY <1>0, <2>1, <2>2, <2>3, <2>4
<1> QED
  BY <1>1 DEF DoneOf

\* and the next pass.
LEMMA PassDone ==
  ASSUME NEW t, Compiles(t), NEW p \in 1 .. 2
  PROVE  DoneOf(t, p, Len(t.files), {}) = DoneOf(t, p + 1, 1, Matches(p + 1, t.files[1]))
<1> DEFINE td == Matches(p + 1, t.files[1])
           n == Len(t.files)
<1>1. ASSUME NEW y \in Places(t)
      PROVE  (y \in DoneOf(t, p, n, {})) <=> (y \in DoneOf(t, p + 1, 1, td))
  <2> DEFINE q == PassOf(Decl(t, y).macro)
  <2>1. q \in 1 .. 3 /\ y[1] \in 1 .. n /\ n \in Nat
    BY <1>1, PassOfPlace
  <2>2. (y \in DoneOf(t, p, n, {})) <=> \/ q < p \/ (q = p /\ y[1] < n) \/ (q = p /\ y[1] = n)
    BY <1>1, IsDone
  <2>3. (y \in DoneOf(t, p + 1, 1, td)) <=>
          \/ q < p + 1 \/ (q = p + 1 /\ y[1] < 1)
          \/ q = p + 1 /\ y[1] = 1 /\ <<y[2], y[3]>> \notin td
    BY <1>1, IsDone
  <2>4. q = p + 1 /\ y[1] = 1 => <<y[2], y[3]>> \in td
    BY <1>1, PlaceMatch
  <2> HIDE DEF q, td, n
  <2> QED
    BY <2>1, <2>2, <2>3, <2>4
<1> QED
  BY <1>1 DEF DoneOf

\* The function ends when every match of the target has been handled.
LEMMA AllDone ==
  ASSUME NEW t, Compiles(t)
  PROVE  DoneOf(t, 3, Len(t.files), {}) = Places(t)
<1>1. ASSUME NEW x \in Places(t) PROVE x \in DoneOf(t, 3, Len(t.files), {})
  <2> DEFINE q == PassOf(Decl(t, x).macro)
             n == Len(t.files)
  <2>1. q \in 1 .. 3 /\ x[1] \in 1 .. n /\ n \in Nat
    BY <1>1, PassOfPlace
  <2>2. q < 3 \/ (q = 3 /\ (x[1] < n \/ (x[1] = n /\ <<x[2], x[3]>> \notin {})))
    <3> HIDE DEF q, n
    <3> QED
      BY <2>1
  <2> QED
    BY <1>1, <2>2 DEF DoneOf
<1> QED
  BY <1>1 DEF DoneOf

-----------------------------------------------------------------------------
(* The variables of a target *)

\* No two matches declare the same thing.
LEMMA KeysDiffer ==
  ASSUME NEW t, Compiles(t), NEW x \in Places(t), NEW y \in Places(t),
         Key(Decl(t, x), x[3]) = Key(Decl(t, y), y[3])
  PROVE  x = y
<1>1. x[1] = y[1] /\ x[2] = y[2] /\ x[3] = y[3]
  <2>1. /\ x[1] \in DOMAIN t.files /\ x[2] \in DOMAIN t.files[x[1]]
        /\ x[3] \in Parts(t.files[x[1]][x[2]])
    BY DEF Places, Decl
  <2>2. /\ y[1] \in DOMAIN t.files /\ y[2] \in DOMAIN t.files[y[1]]
        /\ y[3] \in Parts(t.files[y[1]][y[2]])
    BY DEF Places, Decl
  <2> DEFINE d == t.files[x[1]][x[2]]
             e == t.files[y[1]][y[2]]
  <2>3. \A i \in DOMAIN t.files[x[1]], j \in DOMAIN t.files[y[1]] :
          \A n \in Parts(t.files[x[1]][i]), o \in Parts(t.files[y[1]][j]) :
            Key(t.files[x[1]][i], n) = Key(t.files[y[1]][j], o) => x[1] = y[1] /\ i = j /\ n = o
    BY <2>1, <2>2 DEF Compiles, DeclaredOnce
  <2>4. \A n \in Parts(d), o \in Parts(e) :
          Key(d, n) = Key(e, o) => x[1] = y[1] /\ x[2] = y[2] /\ n = o
    BY <2>1, <2>2, <2>3
  <2>5. Key(d, x[3]) = Key(e, y[3])
    BY DEF Decl
  <2> HIDE DEF d, e
  <2> QED
    BY <2>1, <2>2, <2>4, <2>5 DEF d, e
<1>2. x = <<x[1], x[2], x[3]>> /\ y = <<y[1], y[2], y[3]>>
  BY DEF Places
<1> QED
  BY <1>1, <1>2

\* What a declaration is, by its macro.
LEMMA DeclIs ==
  ASSUME NEW t, Compiles(t), NEW x \in Places(t)
  PROVE  LET d == Decl(t, x) IN
         /\ d.macro = "alias" => d.n \in Nat /\ TypePlaceholders(d.text) = d.n
         /\ d.macro = "values" => d.n \in Nat /\ ValueParameters(d.gen) = d.n
         /\ d.macro = "typed" => \E a \in Declared(t, "alias") : a.alias = d.alias
         /\ d.macro = "test" =>
              /\ d.type \in {"TEST", "TEST_F", "TEST_P", "TYPED_TEST", "TYPED_TEST_P"}
              /\ d.name.word \in Words
BY DEF Places, Decl, Compiles, Readable

\* A declaration of the files is the declaration of a place, and conversely.
LEMMA DeclaredIs ==
  ASSUME NEW t, Compiles(t), NEW kind
  PROVE  /\ \A x \in Places(t) : Decl(t, x).macro = kind => Decl(t, x) \in Declared(t, kind)
         /\ kind # "register" =>
              \A d \in Declared(t, kind) : \E x \in Places(t) : Decl(t, x) = d
<1>1. ASSUME NEW x \in Places(t), Decl(t, x).macro = kind PROVE Decl(t, x) \in Declared(t, kind)
  BY <1>1 DEF Places, Decl, Declared, Range
<1>2. ASSUME kind # "register", NEW d \in Declared(t, kind)
      PROVE  \E x \in Places(t) : Decl(t, x) = d
  <2>1. PICK k \in DOMAIN t.files : d \in Range(t.files[k]) /\ d.macro = kind
    BY DEF Declared
  <2>2. PICK i \in DOMAIN t.files[k] : d = t.files[k][i]
    BY <2>1 DEF Range
  <2>3. k \in Nat /\ i \in Nat /\ 1 \in Parts(d)
    BY <1>2, <2>1, <2>2 DEF Compiles, Parts
  <2>4. <<k, i, 1>> \in Places(t) /\ Decl(t, <<k, i, 1>>) = d
    BY <2>2, <2>3 DEF Places, Decl
  <2> QED
    BY <2>4
<1> QED
  BY <1>1, <1>2

\* An alias is stored,
LEMMA AliasStored ==
  ASSUME NEW t, Compiles(t), NEW D, D \subseteq Places(t), NEW al, AliasFor(t, D, al),
         NEW x \in Places(t), x \notin D, Decl(t, x).macro = "alias"
  PROVE  AliasFor(t, D \cup {x}, Put(al, Decl(t, x).alias, Decl(t, x).n))
<1> DEFINE a == Decl(t, x).alias
           new == Put(al, a, Decl(t, x).n)
<1>1. DOMAIN new = DOMAIN al \cup {a} /\ new[a] = Decl(t, x).n
      /\ \A b \in DOMAIN al : b # a => new[b] = al[b]
  BY DEF Put
<1>2. ASSUME NEW y \in D, Decl(t, y).macro = "alias" PROVE Decl(t, y).alias # a
  <2>1. SUFFICES ASSUME Decl(t, y).alias = a PROVE FALSE
    OBVIOUS
  <2>2. Key(Decl(t, x), x[3]) = Key(Decl(t, y), y[3])
    BY <1>2, <2>1 DEF Key
  <2> QED
    BY <2>2, KeysDiffer
<1> HIDE DEF a, new
<1>3. a = Decl(t, x).alias
  BY DEF a
<1> QED
  BY ZenonT(40), <1>1, <1>2, <1>3 DEF AliasFor, new

\* and nothing else is one.
LEMMA AliasKept ==
  ASSUME NEW t, NEW D, NEW al, AliasFor(t, D, al), NEW x, Decl(t, x).macro # "alias"
  PROVE  AliasFor(t, D \cup {x}, al)
BY DEF AliasFor

\* Once every alias is stored the variables say what the types are.
LEMMA AliasRead ==
  ASSUME NEW t, Compiles(t), NEW D, D \subseteq Places(t), NEW al, AliasFor(t, D, al),
         \A x \in Places(t) : Decl(t, x).macro = "alias" => x \in D, NEW a
  PROVE  /\ TypesOf(t, a) \in Nat
         /\ Get(al, a, 1) = TypesOf(t, a)
         /\ (\E d \in Declared(t, "alias") : d.alias = a) => Get(al, a, 0) = TypesOf(t, a)
<1> DEFINE ds == {d \in Declared(t, "alias") : d.alias = a}
           e == CHOOSE d \in ds : TRUE
<1>1. a \in DOMAIN al <=> ds # {}
  BY DeclaredIs DEF AliasFor, Declared
<1>2. CASE ds # {}
  <2>1. e \in ds
    BY <1>2
  <2>2. PICK x \in Places(t) : Decl(t, x) = e
    BY <2>1, DeclaredIs
  <2>3. Decl(t, x).macro = "alias" /\ Decl(t, x).alias = a
    BY <2>1, <2>2 DEF Declared
  <2>4. al[a] = e.n /\ e.n \in Nat
    BY <2>2, <2>3, DeclIs DEF AliasFor
  <2>5. TypesOf(t, a) = e.n
    BY <1>2 DEF TypesOf
  <2> QED
    BY <1>1, <1>2, <2>4, <2>5 DEF Get
<1>3. CASE ds = {}
  <2>1. TypesOf(t, a) = 1
    BY <1>3 DEF TypesOf
  <2> QED
    BY <1>1, <1>3, <2>1 DEF Get
<1> QED
  BY <1>2, <1>3

-----------------------------------------------------------------------------
(* Lists without repetition *)

\* A sequence is extended by another.
LEMMA SequencesJoined ==
  ASSUME NEW r, r \in Seq(Range(r)), NEW s, s \in Seq(Range(s))
  PROVE  /\ r \o s \in Seq(Range(r) \cup Range(s))
         /\ Range(r \o s) = Range(r) \cup Range(s)
         /\ Len(r) \in Nat /\ Len(s) \in Nat /\ Len(r \o s) = Len(r) + Len(s)
         /\ \A i \in DOMAIN (r \o s) :
              /\ i \in Int
              /\ \/ i \in DOMAIN r /\ (r \o s)[i] = r[i]
                 \/ i - Len(r) \in DOMAIN s /\ (r \o s)[i] = s[i - Len(r)]
<1> DEFINE S == Range(r) \cup Range(s)
           u == r \o s
<1>1. r \in Seq(S) /\ s \in Seq(S) /\ Len(r) \in Nat /\ Len(s) \in Nat
      /\ DOMAIN r = 1 .. Len(r) /\ DOMAIN s = 1 .. Len(s)
  OBVIOUS
<1>2. /\ u \in Seq(S) /\ Len(u) = Len(r) + Len(s) /\ DOMAIN u = 1 .. Len(u)
      /\ \A i \in 1 .. Len(u) : u[i] = IF i <= Len(r) THEN r[i] ELSE s[i - Len(r)]
  BY <1>1
<1> HIDE DEF S, u
<1>3. \A i \in DOMAIN u :
        /\ i \in Int
        /\ \/ i \in DOMAIN r /\ u[i] = r[i]
           \/ i - Len(r) \in DOMAIN s /\ u[i] = s[i - Len(r)]
  <2> TAKE i \in DOMAIN u
  <2>1. u[i] = IF i <= Len(r) THEN r[i] ELSE s[i - Len(r)]
    BY <1>2
  <2>2. i <= Len(r) => i \in DOMAIN r
    BY <1>1, <1>2
  <2>3. ~(i <= Len(r)) => i - Len(r) \in DOMAIN s
    BY <1>1, <1>2
  <2>4. i \in Int
    BY <1>1, <1>2
  <2> QED
    BY <2>1, <2>2, <2>3, <2>4
<1>4. \A i \in DOMAIN r : i \in DOMAIN u /\ u[i] = r[i]
  BY <1>1, <1>2
<1>5. \A i \in DOMAIN s : i + Len(r) \in DOMAIN u /\ u[i + Len(r)] = s[i]
  BY <1>1, <1>2
<1>6. Range(u) = Range(r) \cup Range(s)
  <2>1. ASSUME NEW e \in Range(u) PROVE e \in Range(r) \cup Range(s)
    BY <1>3 DEF Range
  <2>2. ASSUME NEW e \in Range(r) PROVE e \in Range(u)
    BY <1>4 DEF Range
  <2>3. ASSUME NEW e \in Range(s) PROVE e \in Range(u)
    BY <1>5 DEF Range
  <2> QED
    BY <2>1, <2>2, <2>3
<1> QED
  BY <1>1, <1>2, <1>3, <1>6 DEF u, S

\* A list is extended by a list of other things.
LEMMA ListsJoined ==
  ASSUME NEW r, IsList(r), NEW s, IsList(s), Range(r) \cap Range(s) = {}
  PROVE  IsList(r \o s) /\ Range(r \o s) = Range(r) \cup Range(s)
<1> DEFINE u == r \o s
<1>1. /\ u \in Seq(Range(u)) /\ Range(u) = Range(r) \cup Range(s)
      /\ Len(r) \in Nat
      /\ \A i \in DOMAIN u :
           /\ i \in Int
           /\ \/ i \in DOMAIN r /\ u[i] = r[i]
              \/ i - Len(r) \in DOMAIN s /\ u[i] = s[i - Len(r)]
  BY SequencesJoined DEF IsList
<1> HIDE DEF u
<1>2. ASSUME NEW i \in DOMAIN u, NEW j \in DOMAIN u, u[i] = u[j] PROVE i = j
  <2>1. \A k \in DOMAIN r : r[k] \in Range(r)
    BY DEF Range
  <2>2. \A k \in DOMAIN s : s[k] \in Range(s)
    BY DEF Range
  <2>3. CASE i \in DOMAIN r /\ u[i] = r[i]
    <3>1. j \in DOMAIN r /\ u[j] = r[j]
      BY <1>1, <1>2, <2>1, <2>2, <2>3
    <3> QED
      BY <1>2, <2>3, <3>1 DEF IsList, IsInjective
  <2>4. CASE i - Len(r) \in DOMAIN s /\ u[i] = s[i - Len(r)]
    <3>1. j - Len(r) \in DOMAIN s /\ u[j] = s[j - Len(r)]
      BY <1>1, <1>2, <2>1, <2>2, <2>4
    <3>2. i - Len(r) = j - Len(r)
      BY <1>2, <2>4, <3>1 DEF IsList, IsInjective
    <3> QED
      BY <1>1, <3>2
  <2> QED
    BY <1>1, <2>3, <2>4
<1> QED
  BY <1>1, <1>2 DEF IsList, IsInjective, u

LEMMA EmptyList == IsList(<<>>) /\ Range(<<>>) = {}
<1>1. DOMAIN <<>> = {}
  OBVIOUS
<1>2. Range(<<>>) = {}
  BY <1>1 DEF Range
<1>3. <<>> \in Seq(Range(<<>>))
  OBVIOUS
<1> QED
  BY <1>1, <1>2, <1>3 DEF IsList, IsInjective

\* The names AddParams adds.
LEMMA NumberedList ==
  ASSUME NEW n \in Nat, NEW inst
  PROVE  LET more == [k \in 1 .. n |-> [inst |-> inst, index |-> k - 1]]
         IN  IsList(more) /\ Range(more) = {[inst |-> inst, index |-> j] : j \in 0 .. n - 1}
<1> DEFINE more == [k \in 1 .. n |-> [inst |-> inst, index |-> k - 1]]
<1>1. DOMAIN more = 1 .. n /\ \A k \in 1 .. n : more[k] = [inst |-> inst, index |-> k - 1]
  OBVIOUS
<1>2. more \in Seq(Range(more))
  <2>1. \A k \in 1 .. n : more[k] \in Range(more)
    BY <1>1 DEF Range
  <2>2. more \in [1 .. n -> Range(more)]
    BY <1>1, <2>1
  <2> HIDE DEF more
  <2> QED
    BY <2>2
<1> HIDE DEF more
<1>3. ASSUME NEW i \in 1 .. n, NEW j \in 1 .. n, more[i] = more[j] PROVE i = j
  <2>1. more[i].index = i - 1 /\ more[j].index = j - 1
    BY <1>1
  <2> QED
    BY <1>3, <2>1
<1>4. Range(more) = {[inst |-> inst, index |-> j] : j \in 0 .. n - 1}
  <2>1. ASSUME NEW k \in 1 .. n PROVE more[k] \in {[inst |-> inst, index |-> j] : j \in 0 .. n - 1}
    <3>1. k - 1 \in 0 .. n - 1
      OBVIOUS
    <3> QED
      BY <1>1, <3>1
  <2>2. ASSUME NEW j \in 0 .. n - 1 PROVE [inst |-> inst, index |-> j] \in Range(more)
    <3>1. j + 1 \in 1 .. n /\ (j + 1) - 1 = j
      OBVIOUS
    <3>2. more[j + 1] = [inst |-> inst, index |-> j]
      BY <1>1, <3>1
    <3> QED
      BY <1>1, <3>1, <3>2 DEF Range
  <2> QED
    BY <1>1, <2>1, <2>2 DEF Range
<1> QED
  BY <1>1, <1>2, <1>3, <1>4 DEF IsList, IsInjective, more

-----------------------------------------------------------------------------
(* The parameters of the fixtures *)

LEMMA ElementIs ==
  ASSUME NEW t, NEW d, NEW e \in Elements(t, d)
  PROVE  /\ e.inst = InstanceName(d) /\ e = [inst |-> e.inst, index |-> e.index]
         /\ e.index \in 0 .. Instances(t, d) - 1
BY DEF Elements

\* A declaration's parameters are not in the list of its fixture yet.
LEMMA ParametersAreNew ==
  ASSUME NEW t, Compiles(t), NEW D, D \subseteq Places(t), NEW x \in Places(t), x \notin D,
         Decl(t, x).macro \in Kinds
  PROVE  LET d == Decl(t, x)
         IN  Elements(t, d) \cap ElementsOf(t, OfFixture(t, D, d.macro, d.fixture)) = {}
<1> DEFINE d == Decl(t, x)
<1> SUFFICES ASSUME NEW e \in Elements(t, d), e \in ElementsOf(t, OfFixture(t, D, d.macro, d.fixture))
             PROVE  FALSE
  OBVIOUS
<1>1. PICK y \in OfFixture(t, D, d.macro, d.fixture) : e \in Elements(t, Decl(t, y))
  BY DEF ElementsOf
<1>2. y \in Places(t) /\ y # x /\ Decl(t, y).macro = d.macro /\ Decl(t, y).fixture = d.fixture
  BY <1>1 DEF OfFixture
<1>3. InstanceName(Decl(t, y)) = InstanceName(d)
  BY <1>1, ElementIs
<1>4. Key(Decl(t, y), y[3]) = Key(d, x[3])
  BY <1>2, <1>3 DEF Key, Kinds
<1> QED
  BY <1>2, <1>4, KeysDiffer

\* They are added to it,
LEMMA ParamsStored ==
  ASSUME NEW t, Compiles(t), NEW D, D \subseteq Places(t), NEW pa, ParamsFor(t, D, pa),
         NEW x \in Places(t), x \notin D, Decl(t, x).macro \in Kinds,
         NEW n \in Nat, n = Instances(t, Decl(t, x))
  PROVE  LET d == Decl(t, x)
             key == <<d.macro, d.fixture>>
             more == [k \in 1 .. n |-> [inst |-> InstanceName(d), index |-> k - 1]]
         IN  ParamsFor(t, D \cup {x}, Put(pa, key, Get(pa, key, <<>>) \o more))
<1> DEFINE d == Decl(t, x)
           key == <<d.macro, d.fixture>>
           more == [k \in 1 .. n |-> [inst |-> InstanceName(d), index |-> k - 1]]
           old == Get(pa, key, <<>>)
           new == Put(pa, key, old \o more)
<1>0. d.macro \in Kinds /\ d.fixture \in Fixtures(t)
  BY DEF Fixtures, Kinds
<1>1. IsList(more) /\ Range(more) = Elements(t, d)
  BY NumberedList DEF Elements
<1>2. IsList(old) /\ Range(old) = ElementsOf(t, OfFixture(t, D, d.macro, d.fixture))
  BY <1>0 DEF ParamsFor
<1> HIDE DEF more, old
<1>3. IsList(old \o more) /\ Range(old \o more) = Range(old) \cup Range(more)
  <2>1. Range(old) \cap Range(more) = {}
    BY <1>1, <1>2, ParametersAreNew
  <2> QED
    BY <1>1, <1>2, <2>1, ListsJoined
<1>4. Get(new, key, <<>>) = old \o more
  BY DEF Get, Put
<1>5. \A k : k # key => Get(new, k, <<>>) = Get(pa, k, <<>>)
  BY DEF Get, Put
<1> HIDE DEF new
<1>6. ASSUME NEW kind \in Kinds, NEW fixture \in Fixtures(t)
      PROVE  LET s == Get(new, <<kind, fixture>>, <<>>)
             IN  /\ IsList(s)
                 /\ Range(s) = ElementsOf(t, OfFixture(t, D \cup {x}, kind, fixture))
  <2>1. CASE <<kind, fixture>> = key
    <3>1. kind = d.macro /\ fixture = d.fixture
      BY <2>1
    <3>2. OfFixture(t, D \cup {x}, kind, fixture) = OfFixture(t, D, kind, fixture) \cup {x}
      BY <3>1 DEF OfFixture
    <3>3. ElementsOf(t, OfFixture(t, D \cup {x}, kind, fixture)) =
            ElementsOf(t, OfFixture(t, D, kind, fixture)) \cup Elements(t, d)
      BY <3>2 DEF ElementsOf
    <3> QED
      BY <1>1, <1>2, <1>3, <1>4, <2>1, <3>1, <3>3
  <2>2. CASE <<kind, fixture>> # key
    <3>1. ~(kind = d.macro /\ fixture = d.fixture)
      BY <2>2
    <3>2. OfFixture(t, D \cup {x}, kind, fixture) = OfFixture(t, D, kind, fixture)
      BY <3>1 DEF OfFixture
    <3> QED
      BY <1>5, <1>6, <2>2, <3>2 DEF ParamsFor
  <2> QED
    BY <2>1, <2>2
<1>7. ParamsFor(t, D \cup {x}, new)
  BY <1>6 DEF ParamsFor
<1> QED
  BY <1>7 DEF new, old, more

\* and nothing else adds to it.
LEMMA ParamsKept ==
  ASSUME NEW t, NEW D, NEW pa, ParamsFor(t, D, pa), NEW x, Decl(t, x).macro \notin Kinds
  PROVE  ParamsFor(t, D \cup {x}, pa)
<1>1. ASSUME NEW kind \in Kinds, NEW fixture
      PROVE  OfFixture(t, D \cup {x}, kind, fixture) = OfFixture(t, D, kind, fixture)
  BY <1>1 DEF OfFixture
<1> QED
  BY <1>1 DEF ParamsFor

\* Once every declaration has added its parameters, the full names of a test are
\* those of its instances, each of them once.
LEMMA FullNamesAre ==
  ASSUME NEW t, Compiles(t), NEW D, D \subseteq Places(t), ParamsFor(t, D, params),
         \A x \in Places(t) : Decl(t, x).macro \in Kinds => x \in D,
         NEW kind \in Kinds, NEW fixture \in Fixtures(t), NEW name
  PROVE  LET l == FullNames(kind, fixture, name)
         IN  /\ IsList(l)
             /\ Range(l) = Instantiated(t, kind, fixture, name)
<1> DEFINE list == Get(params, <<kind, fixture>>, <<>>)
           l == FullNames(kind, fixture, name)
           X == OfFixture(t, D, kind, fixture)
           Full(e) == [kind |-> kind, inst |-> e.inst, fixture |-> fixture,
                       index |-> e.index, name |-> name]
<1>1. IsList(list) /\ Range(list) = ElementsOf(t, X)
  BY DEF ParamsFor
<1>2. DOMAIN l = DOMAIN list /\ \A k \in DOMAIN list : l[k] = Full(list[k])
  BY DEF FullNames
<1> HIDE DEF list, l
<1>3. \A k \in DOMAIN list : list[k] \in ElementsOf(t, X)
  BY <1>1 DEF Range
<1>4. ASSUME NEW e \in ElementsOf(t, X), NEW g \in ElementsOf(t, X), Full(e) = Full(g) PROVE e = g
  <2>1. e = [inst |-> e.inst, index |-> e.index] /\ g = [inst |-> g.inst, index |-> g.index]
    BY ElementIs DEF ElementsOf
  <2>2. e.inst = g.inst /\ e.index = g.index
    BY <1>4
  <2> QED
    BY <2>1, <2>2
<1>5. DOMAIN list = 1 .. Len(list) /\ Len(list) \in Nat
  BY <1>1 DEF IsList
<1> HIDE DEF Full
<1>6. IsInjective(l)
  <2>1. ASSUME NEW i \in DOMAIN list, NEW j \in DOMAIN list, l[i] = l[j] PROVE i = j
    <3>1. list[i] = list[j]
      BY <1>2, <1>3, <1>4, <2>1
    <3> QED
      BY <1>1, <3>1 DEF IsList, IsInjective
  <2> QED
    BY <1>2, <2>1 DEF IsInjective
<1>7. l \in Seq(Range(l))
  <2>1. \A k \in 1 .. Len(list) : l[k] \in Range(l)
    BY <1>2, <1>5 DEF Range
  <2>2. l \in [1 .. Len(list) -> Range(l)]
    <3>1. l = [k \in DOMAIN list |-> Full(list[k])]
      BY DEF l, FullNames, Full, list
    <3> QED
      BY <1>2, <1>5, <2>1, <3>1
  <2> QED
    BY <1>5, <2>2
<1>8. Range(l) = {Full(e) : e \in ElementsOf(t, X)}
  BY <1>1, <1>2 DEF Range
<1>9. ElementsOf(t, X) =
        UNION {Elements(t, d) : d \in {e \in Declared(t, kind) : e.fixture = fixture}}
  <2>1. ASSUME NEW x \in X PROVE Decl(t, x) \in {e \in Declared(t, kind) : e.fixture = fixture}
    BY DeclaredIs DEF OfFixture
  <2>2. ASSUME NEW d \in Declared(t, kind), d.fixture = fixture
        PROVE  \E x \in X : Decl(t, x) = d
    <3>1. PICK x \in Places(t) : Decl(t, x) = d
      BY <2>2, DeclaredIs DEF Kinds
    <3>2. d.macro = kind
      BY DEF Declared
    <3> QED
      BY <2>2, <3>1, <3>2 DEF OfFixture
  <2> HIDE DEF X
  <2> QED
    BY <2>1, <2>2 DEF ElementsOf
<1>10. {Full(e) : e \in ElementsOf(t, X)} = Instantiated(t, kind, fixture, name)
  <2> DEFINE ds == {e \in Declared(t, kind) : e.fixture = fixture}
             Of(d) == {[kind |-> kind, inst |-> InstanceName(d), fixture |-> fixture,
                        index |-> k, name |-> name] : k \in 0 .. Instances(t, d) - 1}
  <2>1. Instantiated(t, kind, fixture, name) = UNION {Of(d) : d \in ds}
    BY DEF Instantiated
  <2>2. ASSUME NEW d \in ds PROVE Of(d) = {Full(e) : e \in Elements(t, d)}
    <3> DEFINE J == 0 .. Instances(t, d) - 1
               El(j) == [inst |-> InstanceName(d), index |-> j]
               One(j) == [kind |-> kind, inst |-> InstanceName(d), fixture |-> fixture,
                          index |-> j, name |-> name]
    <3>1. \A j \in J : Full(El(j)) = One(j)
      BY DEF Full
    <3>2. Elements(t, d) = {El(j) : j \in J} /\ Of(d) = {One(j) : j \in J}
      BY DEF Elements
    <3> HIDE DEF J, El, One, Of
    <3> QED
      BY <3>1, <3>2
  <2> HIDE DEF ds, Of
  <2> QED
    BY <1>9, <2>1, <2>2 DEF ds
<1> QED
  BY <1>6, <1>7, <1>8, <1>10 DEF IsList, l

-----------------------------------------------------------------------------
(* The tests of a target *)

\* A full name tells which match it comes from.
LEMMA NameIs ==
  ASSUME NEW t, NEW x, NEW f \in Names(t, x)
  PROVE  LET d == Decl(t, x)
         IN  /\ f.fixture = d.fixture
             /\ \/ d.macro = "register" /\ f.kind = "types" /\ f.name = d.names[x[3]]
                \/ d.macro = "test" /\ f.kind # "types" /\ f.name = d.name
                   /\ d.type \in {"TEST", "TEST_F", "TEST_P", "TYPED_TEST"}
<1> DEFINE d == Decl(t, x)
<1>1. \A kind, name : f \in Instantiated(t, kind, d.fixture, name) =>
        f.kind = kind /\ f.fixture = d.fixture /\ f.name = name
  BY DEF Instantiated
<1>2. f \in {Plain(d)} => f.kind = "plain" /\ f.fixture = d.fixture /\ f.name = d.name
  <2>1. Plain(d).kind = "plain" /\ Plain(d).fixture = d.fixture /\ Plain(d).name = d.name
    BY DEF Plain
  <2> QED
    BY <2>1
<1>3. CASE d.macro = "register"
  BY <1>1, <1>3 DEF Names
<1>4. CASE d.macro = "test"
  BY <1>1, <1>2, <1>4 DEF Names
<1>5. CASE d.macro \notin {"register", "test"}
  BY <1>5 DEF Names
<1> QED
  BY <1>3, <1>4, <1>5

LEMMA NamesDiffer ==
  ASSUME NEW t, Compiles(t), NEW x \in Places(t), NEW y \in Places(t),
         NEW f \in Names(t, x), f \in Names(t, y)
  PROVE  x = y
<1>1. Key(Decl(t, x), x[3]) = Key(Decl(t, y), y[3])
  BY NameIs DEF Key
<1> QED
  BY <1>1, KeysDiffer

\* The words of the names of the tests.
LEMMA WordIs ==
  ASSUME NEW t, Compiles(t), NEW f \in InExecutable(t)
  PROVE  f.name.word \in Words
<1>1. PICK d \in Declared(t, "test") :
        f \in CASE d.type \in {"TEST", "TEST_F"} -> {Plain(d)}
                [] d.type = "TEST_P" -> Instantiated(t, "values", d.fixture, d.name)
                [] d.type = "TYPED_TEST" -> Instantiated(t, "typed", d.fixture, d.name)
                [] d.type = "TYPED_TEST_P" -> Instantiated(t, "types", d.fixture, d.name)
  BY DEF InExecutable
<1>2. PICK x \in Places(t) : Decl(t, x) = d
  BY DeclaredIs
<1>3. d.type \in {"TEST", "TEST_F", "TEST_P", "TYPED_TEST", "TYPED_TEST_P"} /\ d.name.word \in Words
  BY <1>2, DeclIs DEF Declared
<1>4. \A kind : f \in Instantiated(t, kind, d.fixture, d.name) => f.name = d.name
  BY DEF Instantiated
<1>5. f \in {Plain(d)} => f.name = d.name
  <2>1. Plain(d).name = d.name
    BY DEF Plain
  <2> QED
    BY <2>1
<1>6. f.name = d.name
  BY <1>1, <1>3, <1>4, <1>5
<1> QED
  BY <1>3, <1>6

\* All matches together stand for the tests of the executable: the tests of
\* TYPED_TEST_P where they are registered, the others where they are defined.
LEMMA NamesAreTests ==
  ASSUME NEW t, Compiles(t)
  PROVE  NamesOf(t, Places(t)) = InExecutable(t)
<1> DEFINE Of(d) ==
             CASE d.type \in {"TEST", "TEST_F"} -> {Plain(d)}
               [] d.type = "TEST_P" -> Instantiated(t, "values", d.fixture, d.name)
               [] d.type = "TYPED_TEST" -> Instantiated(t, "typed", d.fixture, d.name)
               [] d.type = "TYPED_TEST_P" -> Instantiated(t, "types", d.fixture, d.name)
<1>1. InExecutable(t) = UNION {Of(d) : d \in Declared(t, "test")}
  BY DEF InExecutable
<1>2. RegisteredAsDefined(t)
  BY DEF Compiles
<1>3. ASSUME NEW x \in Places(t), Decl(t, x).macro = "test", Decl(t, x).type # "TYPED_TEST_P"
      PROVE  Names(t, x) = Of(Decl(t, x))
  BY <1>3, DeclIs DEF Names
<1>4. ASSUME NEW x \in Places(t), Decl(t, x).macro = "register"
      PROVE  \E d \in Declared(t, "test") : Names(t, x) = Of(d)
  <2> DEFINE r == Decl(t, x)
  <2>1. x[3] \in DOMAIN r.names /\ r \in Declared(t, "register")
    BY <1>4, DeclaredIs DEF Places, Parts
  <2>2. <<r.fixture, r.names[x[3]]>> \in
          {<<d.fixture, d.name>> : d \in {e \in Declared(t, "test") : e.type = "TYPED_TEST_P"}}
    <3> DEFINE Pairs(e) == {<<e.fixture, e.names[n]>> : n \in DOMAIN e.names}
    <3>1. <<r.fixture, r.names[x[3]]>> \in Pairs(r)
      BY <2>1
    <3> HIDE DEF r
    <3>2. UNION {Pairs(e) : e \in Declared(t, "register")} =
            {<<d.fixture, d.name>> : d \in {e \in Declared(t, "test") : e.type = "TYPED_TEST_P"}}
      BY <1>2 DEF RegisteredAsDefined
    <3> HIDE DEF Pairs
    <3>3. <<r.fixture, r.names[x[3]]>> \in UNION {Pairs(e) : e \in Declared(t, "register")}
      BY <2>1, <3>1
    <3> QED
      BY <3>2, <3>3
  <2>3. PICK d \in Declared(t, "test") :
          d.type = "TYPED_TEST_P" /\ d.fixture = r.fixture /\ d.name = r.names[x[3]]
    BY <2>2
  <2>4. Of(d) = Instantiated(t, "types", r.fixture, r.names[x[3]])
    BY <2>3
  <2> QED
    BY <1>4, <2>3, <2>4 DEF Names
<1>5. ASSUME NEW d \in Declared(t, "test"), d.type = "TYPED_TEST_P"
      PROVE  \E x \in Places(t) : Names(t, x) = Of(d)
  <2>1. <<d.fixture, d.name>> \in
          UNION {{<<e.fixture, e.names[n]>> : n \in DOMAIN e.names} : e \in Declared(t, "register")}
    BY <1>2, <1>5 DEF RegisteredAsDefined
  <2>2. PICK e \in Declared(t, "register") :
          \E n \in DOMAIN e.names : e.fixture = d.fixture /\ e.names[n] = d.name
    BY <2>1
  <2>3. PICK n \in DOMAIN e.names : e.fixture = d.fixture /\ e.names[n] = d.name
    BY <2>2
  <2>4. PICK k \in DOMAIN t.files : e \in Range(t.files[k]) /\ e.macro = "register"
    BY DEF Declared
  <2>5. PICK i \in DOMAIN t.files[k] : e = t.files[k][i]
    BY <2>4 DEF Range
  <2>6. k \in Nat /\ i \in Nat /\ n \in Parts(e) /\ n \in Nat
    BY <2>4, <2>5 DEF Compiles, Readable, Parts
  <2> DEFINE x == <<k, i, n>>
  <2>7. x \in Places(t) /\ Decl(t, x) = e /\ x[3] = n
    BY <2>5, <2>6 DEF Places, Decl
  <2>8. Of(d) = Instantiated(t, "types", d.fixture, d.name)
    BY <1>5
  <2> HIDE DEF x, Of
  <2> QED
    BY <2>3, <2>4, <2>7, <2>8 DEF Names
<1>6. ASSUME NEW x \in Places(t) PROVE Names(t, x) \subseteq InExecutable(t)
  <2>1. CASE Decl(t, x).macro = "test" /\ Decl(t, x).type # "TYPED_TEST_P"
    BY <1>1, <1>3, <2>1, DeclaredIs
  <2>2. CASE Decl(t, x).macro = "register"
    BY <1>1, <1>4, <2>2
  <2>3. CASE Decl(t, x).macro # "register" /\ ~(Decl(t, x).macro = "test" /\ Decl(t, x).type # "TYPED_TEST_P")
    BY <2>3 DEF Names
  <2> QED
    BY <2>1, <2>2, <2>3
<1>7. ASSUME NEW d \in Declared(t, "test") PROVE \E x \in Places(t) : Names(t, x) = Of(d)
  <2>1. PICK x \in Places(t) : Decl(t, x) = d
    BY DeclaredIs
  <2>2. d.macro = "test"
    BY DEF Declared
  <2> QED
    BY <1>3, <1>5, <2>1, <2>2
<1> HIDE DEF Of
<1> QED
  BY <1>1, <1>6, <1>7 DEF NamesOf

-----------------------------------------------------------------------------
(* Adding tests *)

\* add_maidsafe_test adds a test for every full name, if its type is chosen.
LEMMA TestsAdded ==
  ASSUME NEW full, IsList(full), NEW name, \A k \in DOMAIN full : full[k].name = name,
         AddMaidsafeTests(full, name), Listed, current \in Nat \ {0},
         UNCHANGED current, Range(full) \cap TestsOf(current) = {}
  PROVE  /\ Listed'
         /\ \A k : k # current => (TestsOf(k))' = TestsOf(k)
         /\ {u.full : u \in {v \in tests' : v.target = current}} =
              TestsOf(current) \cup AcceptedOf(Range(full))
<1>1. CASE ~Accepted(name)
  <2>1. tests' = tests /\ all' = all
    BY <1>1 DEF AddMaidsafeTests, result
  <2>2. AcceptedOf(Range(full)) = {}
    BY <1>1 DEF AcceptedOf, Range
  <2> QED
    BY <2>1, <2>2 DEF Listed, TestsOf
<1>2. CASE Accepted(name)
  <2> DEFINE R(k) == [full |-> full[k], target |-> current,
                      skipped |-> Skipped(full[k]),
                      bootstrap |-> network /\ ~Skipped(full[k]),
                      label |-> Label(name.word),
                      timeout |-> Timeout(name.word)]
             new == {R(k) : k \in DOMAIN full}
             n == Len(full)
  <2>1. tests' = tests \cup new /\ all' = all \o full
    BY <1>2 DEF AddMaidsafeTests
  <2>2. DOMAIN full = 1 .. n /\ n \in Nat
    BY DEF IsList
  <2>3. \A k : R(k).full = full[k] /\ R(k).target = current
    OBVIOUS
  <2> HIDE DEF R
  <2>4. AcceptedOf(Range(full)) = Range(full)
    BY <1>2 DEF AcceptedOf, Range
  <2>5. {u.full : u \in new} = Range(full) /\ \A u \in new : u.target = current
    BY <2>3 DEF Range
  <2> HIDE DEF n
  <2>6. IsFiniteSet(new) /\ Cardinality(new) = n
    <3> DEFINE f == [k \in 1 .. n |-> R(k)]
    <3>1. f \in [1 .. n -> new]
      BY <2>2
    <3>2. \A i, j \in 1 .. n : f[i] = f[j] => i = j
      BY <2>2, <2>3 DEF IsList, IsInjective
    <3>3. \A u \in new : \E k \in 1 .. n : f[k] = u
      BY <2>2
    <3> HIDE DEF f, new
    <3>4. f \in Bijection(1 .. n, new)
      BY <3>1, <3>2, <3>3 DEF Bijection, Injection, Surjection, IsInjective
    <3>5. ExistsBijection(1 .. n, new)
      BY <3>4 DEF ExistsBijection
    <3>6. IsFiniteSet(1 .. n) /\ Cardinality(1 .. n) = n
      BY <2>2, FS_Interval
    <3> QED
      BY <3>5, <3>6, FS_Bijection
  <2>7. tests \cap new = {}
    BY <2>5 DEF TestsOf
  <2> HIDE DEF new
  <2>8. IsFiniteSet(tests') /\ Cardinality(tests') = Cardinality(tests) + n
    <3>1. /\ IsFiniteSet(tests \cup new)
          /\ Cardinality(tests \cup new) = Cardinality(tests) + Cardinality(new) - Cardinality(tests \cap new)
      BY <2>6, FS_Union DEF Listed
    <3>2. Cardinality(tests \cap new) = 0
      BY <2>7, FS_EmptySet
    <3>3. Cardinality(tests) \in Nat
      BY FS_CardinalityType DEF Listed
    <3> QED
      BY <2>1, <2>2, <2>6, <3>1, <3>2, <3>3
  <2>9. /\ all' \in Seq(Range(all')) /\ Range(all') = Range(all) \cup Range(full)
        /\ Len(all') = Len(all) + n
    BY <2>1, SequencesJoined DEF Listed, IsList, n
  <2>10. {u.full : u \in tests'} = {u.full : u \in tests} \cup Range(full)
    BY <2>1, <2>5
  <2>11. \A u \in tests' : u.target \in 1 .. current
    BY <2>1, <2>5 DEF Listed
  <2>12. Listed'
    BY <2>8, <2>9, <2>10, <2>11 DEF Listed
  <2>13. \A k : k # current => (TestsOf(k))' = TestsOf(k)
    BY <2>1, <2>5 DEF TestsOf
  <2>14. {u.full : u \in {v \in tests' : v.target = current}} = TestsOf(current) \cup Range(full)
    BY <2>1, <2>5 DEF TestsOf
  <2> QED
    BY <2>4, <2>12, <2>13, <2>14
<1> QED
  BY <1>1, <1>2

-----------------------------------------------------------------------------
(* The steps *)

LEMMA TargetCompiles ==
  ASSUME ScopeInv, pass # 0
  PROVE  Compiles(targets[current]) /\ pass \in 1 .. 3
BY ProjectsCompile DEF ScopeInv

\* A match is taken.
LEMMA Taken ==
  ASSUME ScopeInv, RegistrationInv, NEW m \in todo, NEW kind, Take(m, kind),
         UNCHANGED <<targets, current, pass, file>>
  PROVE  LET t == targets[current]
             x == <<file, m[1], m[2]>>
         IN  /\ Compiles(t) /\ InsideInv /\ pass # 0 /\ pass = PassOf(kind)
             /\ x \in Places(t) /\ x \notin Done /\ Done \subseteq Places(t)
             /\ Done' = Done \cup {x}
             /\ Decl(t, x) = Declaration(m) /\ Decl(t, x).macro = kind /\ x[3] = m[2]
             /\ \A y \in Places(t) : PassOf(Decl(t, y).macro) < pass => y \in Done
             /\ todo' \subseteq Matches(pass, t.files[file])
<1> DEFINE t == targets[current]
           x == <<file, m[1], m[2]>>
<1>1. pass # 0
  BY DEF ScopeInv
<1>2. Compiles(t) /\ pass \in 1 .. 3
  BY <1>1, TargetCompiles
<1>3. InsideInv /\ file \in DOMAIN t.files /\ todo \subseteq Matches(pass, t.files[file])
  BY <1>1 DEF RegistrationInv, InsideInv
<1>4. /\ x \in Places(t) /\ PassOf(Decl(t, x).macro) = pass
      /\ Decl(t, x) = t.files[file][m[1]]
  BY <1>2, <1>3, MatchPlace
<1>5. /\ x \notin DoneOf(t, pass, file, todo)
      /\ DoneOf(t, pass, file, todo \ {m}) = DoneOf(t, pass, file, todo) \cup {x}
  <2>1. x = <<file, m[1], m[2]>>
    OBVIOUS
  <2> HIDE DEF t, x
  <2> QED
    BY <1>2, <1>3, <2>1, MatchDone
<1>6. todo' = todo \ {m} /\ Declaration(m).macro = kind /\ Declaration(m) = t.files[file][m[1]]
  BY DEF Take, Declaration
<1>7. Done = DoneOf(t, pass, file, todo) /\ Done' = DoneOf(t, pass, file, todo \ {m})
  BY <1>6 DEF Done
<1>8. Done \subseteq Places(t) /\ \A y \in Places(t) : PassOf(Decl(t, y).macro) < pass => y \in Done
  BY <1>7 DEF DoneOf
<1>9. x[3] = m[2]
  OBVIOUS
<1> HIDE DEF t, x
<1>10. todo' \subseteq Matches(pass, t.files[file])
  BY <1>3, <1>6
<1>11. PassOf(kind) = pass /\ Decl(t, x).macro = kind /\ Decl(t, x) = Declaration(m)
  BY <1>4, <1>6
<1>12. Done' = Done \cup {x} /\ x \notin Done
  BY <1>5, <1>7
<1> QED
  BY <1>1, <1>2, <1>3, <1>4, <1>8, <1>9, <1>10, <1>11, <1>12 DEF t, x

LEMMA NamesOfMore ==
  ASSUME NEW t, NEW D, NEW x
  PROVE  NamesOf(t, D \cup {x}) = NamesOf(t, D) \cup Names(t, x)
<1>1. \A f : f \in NamesOf(t, D) <=> \E y \in D : f \in Names(t, y)
  BY DEF NamesOf
<1>2. \A f : f \in NamesOf(t, D \cup {x}) <=> \E y \in D \cup {x} : f \in Names(t, y)
  BY DEF NamesOf
<1> QED
  BY <1>1, <1>2

\* The passes that find parameters.
LEMMA Found ==
  ASSUME ScopeInv, RegistrationInv, NEW m \in todo, NEW kind, Take(m, kind),
         kind \in {"alias", "typed", "values", "types"},
         UNCHANGED <<targets, testType, current, pass, file, tests, all>>,
         AliasFor(targets[current], Done \cup {<<file, m[1], m[2]>>}, alias'),
         ParamsFor(targets[current], Done \cup {<<file, m[1], m[2]>>}, params')
  PROVE  RegistrationInv'
<1> DEFINE t == targets[current]
           x == <<file, m[1], m[2]>>
<1>1. /\ InsideInv /\ pass # 0 /\ Done' = Done \cup {x} /\ Decl(t, x).macro = kind
      /\ todo' \subseteq Matches(pass, t.files[file])
  BY Taken
<1>2. Names(t, x) = {}
  BY <1>1 DEF Names
<1>3. NamesOf(t, Done') = NamesOf(t, Done)
  BY <1>1, <1>2, NamesOfMore DEF x
<1>4. (TestsOf(current))' = TestsOf(current)
  BY DEF TestsOf
<1>5. \A F : (AcceptedOf(F))' = AcceptedOf(F)
  BY DEF AcceptedOf, Accepted
<1>6. InsideInv'
  <2>1. targets'[current'] = t /\ pass' = pass /\ file' = file /\ current' = current
    OBVIOUS
  <2>2. AliasFor(t, Done', alias') /\ ParamsFor(t, Done', params')
    BY <1>1
  <2>3. TestsOf(current) = AcceptedOf(NamesOf(t, Done'))
    BY <1>1, <1>3 DEF InsideInv
  <2> HIDE DEF t
  <2>4. (TestsOf(current) = AcceptedOf(NamesOf(t, Done)))'
    <3>1. AcceptedOf(NamesOf(t, Done')) = (AcceptedOf(NamesOf(t, Done)))'
      <4>1. t' = t
        BY DEF t
      <4> QED
        BY <4>1 DEF AcceptedOf, Accepted
    <3> QED
      BY <1>4, <2>3, <3>1
  <2> QED
    BY <1>1, <2>1, <2>2, <2>4 DEF InsideInv, t
<1>7. Listed'
  BY DEF RegistrationInv, Listed
<1>8. \A k \in 1 .. current - 1 : TestsOf(k)' = AcceptedOf(InExecutable(targets[k]))'
  BY DEF RegistrationInv, TestsOf, AcceptedOf, Accepted
<1> QED
  BY <1>1, <1>6, <1>7, <1>8 DEF RegistrationInv

LEMMA AcceptedOfBoth ==
  ASSUME NEW F, NEW G
  PROVE  AcceptedOf(F \cup G) = AcceptedOf(F) \cup AcceptedOf(G)
BY DEF AcceptedOf

\* The pass that adds tests.
LEMMA Added ==
  ASSUME ScopeInv, RegistrationInv, NEW m \in todo, NEW kind, Take(m, kind),
         kind \in {"register", "test"},
         NEW full, IsList(full), Range(full) = Names(targets[current], <<file, m[1], m[2]>>),
         NEW name, \A k \in DOMAIN full : full[k].name = name, AddMaidsafeTests(full, name),
         UNCHANGED <<targets, testType, current, pass, file, alias, params>>
  PROVE  RegistrationInv'
<1> DEFINE t == targets[current]
           x == <<file, m[1], m[2]>>
<1>1. /\ Compiles(t) /\ InsideInv /\ pass # 0 /\ Done' = Done \cup {x}
      /\ x \in Places(t) /\ x \notin Done /\ Done \subseteq Places(t)
      /\ Decl(t, x).macro = kind /\ todo' \subseteq Matches(pass, t.files[file])
  BY Taken
<1>2. Range(full) = Names(t, x)
  OBVIOUS
<1>3. targets'[current'] = t
  OBVIOUS
<1> HIDE DEF t, x
<1>4. /\ file \in DOMAIN t.files /\ AliasFor(t, Done, alias) /\ ParamsFor(t, Done, params)
      /\ TestsOf(current) = AcceptedOf(NamesOf(t, Done))
  BY <1>1 DEF InsideInv, t
<1>5. AliasFor(t, Done', alias) /\ ParamsFor(t, Done', params)
  <2>1. Decl(t, x).macro # "alias" /\ Decl(t, x).macro \notin Kinds
    BY <1>1 DEF Kinds
  <2> QED
    BY <1>1, <1>4, <2>1, AliasKept, ParamsKept
<1>6. Range(full) \cap TestsOf(current) = {}
  <2> SUFFICES ASSUME NEW f \in Range(full), f \in TestsOf(current) PROVE FALSE
    OBVIOUS
  <2>1. PICK y \in Done : f \in Names(t, y)
    BY <1>4 DEF AcceptedOf, NamesOf
  <2>2. x = y
    BY <1>1, <1>2, <2>1, NamesDiffer
  <2> QED
    BY <1>1, <2>2
<1>7. current \in Nat \ {0}
  BY DEF ScopeInv
<1>8. /\ Listed'
      /\ \A k : k # current => (TestsOf(k))' = TestsOf(k)
      /\ {u.full : u \in {v \in tests' : v.target = current}} =
           TestsOf(current) \cup AcceptedOf(Range(full))
  BY <1>6, <1>7, TestsAdded DEF RegistrationInv
<1>9. NamesOf(t, Done') = NamesOf(t, Done) \cup Range(full)
  <2>1. Done' = Done \cup {x}
    BY <1>1
  <2> QED
    BY ONLY <1>2, <2>1, NamesOfMore
<1>10. {u.full : u \in {v \in tests' : v.target = current}} =
         AcceptedOf(NamesOf(t, Done'))
  BY <1>4, <1>8, <1>9, AcceptedOfBoth
<1>11. \A F : AcceptedOf(F) = {f \in F : Accepted(f.name)'}
  BY DEF AcceptedOf, Accepted
<1>12. InsideInv'
  BY <1>1, <1>3, <1>4, <1>5, <1>10, <1>11 DEF InsideInv, TestsOf, AcceptedOf
<1>13. \A k \in 1 .. current - 1 : (TestsOf(k))' = (AcceptedOf(InExecutable(targets[k])))'
  <2> TAKE k \in 1 .. current - 1
  <2>1. (TestsOf(k))' = TestsOf(k)
    BY <1>7, <1>8
  <2>2. TestsOf(k) = AcceptedOf(InExecutable(targets[k]))
    BY DEF RegistrationInv
  <2> QED
    BY <1>11, <2>1, <2>2 DEF AcceptedOf
<1> QED
  BY <1>1, <1>8, <1>12, <1>13 DEF RegistrationInv

\* Every alias is known when the second pass begins, every parameter when the
\* third does.
LEMMA FirstPassDone ==
  ASSUME ScopeInv, RegistrationInv, NEW m \in todo, NEW kind, Take(m, kind),
         kind \in Kinds \cup {"register", "test"}, UNCHANGED <<targets, current, pass, file>>
  PROVE  /\ \A x \in Places(targets[current]) : Decl(targets[current], x).macro = "alias" => x \in Done
         /\ kind \notin Kinds =>
              \A x \in Places(targets[current]) : Decl(targets[current], x).macro \in Kinds => x \in Done
<1> DEFINE t == targets[current]
<1>1. pass = PassOf(kind) /\ \A y \in Places(t) : PassOf(Decl(t, y).macro) < pass => y \in Done
  BY Taken
<1> HIDE DEF t
<1>2. /\ \A x \in Places(t) : Decl(t, x).macro = "alias" => x \in Done
      /\ kind \notin Kinds => \A x \in Places(t) : Decl(t, x).macro \in Kinds => x \in Done
  BY <1>1, PassOfMacro DEF Kinds
<1> QED
  BY <1>2 DEF t

LEMMA AliasStep ==
  ASSUME ScopeInv, RegistrationInv, NEW m \in todo, GetTypedefTypes(m)
  PROVE  RegistrationInv'
<1> DEFINE t == targets[current]
           x == <<file, m[1], m[2]>>
<1>1. /\ Take(m, "alias") /\ alias' = Put(alias, Declaration(m).alias, TypePlaceholders(Declaration(m).text))
      /\ UNCHANGED <<targets, testType, current, pass, file, tests, all, params>>
  BY DEF GetTypedefTypes, given, result
<1>2. /\ Compiles(t) /\ InsideInv /\ x \in Places(t) /\ x \notin Done /\ Done \subseteq Places(t)
      /\ Decl(t, x) = Declaration(m) /\ Decl(t, x).macro = "alias"
  BY <1>1, Taken
<1> HIDE DEF t, x
<1>3. AliasFor(t, Done, alias) /\ ParamsFor(t, Done, params)
  BY <1>2 DEF InsideInv, t
<1>4. TypePlaceholders(Decl(t, x).text) = Decl(t, x).n
  BY <1>2, DeclIs
<1>5. AliasFor(t, Done \cup {x}, alias')
  BY <1>1, <1>2, <1>3, <1>4, AliasStored
<1>6. ParamsFor(t, Done \cup {x}, params')
  BY <1>1, <1>2, <1>3, ParamsKept DEF Kinds
<1> QED
  BY <1>1, <1>5, <1>6, Found DEF t, x

\* A step that adds n parameters to a fixture.
LEMMA ParamsStep ==
  ASSUME ScopeInv, RegistrationInv, NEW m \in todo, NEW kind \in Kinds, Take(m, kind),
         NEW n \in Nat, n = Instances(targets[current], Declaration(m)),
         AddParams(kind, InstanceName(Declaration(m)), Declaration(m).fixture, n),
         UNCHANGED <<targets, testType, current, pass, file, tests, all, alias>>
  PROVE  RegistrationInv'
<1> DEFINE t == targets[current]
           x == <<file, m[1], m[2]>>
<1>2. /\ Compiles(t) /\ InsideInv /\ x \in Places(t) /\ x \notin Done /\ Done \subseteq Places(t)
      /\ Decl(t, x) = Declaration(m) /\ Decl(t, x).macro = kind
  BY Taken
<1>3. n = Instances(t, Decl(t, x))
  BY <1>2
<1> HIDE DEF t, x
<1>4. AliasFor(t, Done, alias) /\ ParamsFor(t, Done, params)
  BY <1>2 DEF InsideInv, t
<1>5. AliasFor(t, Done \cup {x}, alias')
  BY <1>2, <1>4, AliasKept DEF Kinds
<1>6. ParamsFor(t, Done \cup {x}, params')
  <2> DEFINE d == Decl(t, x)
             key == <<d.macro, d.fixture>>
             more == [k \in 1 .. n |-> [inst |-> InstanceName(d), index |-> k - 1]]
  <2>1. ParamsFor(t, Done \cup {x}, Put(params, key, Get(params, key, <<>>) \o more))
    BY <1>2, <1>3, <1>4, ParamsStored
  <2>2. params' = Put(params, key, Get(params, key, <<>>) \o more)
    BY <1>2 DEF AddParams
  <2> QED
    BY ONLY <2>1, <2>2
<1> QED
  BY <1>5, <1>6, Found DEF t, x, Kinds

LEMMA FindStep ==
  ASSUME ScopeInv, RegistrationInv, NEW m \in todo,
         GetFixturesTypes(m) \/ GetFixturesValueParameters(m) \/ GetFixturesTypeParameters(m)
  PROVE  RegistrationInv'
<1> DEFINE t == targets[current]
           x == <<file, m[1], m[2]>>
           d == Declaration(m)
<1>1. PICK kind \in Kinds :
        /\ Take(m, kind) /\ UNCHANGED <<targets, testType, current, pass, file, tests, all, alias>>
        /\ \/ kind = "typed" /\ AddParams("typed", "", d.fixture, Get(alias, d.alias, 0))
           \/ kind = "values" /\ AddParams("values", d.inst, d.fixture, ValueParameters(d.gen))
           \/ kind = "types" /\ AddParams("types", d.inst, d.fixture, Get(alias, d.alias, 1))
  BY DEF GetFixturesTypes, GetFixturesValueParameters, GetFixturesTypeParameters, given, result, Kinds
<1>2. /\ Compiles(t) /\ InsideInv /\ x \in Places(t) /\ Done \subseteq Places(t)
      /\ Decl(t, x) = d /\ d.macro = kind
  BY <1>1, Taken
<1>3. \A y \in Places(t) : Decl(t, y).macro = "alias" => y \in Done
  BY <1>1, FirstPassDone
<1> HIDE DEF t, x
<1>4. \A a : /\ TypesOf(t, a) \in Nat
             /\ Get(alias, a, 1) = TypesOf(t, a)
             /\ (\E e \in Declared(t, "alias") : e.alias = a) => Get(alias, a, 0) = TypesOf(t, a)
  BY <1>2, <1>3, AliasRead DEF InsideInv, t
<1>5. /\ d.macro = "values" => d.n \in Nat /\ ValueParameters(d.gen) = d.n
      /\ d.macro = "typed" => \E e \in Declared(t, "alias") : e.alias = d.alias
  BY <1>2, DeclIs
<1> HIDE DEF d
<1>6. /\ AddParams(kind, InstanceName(d), d.fixture, Instances(t, d))
      /\ Instances(t, d) \in Nat
  <2>1. CASE kind = "typed"
    BY <1>1, <1>2, <1>4, <1>5, <2>1 DEF InstanceName, Instances
  <2>2. CASE kind = "values"
    BY <1>1, <1>2, <1>5, <2>2 DEF InstanceName, Instances
  <2>3. CASE kind = "types"
    BY <1>1, <1>2, <1>4, <2>3 DEF InstanceName, Instances
  <2> QED
    BY <2>1, <2>2, <2>3 DEF Kinds
<1> QED
  BY <1>1, <1>6, ParamsStep DEF t, d

LEMMA RegisterStep ==
  ASSUME ScopeInv, RegistrationInv, NEW m \in todo, AddRegisteredTypedTests(m)
  PROVE  RegistrationInv'
<1> DEFINE t == targets[current]
           x == <<file, m[1], m[2]>>
           d == Declaration(m)
           name == d.names[m[2]]
           full == FullNames("types", d.fixture, name)
<1>1. /\ Take(m, "register") /\ AddMaidsafeTests(full, name)
      /\ UNCHANGED <<targets, testType, current, pass, file, alias, params>>
  BY DEF AddRegisteredTypedTests, given, found
<1>2. /\ Compiles(t) /\ InsideInv /\ x \in Places(t) /\ Done \subseteq Places(t)
      /\ Decl(t, x) = d /\ d.macro = "register" /\ x[3] = m[2]
  BY <1>1, Taken
<1>3. \A y \in Places(t) : Decl(t, y).macro \in Kinds => y \in Done
  BY <1>1, FirstPassDone DEF Kinds
<1> HIDE DEF t, x
<1>4. ParamsFor(t, Done, params) /\ d.fixture \in Fixtures(t)
  BY <1>2 DEF InsideInv, t, Fixtures
<1>5. IsList(full) /\ Range(full) = Instantiated(t, "types", d.fixture, name)
  BY <1>2, <1>3, <1>4, FullNamesAre DEF Kinds
<1>6. Names(t, x) = Instantiated(t, "types", d.fixture, name)
  BY <1>2 DEF Names
<1>7. \A k \in DOMAIN full : full[k].name = name
  BY DEF FullNames
<1> HIDE DEF full, name
<1> QED
  BY <1>1, <1>5, <1>6, <1>7, Added DEF t, x

LEMMA TestStep ==
  ASSUME ScopeInv, RegistrationInv, NEW m \in todo, AddNonTypeParameterised(m)
  PROVE  RegistrationInv'
<1> DEFINE t == targets[current]
           x == <<file, m[1], m[2]>>
           d == Declaration(m)
<1>1. /\ Take(m, "test")
      /\ \/ d.type = "TEST_P" /\ AddMaidsafeTests(FullNames("values", d.fixture, d.name), d.name)
         \/ d.type = "TYPED_TEST" /\ AddMaidsafeTests(FullNames("typed", d.fixture, d.name), d.name)
         \/ d.type \in {"TEST", "TEST_F"} /\ AddMaidsafeTests(<<Plain(d)>>, d.name)
         \/ d.type = "TYPED_TEST_P" /\ tests' = tests /\ all' = all
      /\ UNCHANGED <<targets, testType, current, pass, file, alias, params>>
  BY DEF AddNonTypeParameterised, Plain, given, found, result
<1>2. /\ Compiles(t) /\ InsideInv /\ x \in Places(t) /\ Done \subseteq Places(t)
      /\ Decl(t, x) = d /\ d.macro = "test"
  BY <1>1, Taken
<1>3. \A y \in Places(t) : Decl(t, y).macro \in Kinds => y \in Done
  BY <1>1, FirstPassDone DEF Kinds
<1> HIDE DEF t, x
<1>4. ParamsFor(t, Done, params) /\ d.fixture \in Fixtures(t)
  BY <1>2 DEF InsideInv, t, Fixtures
<1> HIDE DEF d
<1>5. \A kind \in Kinds :
        LET full == FullNames(kind, d.fixture, d.name)
        IN  /\ IsList(full) /\ Range(full) = Instantiated(t, kind, d.fixture, d.name)
            /\ \A k \in DOMAIN full : full[k].name = d.name
  <2> TAKE kind \in Kinds
  <2>1. \A k \in DOMAIN FullNames(kind, d.fixture, d.name) :
          FullNames(kind, d.fixture, d.name)[k].name = d.name
    BY DEF FullNames
  <2> QED
    BY <1>2, <1>3, <1>4, <2>1, FullNamesAre
<1>6. \E full : /\ IsList(full) /\ Range(full) = Names(t, x)
                /\ \A k \in DOMAIN full : full[k].name = d.name
                /\ AddMaidsafeTests(full, d.name)
  <2>1. CASE d.type = "TEST_P"
    <3> DEFINE full == FullNames("values", d.fixture, d.name)
    <3>1. Names(t, x) = Instantiated(t, "values", d.fixture, d.name)
      BY <1>2, <2>1 DEF Names
    <3>2. IsList(full) /\ Range(full) = Names(t, x) /\ \A k \in DOMAIN full : full[k].name = d.name
      BY <1>5, <3>1 DEF Kinds
    <3>3. AddMaidsafeTests(full, d.name)
      BY <1>1, <2>1
    <3> QED
      BY <3>2, <3>3
  <2>2. CASE d.type = "TYPED_TEST"
    <3> DEFINE full == FullNames("typed", d.fixture, d.name)
    <3>1. Names(t, x) = Instantiated(t, "typed", d.fixture, d.name)
      BY <1>2, <2>2 DEF Names
    <3>2. IsList(full) /\ Range(full) = Names(t, x) /\ \A k \in DOMAIN full : full[k].name = d.name
      BY <1>5, <3>1 DEF Kinds
    <3>3. AddMaidsafeTests(full, d.name)
      BY <1>1, <2>2
    <3> QED
      BY <3>2, <3>3
  <2>3. CASE d.type \in {"TEST", "TEST_F"}
    <3> DEFINE p == Plain(d)
               full == <<p>>
    <3>1. p.name = d.name
      BY DEF Plain
    <3>2. Names(t, x) = {p}
      BY <1>2, <2>3 DEF Names
    <3>3. AddMaidsafeTests(full, d.name)
      BY <1>1, <2>3
    <3> HIDE DEF p
    <3>4. DOMAIN full = {1} /\ full[1] = p
      OBVIOUS
    <3>5. Range(full) = {p}
      BY <3>4 DEF Range
    <3>6. full \in Seq(Range(full)) /\ IsInjective(full)
      BY <3>4, <3>5 DEF IsInjective
    <3> HIDE DEF full
    <3> QED
      BY <3>1, <3>2, <3>3, <3>4, <3>5, <3>6 DEF IsList
  <2>4. CASE d.type = "TYPED_TEST_P"
    <3> DEFINE full == <<>>
    <3>1. Names(t, x) = {}
      BY <1>2, <2>4 DEF Names
    <3>2. IsList(full) /\ Range(full) = {} /\ DOMAIN full = {}
      BY EmptyList
    <3>3. tests' = tests /\ all' = all
      BY <1>1, <2>4
    <3>4. all \o full = all
      BY DEF RegistrationInv, Listed
    <3> HIDE DEF full
    <3>5. AddMaidsafeTests(full, d.name)
      BY <3>2, <3>3, <3>4 DEF AddMaidsafeTests, result
    <3> QED
      BY <3>1, <3>2, <3>5
  <2> QED
    BY <1>1, <2>1, <2>2, <2>3, <2>4
<1> QED
  BY <1>1, <1>6, Added DEF t, x

\* The loops.
LEMMA FileStep ==
  ASSUME ScopeInv, RegistrationInv, NextFile
  PROVE  RegistrationInv'
<1> DEFINE t == targets[current]
<1>1. /\ pass # 0 /\ todo = {} /\ pass' <= 3
      /\ \/ file < Len(t.files) /\ pass' = pass /\ file' = file + 1
         \/ ~(file < Len(t.files)) /\ pass' = pass + 1 /\ file' = 1
      /\ todo' = Matches(pass', t.files[file'])
      /\ UNCHANGED <<targets, testType, current, alias, params, tests, all>>
  BY DEF NextFile, given, found, result
<1>2. Compiles(t) /\ pass \in 1 .. 3 /\ InsideInv /\ file \in DOMAIN t.files
  BY <1>1, TargetCompiles DEF RegistrationInv, InsideInv
<1>3. Done = DoneOf(t, pass, file, {}) /\ Done' = DoneOf(t, pass', file', Matches(pass', t.files[file']))
  BY <1>1 DEF Done
<1> HIDE DEF t
<1>4. file \in 1 .. Len(t.files) /\ Len(t.files) \in Nat \ {0} /\ DOMAIN t.files = 1 .. Len(t.files)
  BY <1>2 DEF Compiles
<1>5. pass' \in 1 .. 3 /\ file' \in DOMAIN t.files
  BY <1>1, <1>2, <1>4
<1>6. Done' = Done
  <2>1. CASE file < Len(t.files)
    BY <1>1, <1>2, <1>3, <2>1, FileDone
  <2>2. CASE ~(file < Len(t.files))
    <3>1. file = Len(t.files) /\ pass' = pass + 1 /\ file' = 1 /\ pass \in 1 .. 2
      BY <1>1, <1>2, <1>4, <1>5, <2>2
    <3> QED
      BY <1>2, <1>3, <3>1, PassDone
  <2> QED
    BY <2>1, <2>2
<1>7. InsideInv'
  BY <1>1, <1>2, <1>5, <1>6 DEF InsideInv, TestsOf, AcceptedOf, Accepted, t
<1>8. Listed'
  BY <1>1 DEF RegistrationInv, Listed
<1>9. \A k \in 1 .. current - 1 : (TestsOf(k))' = (AcceptedOf(InExecutable(targets[k])))'
  BY <1>1 DEF RegistrationInv, TestsOf, AcceptedOf, Accepted
<1>10. pass' # 0 /\ current' = current /\ targets' = targets
  BY <1>1, <1>5
<1> QED
  BY <1>7, <1>8, <1>9, <1>10 DEF RegistrationInv

\* A target is entered.
LEMMA EnterStep ==
  ASSUME ScopeInv, RegistrationInv, AddGtests
  PROVE  RegistrationInv'
<1> DEFINE t == targets[current]
<1>1. /\ pass = 0 /\ current <= Len(targets) /\ pass' = 1 /\ file' = 1
      /\ todo' = Matches(1, t.files[1])
      /\ UNCHANGED <<targets, testType, current, alias, params, tests, all>>
  BY DEF AddGtests, given, found, result
<1>2. Compiles(t)
  <2>1. current \in DOMAIN targets
    BY <1>1, GTestsAssumption DEF ScopeInv
  <2> QED
    BY <2>1, ProjectsCompile DEF ScopeInv
<1>3. alias = Nothing /\ params = Nothing /\ \A u \in tests : u.target # current
  BY <1>1 DEF RegistrationInv, OutsideInv
<1>4. Done' = DoneOf(t, 1, 1, Matches(1, t.files[1]))
  BY <1>1 DEF Done
<1>41. targets'[current'] = t
  BY <1>1
<1> HIDE DEF t
<1>5. Done' = {}
  BY <1>2, <1>4, NothingDone
<1>6. 1 \in DOMAIN t.files
  BY <1>2 DEF Compiles
<1>7. AliasFor(t, {}, Nothing)
  BY DEF AliasFor, Nothing
<1>8. ParamsFor(t, {}, Nothing)
  <2>1. \A k : Get(Nothing, k, <<>>) = <<>>
    BY DEF Get, Nothing
  <2>2. \A kind, fixture : ElementsOf(t, OfFixture(t, {}, kind, fixture)) = {}
    BY DEF ElementsOf, OfFixture
  <2> QED
    BY <2>1, <2>2, EmptyList DEF ParamsFor
<1>9. (TestsOf(current))' = {} /\ (AcceptedOf(NamesOf(targets[current], Done)))' = {}
  BY <1>1, <1>3, <1>5 DEF TestsOf, AcceptedOf, NamesOf
<1>10. InsideInv'
  BY <1>1, <1>3, <1>41, <1>5, <1>6, <1>7, <1>8, <1>9 DEF InsideInv
<1>11. Listed'
  BY <1>1 DEF RegistrationInv, Listed
<1>12. \A k \in 1 .. current - 1 : (TestsOf(k))' = (AcceptedOf(InExecutable(targets[k])))'
  BY <1>1 DEF RegistrationInv, TestsOf, AcceptedOf, Accepted
<1>13. pass' # 0 /\ current' = current /\ targets' = targets
  BY <1>1
<1> QED
  BY <1>10, <1>11, <1>12, <1>13 DEF RegistrationInv

\* It is left, with all its tests.
LEMMA LeaveStep ==
  ASSUME ScopeInv, RegistrationInv, Return
  PROVE  RegistrationInv'
<1> DEFINE t == targets[current]
<1>1. /\ pass = 3 /\ todo = {} /\ file = Len(t.files) /\ pass' = 0 /\ current' = current + 1
      /\ alias' = Nothing /\ params' = Nothing
      /\ UNCHANGED <<targets, testType, tests, all>>
  BY DEF Return, given, result
<1>2. Compiles(t) /\ InsideInv /\ current \in Nat \ {0}
  BY <1>1, TargetCompiles DEF RegistrationInv, ScopeInv
<1>3. Done = DoneOf(t, 3, Len(t.files), {})
  BY <1>1 DEF Done
<1>4. TestsOf(current) = AcceptedOf(NamesOf(t, Done))
  BY <1>2 DEF InsideInv
<1>41. t = targets[current]
  OBVIOUS
<1> HIDE DEF t
<1>5. TestsOf(current) = AcceptedOf(InExecutable(t))
  BY <1>2, <1>3, <1>4, AllDone, NamesAreTests
<1>6. \A k \in 1 .. current : TestsOf(k) = AcceptedOf(InExecutable(targets[k]))
  <2> TAKE k \in 1 .. current
  <2>1. CASE k = current
    BY <1>5, <1>41, <2>1
  <2>2. CASE k # current
    <3>1. k \in 1 .. current - 1
      BY <1>2, <2>2
    <3> QED
      BY <3>1 DEF RegistrationInv
  <2> QED
    BY <2>1, <2>2
<1>7. \A k \in 1 .. current' - 1 : (TestsOf(k))' = (AcceptedOf(InExecutable(targets[k])))'
  <2> TAKE k \in 1 .. current' - 1
  <2>1. k \in 1 .. current
    BY <1>1, <1>2
  <2>2. TestsOf(k) = AcceptedOf(InExecutable(targets[k]))
    BY <1>6, <2>1
  <2> QED
    BY <1>1, <2>2 DEF TestsOf, AcceptedOf, Accepted
<1>71. 1 .. current' - 1 \subseteq DOMAIN targets'
  <2>1. current \in DOMAIN targets /\ 1 .. current - 1 \subseteq DOMAIN targets
    BY <1>1 DEF ScopeInv, RegistrationInv
  <2> QED
    BY <1>1, <1>2, <2>1
<1>8. OutsideInv'
  BY <1>1, <1>2 DEF OutsideInv, RegistrationInv, Listed
<1>9. Listed'
  BY <1>1, <1>2 DEF RegistrationInv, Listed
<1> QED
  BY <1>1, <1>7, <1>71, <1>8, <1>9 DEF RegistrationInv

LEMMA RegistrationKept == ScopeInv /\ RegistrationInv /\ [Next]_vars => RegistrationInv'
<1> SUFFICES ASSUME ScopeInv, RegistrationInv, [Next]_vars PROVE RegistrationInv'
  OBVIOUS
<1>1. CASE UNCHANGED <<given, where, found, result>>
  <2>1. UNCHANGED <<targets, testType, current, pass, file, todo, alias, params, tests, all>>
    BY <1>1 DEF given, where, found, result
  <2>2. Done' = Done
    BY <2>1 DEF Done
  <2>3. InsideInv => InsideInv'
    BY <2>1, <2>2 DEF InsideInv, TestsOf, AcceptedOf, Accepted
  <2> QED
    BY <2>1, <2>3 DEF RegistrationInv, OutsideInv, Listed, TestsOf, AcceptedOf, Accepted
<1>2. ASSUME NEW f \in Factors, SetGlobalTestTimeoutFactor(f) PROVE RegistrationInv'
  BY <1>1, <1>2 DEF SetGlobalTestTimeoutFactor
<1>3. CASE UNCHANGED vars
  BY <1>1, <1>3 DEF vars
<1>4. ASSUME NEW m \in todo,
             \/ GetTypedefTypes(m) \/ GetFixturesTypes(m)
             \/ GetFixturesValueParameters(m) \/ GetFixturesTypeParameters(m)
             \/ AddRegisteredTypedTests(m) \/ AddNonTypeParameterised(m)
      PROVE  RegistrationInv'
  BY <1>4, AliasStep, FindStep, RegisterStep, TestStep
<1> QED
  BY <1>2, <1>3, <1>4, EnterStep, FileStep, LeaveStep DEF Next

\* The condition of add_maidsafe_test accepts the words of the test type.
LEMMA AcceptedIsChosen ==
  ASSUME ScopeInv, NEW f, f.name.word \in Words
  PROVE  Accepted(f.name) <=> f.name.word \in Chosen(testType)
BY DEF ScopeInv, Accepted, Chosen, Words

\* Every target that has been added has exactly the tests of its executable, of
\* the type chosen (none for BEH and FUNC), and AllGtests lists each once: however
\* the declarations are distributed over the files of a target and whatever order
\* they are found in.
THEOREM EveryTestRegistered == Spec => []ExactlyTheTests
<1>1. Init => RegistrationInv
  <2> SUFFICES ASSUME Init PROVE RegistrationInv
    OBVIOUS
  <2>1. /\ pass = 0 /\ current = 1 /\ alias = Nothing /\ params = Nothing /\ tests = {} /\ all = <<>>
    BY DEF Init
  <2>2. Listed
    BY <2>1, EmptyList, FS_EmptySet DEF Listed, IsList
  <2> QED
    BY <2>1, <2>2 DEF RegistrationInv, OutsideInv
<1>2. ScopeInv /\ RegistrationInv => ExactlyTheTests
  <2> SUFFICES ASSUME ScopeInv, RegistrationInv
               PROVE  ExactlyTheTests
    OBVIOUS
  <2>1. ASSUME NEW t \in 1 .. current - 1
        PROVE  {u.full : u \in {v \in tests : v.target = t}} =
                 {f \in InExecutable(targets[t]) : f.name.word \in Chosen(testType)}
    <3>1. Compiles(targets[t])
      <4>1. targets \in Projects /\ t \in DOMAIN targets
        BY DEF ScopeInv, RegistrationInv
      <4> QED
        BY <4>1, ProjectsCompile
    <3>2. TestsOf(t) = AcceptedOf(InExecutable(targets[t]))
      BY DEF RegistrationInv
    <3>3. \A f \in InExecutable(targets[t]) : Accepted(f.name) <=> f.name.word \in Chosen(testType)
      BY <3>1, WordIs, AcceptedIsChosen
    <3> QED
      BY <3>2, <3>3 DEF TestsOf, AcceptedOf
  <2> QED
    BY <2>1 DEF ExactlyTheTests, RegistrationInv, Listed
<1> QED
  BY <1>1, <1>2, ScopesHold, RegistrationKept, PTL DEF Spec
=============================================================================
