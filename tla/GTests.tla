------------------------------- MODULE GTests -------------------------------
(***************************************************************************)
(* cmake_modules/add_gtests.cmake: ms_add_gtests reads the sources of a    *)
(* test target and registers every Google test in them with CTest.  gtest  *)
(* parameters may be declared in other files than the tests that use them, *)
(* so the files are read three times; what is found is kept in variables   *)
(* of the function's scope, and the list AllGtests is handed up from scope *)
(* to scope.                                                               *)
(*                                                                         *)
(* A source file is the sequence of the declarations the regular           *)
(* expressions find, each a record:                                        *)
(*   alias    using alias = testing::Types<text>                           *)
(*   typed    TYPED_TEST_CASE(fixture, alias)                              *)
(*   values   INSTANTIATE_TEST_CASE_P(inst, fixture, gen)                  *)
(*   types    INSTANTIATE_TYPED_TEST_CASE_P(inst, fixture, alias)          *)
(*   register REGISTER_TYPED_TEST_CASE_P(fixture, names)                   *)
(*   test     TEST, TEST_F, TEST_P, TYPED_TEST, TYPED_TEST_P (fixture, name)*)
(* A test's name is [word, disabled, id]; its full name is built from the  *)
(* parts gtest puts together with "/" and ".".                             *)
(***************************************************************************)
EXTENDS Integers, Sequences, FiniteSets, Functions

CONSTANTS
  Projects,   \* bound: sequences of targets [network, files]
  TestTypes,  \* bound: values given for MAIDSAFE_TEST_TYPE
  Factors,    \* bound: arguments of ms_set_global_test_timeout_factor
  Excluded,   \* ExcludedTests: full names
  CMake3,     \* CMAKE_VERSION is not less than 3.0
  None        \* an undefined variable

ASSUME GTestsAssumption ==
  /\ Factors \subseteq Nat
  /\ CMake3 \in BOOLEAN
  /\ None \notin Nat
  /\ \A p \in Projects :
       /\ DOMAIN p = 1 .. Len(p)
       /\ \A t \in DOMAIN p : p[t].network \in BOOLEAN

VARIABLES
  targets,   \* the test targets of this CMake run, in order
  testType,  \* MAIDSAFE_TEST_TYPE
  factor,    \* GlobalTestTimeoutFactor, in the CMake cache
  current,   \* index of the target being added
  pass,      \* 0 outside ms_add_gtests, else which of its three loops
  file,      \* index in RelativeSourceNames
  todo,      \* matches in the file still to be handled in this pass
  alias,     \* <alias>Var: number of placeholders
  params,    \* <fixture>Types, <fixture>ValueParameters, <fixture>TypeParameters
  network,   \* NetworkTestArg and NetworkTestLabel are set
  tests,     \* the tests CTest knows
  all        \* AllGtests

where == <<current, pass, file, todo>>
found == <<alias, params>>
result == <<tests, all>>
given == <<targets, testType>>
vars == <<given, factor, where, found, network, result>>

Nothing == [x \in {} |-> None]

\* The value a variable has, or what an unset one is read as.
Get(f, x, default) == IF x \in DOMAIN f THEN f[x] ELSE default
Put(f, x, v) == [y \in DOMAIN f \cup {x} |-> IF y = x THEN v ELSE f[y]]

\* MAIDSAFE_TEST_TYPE after standard_setup.cmake.
SetupTestType(t) ==
  IF t \in {"BEH", "FUNC", "NETWORK", "UNIT"} THEN t ELSE "ALL"

Init ==
  /\ targets \in Projects
  /\ \E t \in TestTypes : testType = SetupTestType(t)
  /\ factor = None
  /\ current = 1 /\ pass = 0 /\ file = 1 /\ todo = {}
  /\ alias = Nothing /\ params = Nothing
  /\ network = FALSE
  /\ tests = {} /\ all = <<>>

-----------------------------------------------------------------------------
(* Counting parameters *)

Count(s, c) == Cardinality({k \in DOMAIN s : s[k] = c})

\* One placeholder per comma outside angle brackets, and one more.
TypePlaceholders(text) ==
  1 + Cardinality({k \in DOMAIN text :
        /\ text[k] = ","
        /\ Count(SubSeq(text, 1, k), "<") = Count(SubSeq(text, 1, k), ">")})

\* Values(...): "(" up to the next ")" is removed, then commas are counted.
ValuesCount(text) ==
  1 + Cardinality({k \in DOMAIN text :
        /\ text[k] = ","
        /\ \A j \in 1 .. k : text[j] = "(" => \E m \in j .. k : text[m] = ")"})

\* while(Current LESS Stop).
RangeCount(begin, stop, step) ==
  LET loop[c \in Nat] == IF c < stop THEN 1 + loop[c + step] ELSE 0
  IN  loop[begin]

ValueParameters(gen) ==
  CASE gen.kind = "Range" -> RangeCount(gen.begin, gen.stop, gen.step)
    [] gen.kind = "Values" -> ValuesCount(gen.text)
    [] gen.kind = "Bool" -> 2

-----------------------------------------------------------------------------
(* Entering and leaving ms_add_gtests *)

\* The passes, each with the functions it calls for a file, in their order, by
\* the macro they look for.
Passes == <<<<"alias">>, <<"typed", "values", "types">>, <<"register", "test">>>>
PassOf(macro) == CHOOSE p \in 1 .. 3 : macro \in Range(Passes[p])
RankOf(macro) == CHOOSE k \in DOMAIN Passes[PassOf(macro)] : Passes[PassOf(macro)][k] = macro

\* What they find in pass p over file f: the place of a declaration and, in a
\* REGISTER_TYPED_TEST_CASE_P, of one of its names.
Parts(d) == IF d.macro = "register" THEN DOMAIN d.names ELSE {1}
Matches(p, f) ==
  UNION {{i} \X Parts(f[i]) : i \in {j \in DOMAIN f : PassOf(f[j].macro) = p}}

\* Called by standard_setup.cmake (memory check) and standard_flags.cmake
\* (sanitiser).  A factor is never lowered; one that is not > 1 is fatal.
SetGlobalTestTimeoutFactor(f) ==
  /\ pass = 0
  /\ 1 < f
  /\ factor # None => f > factor
  /\ factor' = f
  /\ UNCHANGED <<given, where, found, network, result>>

\* ms_add_network_gtests or ms_add_gtests is called for the next target.
AddGtests ==
  /\ pass = 0
  /\ current <= Len(targets)
  /\ network' = (network \/ targets[current].network)
  /\ pass' = 1
  /\ file' = 1
  /\ todo' = Matches(1, targets[current].files[1])
  /\ UNCHANGED <<given, factor, current, found, result>>

\* Mutant: the first pass over a file is followed by its second.
NextFileAtOnce ==
  /\ pass # 0
  /\ todo = {}
  /\ LET files == targets[current].files
         next == IF pass = 1 THEN <<2, file>>
                 ELSE IF file < Len(files)
                 THEN <<IF pass = 2 THEN 1 ELSE 3, file + 1>> ELSE <<pass + 1, 1>>
     IN  /\ next[1] <= 3
         /\ pass' = next[1] /\ file' = next[2]
         /\ todo' = Matches(next[1], files[next[2]])
  /\ UNCHANGED <<given, factor, current, found, network, result>>

\* The loops over RelativeSourceNames.
NextFile ==
  /\ pass # 0
  /\ todo = {}
  /\ LET files == targets[current].files
         next == IF file < Len(files) THEN <<pass, file + 1>> ELSE <<pass + 1, 1>>
     IN  /\ next[1] <= 3
         /\ pass' = next[1] /\ file' = next[2]
         /\ todo' = Matches(next[1], files[next[2]])
  /\ UNCHANGED <<given, factor, current, found, network, result>>

\* Mutant: as macros, both would leave their variables in the caller's scope.
ReturnMacro ==
  /\ pass = 3
  /\ todo = {}
  /\ file = Len(targets[current].files)
  /\ pass' = 0
  /\ current' = current + 1
  /\ UNCHANGED <<given, factor, file, todo, found, network, result>>

\* The end of the function: its variables are gone, AllGtests is handed up.
Return ==
  /\ pass = 3
  /\ todo = {}
  /\ file = Len(targets[current].files)
  /\ pass' = 0
  /\ current' = current + 1
  /\ alias' = Nothing /\ params' = Nothing
  /\ network' = FALSE
  /\ UNCHANGED <<given, factor, file, todo, result>>

-----------------------------------------------------------------------------
(* What the passes do with a declaration *)

Declaration(m) == targets[current].files[file][m[1]]

\* Functions are called one after the other; each takes its matches in order.
Before(m, n) ==
  LET rank(x) == RankOf(Declaration(x).macro)
  IN  \/ rank(m) < rank(n)
      \/ rank(m) = rank(n) /\ (m[1] < n[1] \/ (m[1] = n[1] /\ m[2] < n[2]))

\* m is the next match, in a declaration of the given kind.
Take(m, kind) ==
  /\ m \in todo
  /\ \A n \in todo \ {m} : Before(m, n)
  /\ Declaration(m).macro = kind
  /\ todo' = todo \ {m}

GetTypedefTypes(m) ==
  /\ Take(m, "alias")
  /\ LET d == Declaration(m)
     IN  alias' = Put(alias, d.alias, TypePlaceholders(d.text))
  /\ UNCHANGED <<given, factor, current, pass, file, params, network, result>>

\* n names with "@@@@@" are added to the list of a fixture.
AddParams(kind, inst, fixture, n) ==
  LET more == [k \in 1 .. n |-> [inst |-> inst, index |-> k - 1]]
      key == <<kind, fixture>>
  IN  params' = Put(params, key, Get(params, key, <<>>) \o more)

GetFixturesTypes(m) ==
  /\ Take(m, "typed")
  /\ LET d == Declaration(m)
     IN  AddParams("typed", "", d.fixture, Get(alias, d.alias, 0))
  /\ UNCHANGED <<given, factor, current, pass, file, alias, network, result>>

GetFixturesValueParameters(m) ==
  /\ Take(m, "values")
  /\ LET d == Declaration(m)
     IN  AddParams("values", d.inst, d.fixture, ValueParameters(d.gen))
  /\ UNCHANGED <<given, factor, current, pass, file, alias, network, result>>

\* An alias nobody has declared is taken for a single type.
GetFixturesTypeParameters(m) ==
  /\ Take(m, "types")
  /\ LET d == Declaration(m)
     IN  AddParams("types", d.inst, d.fixture, Get(alias, d.alias, 1))
  /\ UNCHANGED <<given, factor, current, pass, file, alias, network, result>>

\* The full names of a test: the fixture's list with the name put in.
FullNames(kind, fixture, name) ==
  LET list == Get(params, <<kind, fixture>>, <<>>)
  IN  [k \in DOMAIN list |->
        [kind |-> kind, inst |-> list[k].inst, fixture |-> fixture,
         index |-> list[k].index, name |-> name]]

-----------------------------------------------------------------------------
(* add_maidsafe_test *)

\* The test types that add a test with this name.
Accepted(name) ==
  \/ testType = "ALL"
  \/ testType = "UNIT" /\ name.word \in {"BEH", "FUNC"}
  \/ testType = "NETWORK" /\ name.word = "NETWORK"

Label(word) ==
  CASE word = "FUNC" -> "Functional"
    [] word = "BEH" -> "Behavioural"
    [] word = "NETWORK" -> "Network"
    [] OTHER -> None

BaseTimeout(word) ==
  CASE word \in {"FUNC", "NETWORK"} -> 600
    [] word = "BEH" -> 60
    [] OTHER -> None

\* Mutant: in the caller's scope ms_update_test_timeout would see what it has
\* made of the timeout for the test before.
TimeoutCompounded(word) ==
  IF None \in {BaseTimeout(word), factor} THEN BaseTimeout(word)
  ELSE IF \E t \in tests : t.full.name.word = word
       THEN BaseTimeout(word) * factor * factor
       ELSE BaseTimeout(word) * factor

\* ms_update_test_timeout; a test that is named otherwise has no timeout.
Timeout(word) ==
  IF None \in {BaseTimeout(word), factor} THEN BaseTimeout(word)
  ELSE BaseTimeout(word) * factor

\* add_disabled_test: an excluded test becomes a command that exits with
\* SkipReturnCodeValue, or one that does not exist; so does a disabled one
\* before CMake 3, which knows no return code for it.
Skipped(f) == f \in Excluded \/ (~CMake3 /\ f.name.disabled)

\* add_maidsafe_test for every full name of a test.
AddMaidsafeTests(full, name) ==
  IF Accepted(name)
  THEN /\ tests' = tests \cup
                     {[full |-> full[k], target |-> current,
                       skipped |-> Skipped(full[k]),
                       bootstrap |-> network /\ ~Skipped(full[k]),
                       label |-> Label(name.word),
                       timeout |-> Timeout(name.word)] : k \in DOMAIN full}
       /\ all' = all \o full
  ELSE UNCHANGED result

\* One of the names of REGISTER_TYPED_TEST_CASE_P.
AddRegisteredTypedTests(m) ==
  /\ Take(m, "register")
  /\ LET d == Declaration(m)
         name == d.names[m[2]]
     IN  AddMaidsafeTests(FullNames("types", d.fixture, name), name)
  /\ UNCHANGED <<given, factor, current, pass, file, found, network>>

AddNonTypeParameterised(m) ==
  /\ Take(m, "test")
  /\ LET d == Declaration(m)
         plain == [kind |-> "plain", inst |-> "", fixture |-> d.fixture,
                   index |-> 0, name |-> d.name]
     IN  \/ /\ d.type = "TEST_P"
            /\ AddMaidsafeTests(FullNames("values", d.fixture, d.name), d.name)
         \/ /\ d.type = "TYPED_TEST"
            /\ AddMaidsafeTests(FullNames("typed", d.fixture, d.name), d.name)
         \/ /\ d.type \in {"TEST", "TEST_F"}
            /\ AddMaidsafeTests(<<plain>>, d.name)
         \/ /\ d.type = "TYPED_TEST_P"
            /\ UNCHANGED result
  /\ UNCHANGED <<given, factor, current, pass, file, found, network>>

Next ==
  \/ \E f \in Factors : SetGlobalTestTimeoutFactor(f)
  \/ AddGtests \/ NextFile \/ Return
  \/ \E m \in todo :
       \/ GetTypedefTypes(m) \/ GetFixturesTypes(m)
       \/ GetFixturesValueParameters(m) \/ GetFixturesTypeParameters(m)
       \/ AddRegisteredTypedTests(m) \/ AddNonTypeParameterised(m)

Spec == Init /\ [][Next]_vars

-----------------------------------------------------------------------------
(* What gtest does *)

\* The declarations of a kind in all files of target t.
Declared(t, kind) ==
  {d \in UNION {Range(t.files[k]) : k \in DOMAIN t.files} : d.macro = kind}

\* The number of types an alias, or a type that is no alias, stands for.
TypesOf(t, a) ==
  LET ds == {d \in Declared(t, "alias") : d.alias = a}
  IN  IF ds = {} THEN 1 ELSE (CHOOSE d \in ds : TRUE).n

\* How often gtest instantiates the tests of a fixture for a declaration.
Instances(t, d) ==
  CASE d.macro = "values" -> d.n
    [] d.macro \in {"typed", "types"} -> TypesOf(t, d.alias)

InstanceName(d) == IF d.macro = "typed" THEN "" ELSE d.inst

Instantiated(t, kind, fixture, name) ==
  UNION {{[kind |-> kind, inst |-> InstanceName(d), fixture |-> fixture,
           index |-> k, name |-> name] : k \in 0 .. Instances(t, d) - 1}
           : d \in {e \in Declared(t, kind) : e.fixture = fixture}}

Plain(d) == [kind |-> "plain", inst |-> "", fixture |-> d.fixture, index |-> 0, name |-> d.name]

\* The tests in the executable of a target: --gtest_list_tests.
InExecutable(t) ==
  UNION {CASE d.type \in {"TEST", "TEST_F"} -> {Plain(d)}
           [] d.type = "TEST_P" -> Instantiated(t, "values", d.fixture, d.name)
           [] d.type = "TYPED_TEST" -> Instantiated(t, "typed", d.fixture, d.name)
           [] d.type = "TYPED_TEST_P" -> Instantiated(t, "types", d.fixture, d.name)
           : d \in Declared(t, "test")}

\* What is declared once in a target: an alias, an instantiation, a test.
Key(d, n) ==
  CASE d.macro = "alias" -> <<"alias", d.alias>>
    [] d.macro \in {"typed", "values", "types"} -> <<d.macro, InstanceName(d), d.fixture>>
    [] d.macro = "register" -> <<"register", d.fixture, d.names[n]>>
    [] d.macro = "test" -> <<"test", d.fixture, d.name>>

DeclaredOnce(t) ==
  \A k, l \in DOMAIN t.files : \A i \in DOMAIN t.files[k], j \in DOMAIN t.files[l] :
    \A n \in Parts(t.files[k][i]), o \in Parts(t.files[l][j]) :
      Key(t.files[k][i], n) = Key(t.files[l][j], o) => k = l /\ i = j /\ n = o

\* The tests registered are those defined by TYPED_TEST_P.
RegisteredAsDefined(t) ==
  UNION {{<<d.fixture, d.names[n]>> : n \in DOMAIN d.names} : d \in Declared(t, "register")} =
  {<<d.fixture, d.name>> : d \in {e \in Declared(t, "test") : e.type = "TYPED_TEST_P"}}

Words == {"BEH", "FUNC", "NETWORK", "other"}

\* A declaration of t whose text is as simple as those the regular expressions
\* are made for: the code counts n parameters where there are n.
Readable(t, d) ==
  /\ d.macro \in {"alias", "typed", "values", "types", "register", "test"}
  /\ Parts(d) \subseteq Nat
  /\ d.macro = "alias" => d.n \in Nat /\ TypePlaceholders(d.text) = d.n
  /\ d.macro = "values" => d.n \in Nat /\ ValueParameters(d.gen) = d.n
  /\ d.macro = "typed" => \E a \in Declared(t, "alias") : a.alias = d.alias
  /\ d.macro = "test" =>
       /\ d.type \in {"TEST", "TEST_F", "TEST_P", "TYPED_TEST", "TYPED_TEST_P"}
       /\ d.name.word \in Words

\* A target gtest compiles.
Compiles(t) ==
  /\ Len(t.files) \in Nat \ {0} /\ DOMAIN t.files = 1 .. Len(t.files)
  /\ \A k \in DOMAIN t.files : DOMAIN t.files[k] \subseteq Nat
  /\ \A k \in DOMAIN t.files : \A i \in DOMAIN t.files[k] : Readable(t, t.files[k][i])
  /\ DeclaredOnce(t)
  /\ RegisteredAsDefined(t)

ASSUME ProjectsCompile == \A p \in Projects : \A t \in DOMAIN p : Compiles(p[t])

-----------------------------------------------------------------------------
(* Properties *)

\* The words of the tests that a MAIDSAFE_TEST_TYPE adds.  BEH and FUNC add
\* none: standard_setup.cmake:49-52 accepts them and add_gtests.cmake:50-51
\* documents "behavioural tests only" and "functional tests only", but the
\* condition of add_maidsafe_test (line 406) does not know them.
Chosen(type) ==
  CASE type \in {"BEH", "FUNC"} -> {}
    [] type = "NETWORK" -> {"NETWORK"}
    [] type = "UNIT" -> {"BEH", "FUNC"}
    [] OTHER -> Words

\* In whatever files the parameters of a fixture are declared, a target that
\* has been added has exactly the tests its executable has, of the type chosen,
\* and AllGtests lists each of them once.  With BEH and FUNC that
\* is no test at all, against what lines 50-51 of add_gtests.cmake say of them.
ExactlyTheTests ==
  /\ \A t \in 1 .. current - 1 :
       {u.full : u \in {v \in tests : v.target = t}} =
         {f \in InExecutable(targets[t]) : f.name.word \in Chosen(testType)}
  /\ Len(all) = Cardinality(tests)
  /\ Range(all) = {u.full : u \in tests}

\* A timeout is multiplied by the factor at most once, however many tests have
\* been added before.
TimeoutsScaledOnce ==
  \A t \in tests :
    LET base == BaseTimeout(t.full.name.word)
    IN  base # None => t.timeout \in {base} \cup {base * f : f \in Factors}

\* --bootstrap_file goes to the tests of network targets only, although
\* NetworkTestArg is a variable that ms_add_gtests finds in its caller's scope.
BootstrapForNetworkTests ==
  \A t \in tests :
    t.bootstrap = (targets[t.target].network /\ ~t.skipped)

\* What the last two rest on: the variables of a function's scope exist inside
\* the function only, and the factor and the test type are ones that were set.
ScopeInv ==
  /\ targets \in Projects
  /\ testType \in {"ALL", "BEH", "FUNC", "NETWORK", "UNIT"}
  /\ factor \in Factors \cup {None}
  /\ current \in Nat \ {0}
  /\ pass \in 0 .. 3
  /\ pass = 0 => todo = {} /\ network = FALSE
  /\ pass # 0 => /\ current \in DOMAIN targets
                 /\ network = targets[current].network

=============================================================================
