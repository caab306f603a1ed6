------------------------------ MODULE MCGTests ------------------------------
(* Instances of GTests for TLC. *)
EXTENDS GTests

Named(word, disabled, id) == [word |-> word, disabled |-> disabled, id |-> id]
Test(type, fixture, name) ==
  [macro |-> "test", type |-> type, fixture |-> fixture, name |-> name]

\* using Maps = testing::Types<map<x, x>, x>.
Maps == [macro |-> "alias", alias |-> "Maps", n |-> 2,
         text |-> <<"x", "<", "x", ",", "x", ">", ",", "x">>]
TypedCase == [macro |-> "typed", fixture |-> "Typed", alias |-> "Maps"]
Small == [macro |-> "values", inst |-> "Small", fixture |-> "Valued", n |-> 2,
          gen |-> [kind |-> "Range", begin |-> 1, stop |-> 4, step |-> 2]]
Big == [macro |-> "values", inst |-> "Big", fixture |-> "Valued", n |-> 2,
        gen |-> [kind |-> "Values", text |-> <<"x", "(", "x", ",", "x", ")", ",", "x">>]]
Flags == [macro |-> "values", inst |-> "Flags", fixture |-> "Valued", n |-> 2,
          gen |-> [kind |-> "Bool"]]
OneType == [macro |-> "types", inst |-> "One", fixture |-> "Generic", alias |-> "int"]
TwoTypes == [macro |-> "types", inst |-> "Two", fixture |-> "Generic", alias |-> "Maps"]
Register == [macro |-> "register", fixture |-> "Generic",
             names |-> <<Named("BEH", FALSE, 1), Named("NETWORK", TRUE, 2)>>]
Beh1 == Test("TYPED_TEST_P", "Generic", Named("BEH", FALSE, 1))
Net2 == Test("TYPED_TEST_P", "Generic", Named("NETWORK", TRUE, 2))
Func3 == Test("TYPED_TEST", "Typed", Named("FUNC", TRUE, 3))
Beh4 == Test("TEST_P", "Valued", Named("BEH", TRUE, 4))
Func5 == Test("TEST_F", "Plain", Named("FUNC", FALSE, 5))
Other6 == Test("TEST", "Plain", Named("other", FALSE, 6))

\* The declarations that may be in either of two files.
Movable == <<Maps, TypedCase, Small, Big, OneType, TwoTypes, Register, Func3, Beh4>>
Fixed == <<Beh1, Net2, Func5, Other6>>

Part(place, k) ==
  LET Here(i) == place[i] = k
      idx == SelectSeq([i \in 1 .. Len(Movable) |-> i], Here)
  IN  [j \in 1 .. Len(idx) |-> Movable[idx[j]]]

\* A second target has a fixture of the same name with other parameters.
Second == [network |-> FALSE,
           files |-> <<<<Flags, Test("TEST_P", "Valued", Named("BEH", FALSE, 7)),
                         Test("TEST", "Plain", Named("BEH", FALSE, 8)),
                         Test("TEST", "Plain", Named("NETWORK", FALSE, 9))>>>>]

TwoFiles ==
  {<<[network |-> TRUE, files |-> <<Part(place, 1) \o Fixed, Part(place, 2)>>],
     Second>> : place \in [1 .. Len(Movable) -> 1 .. 2]}

\* One of the instances of a value-parameterised test, and a plain test.
SomeExcluded ==
  {[kind |-> "values", inst |-> "Big", fixture |-> "Valued", index |-> 1,
    name |-> Beh4.name],
   [kind |-> "plain", inst |-> "", fixture |-> "Plain", index |-> 0,
    name |-> Func5.name]}

Given == {"ALL", "BEH", "FUNC", "NETWORK", "UNIT", "odd"}
=============================================================================
