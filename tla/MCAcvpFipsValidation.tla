------------------------- MODULE MCAcvpFipsValidation -------------------------
(* Files with a vendor of two contacts, one of two emails, and two vendors  *)
(* for one module; a server with vendors that match in part, and with       *)
(* dependencies that differ in one attribute.                               *)
EXTENDS AcvpFipsValidation

Person(n, e) == [name |-> n, emails |-> e, phones |-> <<>>]
Acme == [emails |-> <<"acme">>, phones |-> <<>>, address |-> "beach",
         persons |-> <<Person("jane", <<"j">>), Person("joe", <<"k">>)>>]
TwoMails == [Acme EXCEPT !.emails = <<"acme", "sales">>]

Dep(desc, series) == [NoAttrs EXCEPT !["name"] = "linux", !["description"] = desc, !["series"] = series]

TheFiles ==
  {[vendors |-> <<Acme>>, modules |-> <<"all">>, oes |-> << <<Dep(None, None), Dep("lts", "s")>> >>],
   [vendors |-> <<TwoMails, Acme>>, modules |-> <<"all">>, oes |-> << <<Dep(None, "s")>> >>]}

\* The first file alone.
OneFile ==
  {[vendors |-> <<Acme>>, modules |-> <<"all">>, oes |-> << <<Dep(None, None), Dep("lts", "s")>> >>]}

Entry1(u, contacts, phones) ==
  [url |-> u, emails |-> <<"acme">>, phones |-> phones,
   addresses |-> <<[url |-> u \o "/a", at |-> "beach"]>>, contacts |-> contacts]

TheVendors ==
  {Entry1("v1", <<[url |-> "c2", name |-> "joe", emails |-> <<"k">>, phones |-> <<None>>],
                  [url |-> "c1", name |-> "jane", emails |-> <<"j">>, phones |-> <<>>]>>, <<>>),
   Entry1("v2", <<[url |-> "c3", name |-> "jane", emails |-> <<"j">>, phones |-> <<>>]>>, <<None>>),
   Entry1("v3", <<>>, <<"555">>)}

TheModules ==
  {[url |-> "m1", attrs |-> "all", same |-> "yes", vendor |-> "v1", address |-> "v1/a",
    contacts |-> <<"c1", "c2">>],
   [url |-> "m2", attrs |-> "all", same |-> "no", vendor |-> "v1", address |-> "v1/a",
    contacts |-> <<"c1", "c1">>]}

TheDependencies ==
  {[url |-> "d1", attrs |-> Dep(None, None)], [url |-> "d2", attrs |-> Dep("lts", "s")],
   [url |-> "d3", attrs |-> Dep("lts", None)]}

TheOes == {[url |-> "o1", deps |-> <<"d1", "d2">>], [url |-> "o2", deps |-> <<"d3">>]}
=============================================================================
