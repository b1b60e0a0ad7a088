---- MODULE MCDataConsumers ----
EXTENDS DataConsumers

File(kind, records) == [kind |-> kind, records |-> records]

SomeFiles == {File("regular", <<>>), File("regular", <<"Mbo">>),
              File("regular", <<"SymbolMapping", "Mbo", "Mbo">>), File("regular", <<"Mbo", "SymbolMapping">>),
              File("missing", <<>>), File("unmappable", <<>>), File("empty", <<>>)}

\* The example program gives up when there is no file at all.
UpToThreeFiles == UNION {[1..n -> SomeFiles] : n \in 1..3}
====
