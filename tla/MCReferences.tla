----------------------------- MODULE MCReferences -----------------------------
(***************************************************************************)
(* An instance of References for TLC: four paths, two of which share a     *)
(* base name, and vaults in which links are written in every way.          *)
(***************************************************************************)
EXTENDS References

da == <<"d", "a">>
db == <<"d", "b">>
ea == <<"e", "a">>
ec == <<"e", "c">>

MCPathOrder == <<da, db, ea, ec>>
MCTokens == ("a" :> {"alpha"}) @@ ("c" :> {"beta"}) @@ ("b" :> {"beta"}) @@ ("d" :> {}) @@ ("e" :> {})
              @@ ("k" :> {}) @@ ("m" :> {}) @@ (".." :> {}) @@ ("h1" :> {"plan"}) @@ ("h2" :> {"plan"})

Wiki(raw) == [kind |-> "wiki", raw |-> raw, anchor |-> NoAnchor]
Link(raw) == [kind |-> "markdown", raw |-> raw, anchor |-> NoAnchor]
At(ref, anchor) == [ref EXCEPT !.anchor = anchor]
Plain(id, body) == [id |-> id, header |-> FALSE, aliases |-> {}, anchors |-> <<>>,
                    superseded |-> FALSE, needs |-> {}, body |-> body]
Named(id, aliases, body) == [Plain(id, body) EXCEPT !.header = TRUE, !.aliases = aliases]
Vault(a, b, c) == (da :> a) @@ (db :> b) @@ (ea :> c) @@ (ec :> None)

MCAnchorOrder == <<"h1", "h2">>
MCTyped == {ea}
MCDuplicates == {{da, ea}, {da, db}}
MCNewNotes == {[Plain(0, <<>>) EXCEPT !.anchors = <<"h2">>]}
MCBodies == {<<Wiki(<<"k">>)>>, <<Link(<<"a">>), Wiki(ea)>>}

MCVaults ==
  {\* one target, reached by path, by a relative link and by name
   Vault([Plain(1, <<>>) EXCEPT !.anchors = <<"h1">>],
         Plain(2, <<Wiki(da), Link(<<"a">>), At(Wiki(<<"a">>), "h1")>>), None),
   \* an anchor to mend, a link that climbs, a note that depends on another
   Vault([Plain(1, <<At(Link(<<"..", "e", "a">>), "h2"), Link(<<"..", "..", "b">>)>>)
            EXCEPT !.needs = {<<"task", ea>>}],
         None, [Plain(3, <<>>) EXCEPT !.anchors = <<"h1">>]),
   \* the same link twice under frontmatter
   Vault(None, Named(2, {<<"m">>}, <<Wiki(da), Wiki(da), Wiki(<<"k">>)>>), Named(3, {<<"k">>}, <<>>)),
   \* two duplicates: within the limit, and over it
   Vault(Named(1, {<<"m">>}, <<Wiki(<<"k">>)>>), Plain(2, <<Wiki(<<"k">>)>>), Named(3, {<<"k">>}, <<>>)),
   Vault(Named(1, {<<"m">>}, <<>>), Plain(2, <<Wiki(<<"k">>), Wiki(ea), Link(<<"..", "e", "a">>)>>),
         Named(3, {<<"k">>, <<"m">>}, <<Wiki(<<"k">>)>>))}
=============================================================================
