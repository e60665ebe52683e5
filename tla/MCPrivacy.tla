----------------------------- MODULE MCPrivacy -----------------------------
(* The privacy gateway on small instances. *)
EXTENDS PrivacyProperties

Mail == <<"bob", "corp">>
Corp == <<"corp">>
Site == <<"site">>

MCWords == {"bob", "corp", "site", "user", "masked", "local", "*"}
MCKind == (Mail :> "email") @@ (Corp :> "domain") @@ (Site :> "domain")
MCPool == [email |-> {"user"}, domain |-> {"masked", "local"}]
MCAlike == [w \in MCWords |-> {w}]

\* The domain of the address is also a value of its own.
MCTexts == <<{<<Mail, Corp>>, <<Site>>}, {<<Site, Corp>>}>>

=============================================================================
