-------------------------- MODULE MCClientAtGateway --------------------------
(* Small instances of ClientAtGateway for TLC. *)
EXTENDS ClientAtGateway

CONSTANTS admin, new, app, none, stranger, transfer, here, there

Sites == {[chain |-> 1, contract |-> here], [chain |-> 1, contract |-> there],
          [chain |-> 2, contract |-> here]}
ThisSite == [chain |-> 1, contract |-> here]

Certificates ==
  {Certificate(ActionKey(i), n, site, s) :
     i \in 0..(MaxActionIndex - 1), n \in Counter, site \in Site, s \in Selector}

Accounts ==
  {admin, new, app, stranger, RootAddress} \cup ActionAddress
    \cup {EthAddress(GuardianKey(i)) : i \in 0..2}
    \cup {c.session : c \in Certificates}

Lists == {<<EthAddress(GuardianKey(0)), EthAddress(GuardianKey(1)),
            EthAddress(GuardianKey(2))>>}

Data == {[selector |-> s] : s \in Selector}

Sessions ==
  {WithSigner(c, c.parent) : c \in Certificates}
    \cup {WithSigner(c, stranger) : c \in Certificates}
=============================================================================
