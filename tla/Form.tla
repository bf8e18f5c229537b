-------------------------------- MODULE Form --------------------------------
(***************************************************************************)
(* The forms of the terminal interface: "create VM", and the "create       *)
(* bridge" form that opens from it and whose result changes it later, when *)
(* the message of CreateBridge arrives.                                    *)
(*                                                                         *)
(* The fields are the ones the logic tells apart; "name" stands for those  *)
(* up to the memory and "rest" for those after the macvtap mode.  Options  *)
(* are a set: left and right go to another one.  Tui has none of the names *)
(* of this module, so that one can be used beside the other.               *)
(***************************************************************************)
EXTENDS Naturals, Sequences, FiniteSetsExt

CONSTANTS
  Networks, NICs,
  Bridges,       \* names of bridges, "New Bridge..." being no name of one
  Texts          \* what may be typed

ASSUME FormAssumption ==
  /\ Networks # {}
  /\ "New Bridge..." \notin Bridges \cup Networks \cup NICs \cup Texts
  /\ "br0" \in Bridges                            \* the default of the form

VARIABLES
  screen,        \* m.mode
  form,          \* formField, formFields, formValues, and m.bridges, m.nics
  bform,         \* bridgeField, bridgeFields, bridgeValues
  host,          \* the bridges of the host
  creating,      \* the bridges that CreateBridge is at
  sent           \* the network type and source of the last create submitted

formVars == <<screen, form, bform, host, creating, sent>>

NewBridge == "New Bridge..."
Blank     == ""                                   \* not filled in
Fields    == <<"name", "type", "source", "macvtap", "rest">>
BFields   == <<"name", "nic", "ipmode", "ip", "gateway", "dns", "sudo">>
Types     == {"nat", "bridge", "direct"}
None      == [type |-> "none", source |-> Blank]

NoForm  == [at |-> 1, type |-> "nat", source |-> Blank, options |-> {}, hidden |-> {"macvtap"},
            bridges |-> {}, nics |-> {}, valid |-> FALSE]
NoBForm == [at |-> 1, name |-> Blank, ipmode |-> "dhcp", hidden |-> {}, sudo |-> FALSE]

FormInit ==
  /\ screen = "list"
  /\ form = NoForm /\ bform = NoBForm
  /\ host \in SUBSET Bridges
  /\ creating = {}
  /\ sent = None

Sources == Networks \cup NICs \cup Bridges \cup Texts \cup {NewBridge, Blank}
FormTypeOK ==
  /\ screen \in {"list", "create", "bridge", "confirm"}
  /\ form \in [at : 1 .. Len(Fields), type : Types, source : Sources,
               options : SUBSET Sources, hidden : SUBSET {"macvtap"},
               bridges : SUBSET Bridges, nics : SUBSET NICs, valid : BOOLEAN]
  /\ bform \in [at : 1 .. Len(BFields), name : Bridges \cup {Blank}, ipmode : {"dhcp", "static"},
                hidden : SUBSET {"ip", "gateway", "dns"}, sudo : BOOLEAN]
  /\ host \subseteq Bridges /\ creating \subseteq Bridges
  /\ sent \in [type : Types \cup {"none"}, source : Sources]

-----------------------------------------------------------------------------
(* What the forms have in common                                           *)

\* Broken: takes the field next to it.
Visible_Any(fields, hidden, at) ==
  {at} \cup {i \in {at - 1, at + 1} : i \in 1 .. Len(fields)}

\* Broken: without the bounds.
Visible_Past(fields, hidden, at) == {at - 1, at, at + 1}

\* nextVisibleField: the one before and the one after that are not hidden.
Visible(fields, hidden, at) ==
  LET shown == {i \in 1 .. Len(fields) : fields[i] \notin hidden}
      above == {i \in shown : i < at}
      below == {i \in shown : i > at}
  IN  {at} \cup (IF above = {} THEN {} ELSE {Max(above)})
           \cup (IF below = {} THEN {} ELSE {Min(below)})

Last(fields, hidden, at) == \A i \in Visible(fields, hidden, at) : i <= at

-----------------------------------------------------------------------------
(* The create form                                                         *)

\* enterCreateMode lists the networks, the bridges and the NICs anew; a list
\* that fails is an empty one, except that of the networks.
EnterCreateMode ==
  /\ screen = "list"
  /\ \E n \in Networks, b \in {host, {}}, nics \in {NICs, {}} :
       form' = [NoForm EXCEPT !.source = n, !.options = Networks,
                              !.bridges = b, !.nics = nics]
  /\ screen' = "create"
  /\ UNCHANGED <<bform, host, creating, sent>>

Move == /\ screen = "create"
        /\ \E i \in Visible(Fields, form.hidden, form.at) \ {form.at} :
             form' = [form EXCEPT !.at = i]
        /\ UNCHANGED <<screen, bform, host, creating, sent>>

\* updateNetSourceOptions
TypeChosen(t) ==
  IF t = "nat"
    THEN {[form EXCEPT !.type = t, !.options = Networks, !.source = s, !.hidden = {"macvtap"}] :
            s \in Networks}
  ELSE IF t = "bridge"
    THEN {[form EXCEPT !.type = t, !.options = form.bridges \cup {NewBridge},
                       !.source = s, !.hidden = {"macvtap"}] :
            s \in IF form.bridges = {} THEN {NewBridge} ELSE form.bridges}
    ELSE {[form EXCEPT !.type = t, !.options = form.nics, !.source = s, !.hidden = {}] :
            s \in IF form.nics = {} THEN {Blank} ELSE form.nics}

\* left and right, and typing
Edit == /\ screen = "create"
        /\ \/ /\ Fields[form.at] = "type"
              /\ \E t \in Types \ {form.type} : form' \in TypeChosen(t)
           \/ /\ Fields[form.at] = "source"
              /\ \E s \in IF form.options = {} THEN Texts ELSE form.options :
                   form' = [form EXCEPT !.source = s]
           \/ /\ Fields[form.at] \in {"name", "rest"}
              /\ \E v \in BOOLEAN : form' = [form EXCEPT !.valid = v]
        /\ UNCHANGED <<screen, bform, host, creating, sent>>

\* enterBridgeMode: with the NIC's address as the default
EnterBridgeMode ==
  /\ form.nics # {}
  /\ \E i \in {"dhcp", "static"} :
       bform' = [NoBForm EXCEPT !.name = "br0", !.ipmode = i,
                   !.hidden = IF i = "static" THEN {} ELSE {"ip", "gateway", "dns"}]
  /\ screen' = "bridge"
  /\ UNCHANGED <<form, host, creating, sent>>

\* submitCreate
SubmitCreate ==
  IF form.source = NewBridge THEN EnterBridgeMode
  ELSE /\ form.valid
       /\ sent' = [type |-> form.type, source |-> form.source]
       /\ screen' = "list"
       /\ UNCHANGED <<form, bform, host, creating>>

Enter == /\ screen = "create"
         /\ IF Fields[form.at] = "source" /\ form.source = NewBridge THEN EnterBridgeMode
            ELSE IF Last(Fields, form.hidden, form.at) THEN SubmitCreate
            ELSE /\ form' = [form EXCEPT !.at = Min({i \in Visible(Fields, form.hidden, @) : i > @})]
                 /\ UNCHANGED <<screen, bform, host, creating, sent>>

-----------------------------------------------------------------------------
(* The bridge form                                                         *)

BMove == /\ screen = "bridge"
         /\ \E i \in Visible(BFields, bform.hidden, bform.at) \ {bform.at} :
              bform' = [bform EXCEPT !.at = i]
         /\ UNCHANGED <<screen, form, host, creating, sent>>

\* cycleBridgeSelect: choosing a NIC sets the IP mode, which hides fields.
BEdit ==
  /\ screen = "bridge"
  /\ LET f == BFields[bform.at] IN
     \/ /\ f \in {"nic", "ipmode"}
        /\ \E i \in {"dhcp", "static"} :
             bform' = [bform EXCEPT !.ipmode = i,
                         !.hidden = IF i = "static" THEN {} ELSE {"ip", "gateway", "dns"}]
     \/ /\ f = "name"
        /\ \E b \in Bridges \cup {Blank} : bform' = [bform EXCEPT !.name = b]
     \/ /\ f = "sudo"
        /\ \E p \in BOOLEAN : bform' = [bform EXCEPT !.sudo = p]
  /\ UNCHANGED <<screen, form, host, creating, sent>>

\* submitBridge
BSubmit == /\ screen = "bridge"
           /\ Last(BFields, bform.hidden, bform.at)
           /\ bform.name # Blank /\ bform.sudo
           /\ screen' = "confirm"
           /\ UNCHANGED <<form, bform, host, creating, sent>>

\* The closure also brings back the m.bridges of the dialog's start, which no
\* key of the list reads.
Confirm ==
  /\ screen = "confirm"
  /\ screen' = "list"
  /\ creating' = creating \cup {bform.name}
  /\ UNCHANGED <<form, bform, host, sent>>

Escape == /\ screen # "list"
          /\ screen' = IF screen = "bridge" THEN "create" ELSE "list"
          /\ UNCHANGED <<form, bform, host, creating, sent>>

-----------------------------------------------------------------------------
(* The message of CreateBridge                                             *)

\* Broken: sets the source whatever the network type is.
BridgeDone_AnyType(b) ==
  /\ b \in creating
  /\ creating' = creating \ {b}
  /\ \/ UNCHANGED <<form, host>>
     \/ /\ host' = host \cup {b}
        /\ \E known \in {host', {}} :
             form' = [form EXCEPT !.bridges = known, !.source = b,
                        !.options = IF form.type = "bridge" THEN known \cup {NewBridge} ELSE @]
  /\ UNCHANGED <<screen, bform, sent>>

\* cmdDoneMsg when it failed; else bridgeCreatedMsg, with the bridges or, when
\* they cannot be listed, none.  The form that is shown may be a later one.
BridgeDone(b) ==
  /\ b \in creating
  /\ creating' = creating \ {b}
  /\ \/ UNCHANGED <<form, host>>
     \/ /\ host' = host \cup {b}
        /\ \E known \in {host', {}} :
             form' = IF form.type = "bridge"
                       THEN [form EXCEPT !.bridges = known, !.source = b,
                                         !.options = known \cup {NewBridge}]
                       ELSE [form EXCEPT !.bridges = known]
  /\ UNCHANGED <<screen, bform, sent>>

FormNext ==
  \/ EnterCreateMode \/ Move \/ Edit \/ Enter
  \/ BMove \/ BEdit \/ BSubmit \/ Confirm \/ Escape
  \/ \E b \in Bridges : BridgeDone(b)

FormSpec == FormInit /\ [][FormNext]_formVars

-----------------------------------------------------------------------------
(* Properties                                                              *)

\* The cursor of a form is never on a field that is not shown.
FocusVisible == /\ screen = "create" => Fields[form.at] \notin form.hidden
                /\ screen = "bridge" => BFields[bform.at] \notin bform.hidden

\* What is submitted fits its network type: a network of libvirt, a bridge of
\* the host, and for direct a NIC of the host, or what was typed or left blank where
\* there is none to choose; "New Bridge..." is never taken for the name of one.
SubmittedFits ==
  /\ sent.type = "nat"    => sent.source \in Networks
  /\ sent.type = "bridge" => sent.source \in host
  /\ sent.type = "direct" => sent.source \in NICs \cup Texts \cup {Blank}
=============================================================================
