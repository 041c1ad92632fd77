--------------------------- MODULE ModelProviders ---------------------------
(***************************************************************************)
(* The language models users bring with them (identity/model_providers.py  *)
(* and the /v1/auth/model-providers handlers of main.py): a key is tried,  *)
(* stored and marked in three steps, and the chat picks the latest active  *)
(* row of a slot in two.                                                   *)
(***************************************************************************)
EXTENDS Naturals, FiniteSets, Sequences

CONSTANTS
    Owners,
    Slots,          \* text, multimodal
    WorkingKeys,    \* keys the vendor accepts
    BadKeys,
    Handlers,       \* threads of the provider handlers
    MaxProviders    \* bound on the rows ever made

VARIABLES
    providers,      \* rows of model_providers, deleted ones kept with gone set
    handlers,       \* the request of each thread
    chosen          \* the configuration the last chat of each owner and slot used

providerVars == <<providers, handlers, chosen>>

Rest == [op |-> "rest"]
NoConfig == [none |-> TRUE]
Present(i) == ~providers[i].gone
Goes(h, state) == handlers' = [handlers EXCEPT ![h] = state]

ProviderInit ==
    /\ providers = <<>>
    /\ handlers = [h \in Handlers |-> Rest]
    /\ chosen = [slot \in Owners \X Slots |-> NoConfig]

\* _test_provider: one call to the vendor with the key.
_test_provider(key) == key \in WorkingKeys

\* auth_create_model_provider: the key is tried first ...
CreateProvider(h) ==
    /\ handlers[h] = Rest
    /\ \E o \in Owners, s \in Slots, key \in WorkingKeys \cup BadKeys :
         Goes(h, [op |-> "insert", owner |-> o, slot |-> s, key |-> key, ok |-> _test_provider(key)])
    /\ UNCHANGED <<providers, chosen>>

\* ... the row is stored unverified ...
InsertProvider(h) ==
    /\ handlers[h].op = "insert" /\ Len(providers) < MaxProviders
    /\ providers' = Append(providers, [owner |-> handlers[h].owner, slot |-> handlers[h].slot, key |-> handlers[h].key,
                                       status |-> "unverified", touched |-> 0, gone |-> FALSE])
    /\ Goes(h, [op |-> "mark", row |-> Len(providers) + 1, owner |-> handlers[h].owner, ok |-> handlers[h].ok])
    /\ UNCHANGED chosen

\* update_status: nothing if the row is gone; updated_at moves (touched ranks
\* the rows by it).
MarkProvider(h) ==
    /\ handlers[h].op = "mark"
    /\ providers' = [i \in DOMAIN providers |->
            IF i = handlers[h].row /\ Present(i)
            THEN [providers[i] EXCEPT !.status = IF handlers[h].ok THEN "active" ELSE "error",
                                      !.touched = 1 + Cardinality({j \in DOMAIN providers : providers[j].touched > 0})]
            ELSE providers[i]]
    /\ Goes(h, [op |-> "show", row |-> handlers[h].row])
    /\ UNCHANGED chosen

\* The row is read back for the answer; a row deleted meanwhile is an error 500.
ShowProvider(h) ==
    /\ handlers[h].op = "show"
    /\ Goes(h, Rest)
    /\ UNCHANGED <<providers, chosen>>

DeleteProvider(o, i) ==
    /\ Present(i) /\ providers[i].owner = o
    /\ providers' = [providers EXCEPT ![i].gone = TRUE]
    /\ UNCHANGED <<handlers, chosen>>

\* mutant
ActiveRows_anyStatus(o, s) == {i \in DOMAIN providers : Present(i) /\ providers[i].owner = o /\ providers[i].slot = s}

ActiveRows(o, s) ==
    {i \in DOMAIN providers : /\ Present(i) /\ providers[i].owner = o /\ providers[i].slot = s
                              /\ providers[i].status = "active"}

\* get_active_provider for a chat: the id of the latest active row of the slot ...
PickProvider(h) ==
    /\ handlers[h] = Rest
    /\ \E o \in Owners, s \in Slots :
         IF ActiveRows(o, s) = {}
         THEN UNCHANGED handlers /\ chosen' = [chosen EXCEPT ![<<o, s>>] = NoConfig]
         ELSE /\ \E i \in ActiveRows(o, s) :
                    /\ \A j \in ActiveRows(o, s) : providers[j].touched <= providers[i].touched
                    /\ Goes(h, [op |-> "load", owner |-> o, slot |-> s, row |-> i])
              /\ UNCHANGED chosen
    /\ UNCHANGED providers

\* ... and the row again, by id and owner: the platform's model if it is gone.
LoadProvider(h) ==
    /\ handlers[h].op = "load"
    /\ LET i == handlers[h].row
       IN  chosen' = [chosen EXCEPT ![<<handlers[h].owner, handlers[h].slot>>] =
                IF Present(i) /\ providers[i].owner = handlers[h].owner
                THEN [owner |-> providers[i].owner, slot |-> providers[i].slot, key |-> providers[i].key] ELSE NoConfig]
    /\ Goes(h, Rest)
    /\ UNCHANGED providers

\* The process dies between two steps.
CrashProviders ==
    /\ \E h \in Handlers : handlers[h] # Rest
    /\ handlers' = [h \in Handlers |-> Rest]
    /\ UNCHANGED <<providers, chosen>>

ProviderNext ==
    \/ \E h \in Handlers : \/ CreateProvider(h) \/ InsertProvider(h) \/ MarkProvider(h) \/ ShowProvider(h)
                           \/ PickProvider(h) \/ LoadProvider(h)
    \/ \E o \in Owners, i \in DOMAIN providers : DeleteProvider(o, i)
    \/ CrashProviders

ProviderSpec == ProviderInit /\ [][ProviderNext]_providerVars

-----------------------------------------------------------------------------
(* Properties *)

\* A chat is never sent to a key that was not tried and accepted, whatever is
\* stored, deleted or lost in a crash around it, and never to the key of
\* another user or of the other slot.
ChatsUseTriedKeys ==
    \A o \in Owners, s \in Slots :
        chosen[<<o, s>>] # NoConfig => /\ chosen[<<o, s>>].key \in WorkingKeys
                                   /\ chosen[<<o, s>>].owner = o /\ chosen[<<o, s>>].slot = s

\* What the list says of a key is what the trial said: an active row has a key
\* that works, a row in error one that does not.
StatusTellsTrial ==
    \A i \in DOMAIN providers :
        /\ providers[i].status = "active" => providers[i].key \in WorkingKeys
        /\ providers[i].status = "error" => providers[i].key \in BadKeys

\* Each user has one configuration per slot (the doc of create_model_provider).
\* Nothing removes the earlier one.
OneConfigPerSlot ==
    \A i, j \in DOMAIN providers :
        (Present(i) /\ Present(j) /\ providers[i].owner = providers[j].owner /\ providers[i].slot = providers[j].slot) => i = j

\* A row stays unverified only while its trial is being recorded. A crash
\* leaves it so for good.
UnverifiedIsBrief ==
    \A i \in DOMAIN providers :
        (Present(i) /\ providers[i].status = "unverified") =>
            \E h \in Handlers : handlers[h].op = "mark" /\ handlers[h].row = i

=============================================================================
