SPECIFICATION Spec
CONSTANTS
    alice = alice  bob = bob
    passport = passport  licence = licence
    Account = {alice, bob}
    Did = {passport, licence}
    NoDid = NoDid  NoOne = NoOne
    Contracts = {bob}
    OptionLists <- Schedules
    InitOptions <- Schedule
    UpgradeTime = 2
    OldStatus <- OldKnowsBob
    OldDIDOwner <- OldPassport
    Timestamps = {0, 1, 2, 3}
    Start = 1
    MaxTime = 3
    MaxCount = 3
INVARIANTS DidsAreUnique
PROPERTY AuthenticationCounts
