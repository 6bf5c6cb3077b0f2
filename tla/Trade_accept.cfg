SPECIFICATION Spec
CONSTANTS
    ann = ann
    bob = bob
    eve = eve
    sword = sword
    ring = ring
    spell = spell
    Players = {ann, bob, eve}
    Items = {sword, ring}
    Spells = {spell}
    TradedSlots = {1}
    NonTraded = 2
    NoTrade = NoTrade
    NoItem = NoItem
    NoSpell = NoSpell
    Nobody = Nobody
    Owner <- OwnerInstance
    MaxMoney = 1
    MaxStack = 2
    Capacity = 1
    MaxIndex = 4
    MaxEvents = 2
INVARIANTS
    TypeOK
    TradeIsMutual
PROPERTIES
    NoForgottenDeal
    ExecutedAsShown
SYMMETRY OwnersAreAlike
