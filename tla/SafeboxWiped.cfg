SPECIFICATION Spec
CONSTANTS
  Accounts = {1, 2}
  Players = {1, 2, 3}
  AccountOf <- TheAccount
  Items = {1, 2, 3, 4}
  Height <- Tall
  Stackable = {1, 2}
  Refused = {4}
  Width = 2
  MaxSize = 2
  CountLimit = 3
  GoldMax = 1
  FirstRows <- Bags
  FirstGold <- Purses
  MaxEvents = 6
  MaxFaults = 1
PROPERTIES BoxesOutliveCharacters
CHECK_DEADLOCK FALSE
