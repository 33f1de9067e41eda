SPECIFICATION Spec
CONSTANTS
  t1 = t1
  t2 = t2
  h1 = h1
  h2 = h2
  axe = axe
  bane = bane
  unknown = unknown
  id_axe = id_axe
  id_bane = id_bane
  Tokens = {t1}
  Configs = {started}
  NoConfig = none
  Units = {axe, bane}
  Heroes = {id_axe, id_bane}
  NoHero = id_0
  HeroId <- Catalogue
  Positions = {p, q}
  OnMap = {TRUE}
  MaxEnemies = 2
  NoSnapshot = nosnapshot
  Handlers = {h1}
  MaxLen = 1
  MaxEntries = 3
INVARIANTS
  VisibleIsFresh
