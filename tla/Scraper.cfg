SPECIFICATION Spec
CONSTANTS
  s1 = s1
  s2 = s2
  u1 = u1
  u2 = u2
  Sites <- SiteSet
  Urls <- UrlSet
  Methods <- MethodsOf
  Links <- LinksOf
  Dated <- OldOnes
  MaxKills = 1
INVARIANT OkHasFile
PROPERTY Settles
