SPECIFICATION Spec
CONSTANTS
  base = base
  tool = tool
  Plugins = {base, tool}
  RuntimeVersion <- Runtime03
  AllowedPermissions <- Permissions
  Roots <- PluginRoots
INVARIANTS RegistryMirrors RegistryNeverInTheWay
PROPERTY LifecycleFollowed
